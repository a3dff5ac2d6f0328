------------------------------ MODULE CatalogProofs ------------------------------
(***************************************************************************)
(* Proofs about the provider registry (ModelRefresh, Catalog) and about a  *)
(* request that is routed over it (Routing), for any providers, lists of   *)
(* models, page sizes, pools of workers, admins, lives of a record and     *)
(* kinds of requests.                                                      *)
(*                                                                         *)
(* The registry's invariant CatalogInv has five parts: the types of the    *)
(* refresh and of the probe, the rows of a provider, the sweep of the      *)
(* daily refresh, and the records of the checks.  That of a request adds   *)
(* what it has read so far to what was true all along (ChoosingInv).       *)
(***************************************************************************)
EXTENDS Routing, TLAPS, FiniteSetTheorems, WellFoundedInduction

-----------------------------------------------------------------------------
(* The least and the greatest of a set of names *)

\* Any set of natural numbers that is not empty has a least element.
LEMMA Least ==
  ASSUME NEW T, T \subseteq Nat, T # {}
  PROVE  \E g \in T : \A t \in T : g <= t
<1> DEFINE R == {ss \in Nat \X Nat : ss[1] < ss[2]}
<1>1. IsWellFoundedOn(R, Nat)
  BY NatLessThanWellFounded, Zenon DEF OpToRel
<1>2. PICK g \in T : \A t \in T : ~(<<t, g>> \in R)
  <2> HIDE DEF R
  <2>1. QED
    BY <1>1, WFMin, Zenon
<1>3. ASSUME NEW t \in T
      PROVE  g <= t
  <2>1. t \in Nat /\ g \in Nat /\ <<t, g>> \notin R
    BY <1>2
  <2>2. ~(t < g)
    BY <2>1
  <2>3. QED
    BY <2>1, <2>2
<1>4. QED
  BY <1>3

\* Min of the library is that element.
LEMMA MinIsLeast ==
  ASSUME NEW S, S \subseteq Nat, S # {}
  PROVE  Min(S) \in S /\ \A x \in S : Min(S) <= x
<1>1. \E g \in S : \A x \in S : g <= x
  BY Least
<1>2. QED
  BY <1>1 DEF Min

\* Of two numbers it is the smaller.
LEMMA MinOfTwo ==
  ASSUME NEW a \in Nat, NEW b \in Nat
  PROVE  Min({a, b}) = IF a <= b THEN a ELSE b
<1>1. Min({a, b}) \in {a, b} /\ \A x \in {a, b} : Min({a, b}) <= x
  BY MinIsLeast
<1>2. QED
  BY <1>1

\* A finite set of numbers that is not empty has a greatest element: one that the
\* fewest of the others exceed.
LEMMA MaxIsGreatest ==
  ASSUME NEW S, S \subseteq Nat, S # {}, IsFiniteSet(S)
  PROVE  Max(S) \in S /\ \A x \in S : x <= Max(S)
<1> DEFINE Over(p) == {q \in S : q > p}
           T == {Cardinality(Over(p)) : p \in S}
<1>1. \A p \in S : IsFiniteSet(Over(p)) /\ Cardinality(Over(p)) \in Nat
  BY FS_Subset, FS_CardinalityType
<1>2. PICK g \in T : \A t \in T : g <= t
  <2>1. T \subseteq Nat /\ T # {}
    BY <1>1
  <2>2. QED
    BY <2>1, Least
<1>3. PICK m \in S : g = Cardinality(Over(m))
  OBVIOUS
<1>4. ASSUME NEW x \in S, x > m
      PROVE  FALSE
  <2>1. Over(x) \in SUBSET Over(m)
    <3>1. \A q \in S : q \in Nat
      OBVIOUS
    <3>2. \A q \in S : q > x => q > m
      BY <1>4, <3>1
    <3>3. QED
      BY <3>2
  <2>2. m \in S /\ m \notin Over(x) /\ x \in Over(m) /\ x \notin Over(x)
    BY <1>4
  <2>3. Cardinality(Over(x)) <= Cardinality(Over(m)) /\ Cardinality(Over(x)) # Cardinality(Over(m))
    BY <1>1, <2>1, <2>2, FS_Subset
  <2>4. Cardinality(Over(m)) <= Cardinality(Over(x))
    BY <1>2, <1>3
  <2>5. Cardinality(Over(m)) \in Nat /\ Cardinality(Over(x)) \in Nat
    BY <1>1
  <2> HIDE DEF Over
  <2>6. QED
    BY <2>3, <2>4, <2>5
<1>5. \A x \in S : m >= x
  BY <1>4
<1>6. Max(S) \in S /\ \A x \in S : Max(S) >= x
  BY <1>5 DEF Max
<1>7. QED
  BY <1>6

\* The first n of a set of names are an initial segment of it, of n names at most, and
\* empty only if the set is (the LIMIT of getEnabledProviderBatch).
LEMMA FirstOf ==
  ASSUME NEW A, A \subseteq Nat, IsFiniteSet(A), NEW n \in Nat \ {0},
         NEW P, P = {p \in A : Cardinality({q \in A : q <= p}) <= n}
  PROVE  /\ Cardinality(P) <= n
         /\ A # {} => P # {}
         /\ P # {} => /\ Max(P) \in P
                      /\ \A p \in A \ P : p > Max(P)
<1> DEFINE Upto(p) == {q \in A : q <= p}
<1>1. \A p \in A : IsFiniteSet(Upto(p)) /\ Cardinality(Upto(p)) \in Nat
  BY FS_Subset, FS_CardinalityType
<1>2. P \in SUBSET A /\ IsFiniteSet(P) /\ Cardinality(P) \in Nat
  BY FS_Subset, FS_CardinalityType
<1>3. P = {p \in A : Cardinality(Upto(p)) <= n}
  OBVIOUS
<1>4. ASSUME NEW p \in A, NEW m \in A, p <= m
      PROVE  Upto(p) \in SUBSET Upto(m)
  <2>1. \A q \in A : q \in Nat
    OBVIOUS
  <2>2. \A q \in A : q <= p => q <= m
    BY <1>4, <2>1
  <2>3. QED
    BY <2>2
<1>5. \A p, q \in A : q \in Upto(p) <=> q <= p
  OBVIOUS
<1>6. \A p \in A : Upto(p) \subseteq A
  OBVIOUS
<1> HIDE DEF Upto
<1>7. ASSUME P # {}
      PROVE  Max(P) \in P /\ \A p \in P : p <= Max(P)
  <2>1. P \subseteq Nat
    BY <1>2
  <2>2. QED
    BY <1>2, <1>7, <2>1, MaxIsGreatest
<1>8. Cardinality(P) <= n
  <2>1. CASE P = {}
    <3>1. Cardinality(P) = 0
      BY <2>1, FS_EmptySet
    <3>2. QED
      BY <3>1
  <2>2. CASE P # {}
    <3>1. PICK m \in P : \A p \in P : p <= m
      BY <1>7, <2>2
    <3>2. P \in SUBSET Upto(m) /\ m \in A
      BY <1>2, <1>5, <3>1
    <3>3. Cardinality(P) <= Cardinality(Upto(m))
      BY <1>1, <3>2, FS_Subset
    <3>4. Cardinality(Upto(m)) <= n
      BY <1>3
    <3>5. Cardinality(Upto(m)) \in Nat
      BY <1>1, <3>2
    <3>6. QED
      BY <1>2, <3>3, <3>4, <3>5
  <2>3. QED
    BY <2>1, <2>2
<1>9. ASSUME A # {}
      PROVE  P # {}
  <2>1. PICK a \in A : \A x \in A : a <= x
    BY <1>9, Least
  <2>2. \A q \in Upto(a) : q = a
    <3>1. TAKE q \in Upto(a)
    <3>2. q \in A /\ a \in A
      BY <1>6
    <3>3. q <= a /\ a <= q /\ q \in Nat /\ a \in Nat
      BY <1>5, <2>1, <3>2
    <3>4. QED
      BY <3>3
  <2>3. a \in Upto(a)
    BY <1>5
  <2>4. Upto(a) = {a}
    BY <2>2, <2>3
  <2>5. Cardinality(Upto(a)) = 1
    BY <2>4, FS_Singleton
  <2>6. Cardinality(Upto(a)) <= n
    BY <2>5
  <2>7. a \in P
    BY <1>3, <2>6
  <2>8. QED
    BY <2>7
<1>10. ASSUME P # {}, NEW p \in A \ P
       PROVE  p > Max(P)
  <2>1. PICK m : m = Max(P)
    OBVIOUS
  <2>2. m \in P /\ m \in A /\ p \in A /\ m \in Nat /\ p \in Nat
    BY <1>2, <1>7, <1>10, <2>1
  <2>3. SUFFICES ASSUME p <= m
                 PROVE  FALSE
    BY <2>1, <2>2
  <2>4. Upto(p) \in SUBSET Upto(m)
    BY <1>4, <2>2, <2>3
  <2>5. Cardinality(Upto(p)) <= Cardinality(Upto(m))
    BY <1>1, <2>2, <2>4, FS_Subset
  <2>6. Cardinality(Upto(m)) <= n
    BY <1>3, <2>2
  <2>7. Cardinality(Upto(m)) \in Nat /\ Cardinality(Upto(p)) \in Nat
    BY <1>1, <2>2
  <2>8. Cardinality(Upto(p)) <= n
    BY <2>5, <2>6, <2>7
  <2>9. QED
    BY <1>3, <1>10, <2>2, <2>8
<1>11. QED
  BY <1>7, <1>8, <1>9, <1>10

-----------------------------------------------------------------------------
(* A page of the registry *)

\* A page holds the first of the names after the cursor; the cursor of the next page is
\* its last name, so that every name after the cursor is in the page or after that one.
LEMMA PageFacts ==
  ASSUME CatalogAssumption, enabled \subseteq Names, NEW c \in Nat
  PROVE  /\ Page(c) \subseteq After(c) /\ Page(c) \subseteq Names
         /\ Cardinality(Page(c)) <= PageSize
         /\ NextCursor(c) \in Names \cup {0}
         /\ More(c) => /\ NextCursor(c) > c
                       /\ \A p \in After(c) : p \in Page(c) \/ p > NextCursor(c)
         /\ ~More(c) => NextCursor(c) = 0 /\ Page(c) = After(c)
<1>1. After(c) \subseteq Names /\ After(c) \subseteq Nat /\ IsFiniteSet(After(c))
  <2>1. After(c) \in SUBSET Names
    BY DEF After
  <2>2. QED
    BY <2>1, FS_Subset DEF CatalogAssumption
<1>2. Page(c) = {p \in After(c) : Cardinality({q \in After(c) : q <= p}) <= PageSize}
  BY DEF Page
<1>3. /\ Cardinality(Page(c)) <= PageSize
      /\ After(c) # {} => Page(c) # {}
      /\ Page(c) # {} => /\ Max(Page(c)) \in Page(c)
                         /\ \A p \in After(c) \ Page(c) : p > Max(Page(c))
  <2>1. PageSize \in Nat \ {0}
    BY DEF CatalogAssumption
  <2>2. QED
    BY <1>1, <1>2, <2>1, FirstOf
<1>4. Page(c) \subseteq After(c)
  BY <1>2
<1>5. ASSUME More(c)
      PROVE  /\ NextCursor(c) > c /\ NextCursor(c) \in Names
             /\ \A p \in After(c) : p \in Page(c) \/ p > NextCursor(c)
  <2>1. NextCursor(c) = Max(Page(c)) /\ Page(c) # {}
    BY <1>3, <1>4, <1>5 DEF NextCursor, More
  <2>2. NextCursor(c) \in After(c)
    BY <1>3, <1>4, <2>1
  <2>3. \A p \in After(c) : p \in Page(c) \/ p > NextCursor(c)
    BY <1>3, <2>1
  <2>4. QED
    BY <1>1, <2>2, <2>3 DEF After
<1>6. ASSUME ~More(c)
      PROVE  NextCursor(c) = 0 /\ Page(c) = After(c)
  BY <1>6 DEF NextCursor, More
<1>7. QED
  BY <1>1, <1>3, <1>4, <1>5, <1>6

-----------------------------------------------------------------------------
(* The types of the variables *)

Jobs == [step : {"none", "list", "upsert", "deprecate"}, of : Names \cup {0}, list : SUBSET Models]

Sweeps ==
    [at : {"idle", "page", "dead"}, left : SUBSET Names, page : 0..PagesPerRun,
     next : Names \cup {0}, more : BOOLEAN, failed : BOOLEAN]

Groups == [lists : SUBSET Lists, old : SUBSET Models]

\* What is true of one refresh of a provider.
JobOK(r) ==
    /\ job[r].step = "none" => job[r] = NoJob
    /\ job[r].step # "none" => job[r].of \in Names
    /\ job[r].step \in {"upsert", "deprecate"} => job[r].list \in Lists
    /\ r \in Workers /\ job[r] # NoJob => sweep.at = "page"

RefreshTyped ==
    /\ enabled \subseteq Names /\ broken \subseteq Names /\ due \subseteq enabled \ broken
    /\ live \in [Names -> SUBSET Models]
    /\ cursor \in Names \cup {0}
    /\ sweep \in Sweeps /\ Cardinality(sweep.left) <= PageSize
    /\ job \in [Refreshers -> Jobs]
    /\ group \in [Names -> Groups]
    /\ \A r \in Refreshers : JobOK(r)
    /\ \A r \in Refreshers : r \in Workers \/ r \in Admins

LEMMA RefreshTypedInit ==
  ASSUME CatalogAssumption, RefreshInit
  PROVE  RefreshTyped
<1>1. /\ enabled \subseteq Names /\ broken \subseteq Names /\ due \subseteq enabled \ broken
      /\ live \in [Names -> SUBSET Models]
      /\ cursor \in Names \cup {0}
  BY DEF RefreshInit, Served
<1>2. sweep \in Sweeps
  BY DEF RefreshInit, Asleep, Sweeps, CatalogAssumption
<1>3. Cardinality(sweep.left) <= PageSize
  <2>1. sweep.left = {}
    BY DEF RefreshInit, Asleep
  <2>2. Cardinality(sweep.left) = 0
    BY <2>1, FS_EmptySet
  <2>3. QED
    BY <2>2 DEF CatalogAssumption
<1>4. job \in [Refreshers -> Jobs]
  BY DEF RefreshInit, NoJob, Jobs
<1>5. group \in [Names -> Groups]
  BY DEF RefreshInit, Groups
<1>6. \A r \in Refreshers : JobOK(r) /\ (r \in Workers \/ r \in Admins)
  BY DEF RefreshInit, JobOK, NoJob, Refreshers
<1>7. QED
  BY <1>1, <1>2, <1>3, <1>4, <1>5, <1>6 DEF RefreshTyped

\* Of a page no more is served than it has rows.
LEMMA ServedOfPage ==
  ASSUME CatalogAssumption, enabled \subseteq Names, NEW c \in Nat
  PROVE  Served(Page(c)) \subseteq Page(c) /\ Cardinality(Served(Page(c))) <= PageSize
<1>1. Page(c) \in SUBSET Names /\ Cardinality(Page(c)) <= PageSize /\ PageSize \in Nat
  BY PageFacts DEF CatalogAssumption
<1>2. IsFiniteSet(Page(c)) /\ Served(Page(c)) \subseteq Page(c)
  BY <1>1, FS_Subset DEF CatalogAssumption, Served
<1>3. /\ Cardinality(Served(Page(c))) <= Cardinality(Page(c))
      /\ Cardinality(Served(Page(c))) \in Nat /\ Cardinality(Page(c)) \in Nat
  BY <1>2, FS_Subset, FS_CardinalityType
<1>4. QED
  BY <1>1, <1>2, <1>3

\* A page that is read is a state of the daily run.
LEMMA ReadPageTyped ==
  ASSUME CatalogAssumption, enabled \subseteq Names, NEW c \in Names \cup {0}, NEW n \in 1..PagesPerRun
  PROVE  /\ ReadPage(c, n) \in Sweeps /\ ReadPage(c, n).at = "page"
         /\ Cardinality(ReadPage(c, n).left) <= PageSize
<1>1. c \in Nat
  BY DEF CatalogAssumption
<1>2. /\ Served(Page(c)) \in SUBSET Names /\ Cardinality(Served(Page(c))) <= PageSize
      /\ NextCursor(c) \in Names \cup {0}
  BY <1>1, PageFacts, ServedOfPage
<1>3. More(c) \in BOOLEAN
  BY DEF More
<1>4. n \in 0..PagesPerRun
  BY DEF CatalogAssumption
<1>5. QED
  BY <1>2, <1>3, <1>4, Zenon DEF ReadPage, Sweeps

\* A refresh that a step leaves alone is still right.
LEMMA JobStays ==
  ASSUME NEW r \in Refreshers, JobOK(r), job'[r] = job[r],
         r \in Workers /\ job[r] # NoJob => sweep'.at = "page"
  PROVE  JobOK(r)'
BY DEF JobOK

\* What one refresh changes of its own state, and of nobody else's.
LEMMA JobSet ==
  ASSUME RefreshTyped, NEW r \in Refreshers, NEW j \in Jobs, job' = [job EXCEPT ![r] = j]
  PROVE  /\ job' \in [Refreshers -> Jobs] /\ job'[r] = j
         /\ \A q \in Refreshers : q # r => job'[q] = job[q]
BY DEF RefreshTyped

\* The least name that is left of a page.
LEMMA NextOfPage ==
  ASSUME CatalogAssumption, RefreshTyped, sweep.left # {}
  PROVE  /\ Min(sweep.left) \in sweep.left /\ Min(sweep.left) \in Names
         /\ Cardinality(sweep.left \ {Min(sweep.left)}) <= PageSize
<1>1. sweep.left \in SUBSET Names /\ Names \subseteq Nat /\ IsFiniteSet(Names) /\ PageSize \in Nat
  BY DEF RefreshTyped, Sweeps, CatalogAssumption
<1>2. sweep.left \subseteq Nat /\ IsFiniteSet(sweep.left) /\ Cardinality(sweep.left) \in Nat
  BY <1>1, FS_Subset, FS_CardinalityType
<1>3. Min(sweep.left) \in sweep.left
  BY <1>2, MinIsLeast
<1>4. Cardinality(sweep.left \ {Min(sweep.left)}) = Cardinality(sweep.left) - 1
  BY <1>2, <1>3, FS_RemoveElement
<1>5. Cardinality(sweep.left) <= PageSize
  BY DEF RefreshTyped
<1>6. QED
  BY <1>1, <1>2, <1>3, <1>4, <1>5

LEMMA StartRunTyped ==
  ASSUME CatalogAssumption, RefreshTyped, StartRun
  PROVE  RefreshTyped'
<1>1. /\ sweep.at \in {"idle", "dead"} /\ sweep' = ReadPage(cursor, 1)
      /\ enabled' = enabled /\ broken' = broken /\ live' = live /\ cursor' = cursor /\ job' = job /\ due' = due /\ group' = group
  BY DEF StartRun
<1>2. sweep' \in Sweeps /\ sweep'.at = "page" /\ Cardinality(sweep'.left) <= PageSize
  <2>1. 1 \in 1..PagesPerRun /\ cursor \in Names \cup {0} /\ enabled \subseteq Names
    BY DEF RefreshTyped, CatalogAssumption
  <2>2. QED
    BY <1>1, <2>1, ReadPageTyped
<1>3. ASSUME NEW r \in Refreshers
      PROVE  JobOK(r)'
  BY <1>1, <1>2, JobStays DEF RefreshTyped
<1>4. QED
  BY <1>1, <1>2, <1>3 DEF RefreshTyped

\* A refresh that has begun.
Begun(p) == [NoJob EXCEPT !.step = "list", !.of = p]

LEMMA BegunJob ==
  ASSUME NEW p \in Names
  PROVE  /\ Begun(p) \in Jobs
         /\ Begun(p).step = "list" /\ Begun(p).of = p /\ Begun(p).list = {}
BY DEF Begun, NoJob, Jobs

\* A worker begins the refresh of the next provider, or notes that it has lost its
\* adapter.
LEMMA TakeEffect ==
  ASSUME CatalogAssumption, RefreshTyped, NEW w \in Workers, Take(w), NEW p, p = Min(sweep.left)
  PROVE  /\ sweep.at = "page" /\ sweep.left # {} /\ job[w] = NoJob
         /\ \/ p \in broken /\ job' = job /\ sweep' = [sweep EXCEPT !.left = @ \ {p}, !.failed = TRUE]
            \/ p \notin broken /\ job' = [job EXCEPT ![w] = Begun(p)] /\ sweep' = [sweep EXCEPT !.left = @ \ {p}]
         /\ sweep' \in Sweeps /\ sweep'.left = sweep.left \ {p} /\ sweep'.at = "page"
         /\ sweep'.more = sweep.more /\ sweep'.next = sweep.next
         /\ enabled' = enabled /\ broken' = broken /\ live' = live /\ cursor' = cursor
         /\ due' = due /\ group' = group
<1>1. /\ sweep.at = "page" /\ sweep.left # {} /\ job[w] = NoJob
      /\ enabled' = enabled /\ broken' = broken /\ live' = live /\ cursor' = cursor
      /\ due' = due /\ group' = group
  BY DEF Take
<1>2. \/ p \in broken /\ job' = job /\ sweep' = [[sweep EXCEPT !.left = @ \ {p}] EXCEPT !.failed = TRUE]
      \/ p \notin broken /\ job' = [job EXCEPT ![w] = Begun(p)] /\ sweep' = [sweep EXCEPT !.left = @ \ {p}]
  BY Zenon DEF Take, Begun
<1>3. sweep \in Sweeps
  BY DEF RefreshTyped
<1>4. [[sweep EXCEPT !.left = @ \ {p}] EXCEPT !.failed = TRUE] = [sweep EXCEPT !.left = @ \ {p}, !.failed = TRUE]
  BY <1>3 DEF Sweeps
<1>5. /\ sweep' \in Sweeps /\ sweep'.left = sweep.left \ {p} /\ sweep'.at = "page"
      /\ sweep'.more = sweep.more /\ sweep'.next = sweep.next
  <2>1. CASE sweep' = [sweep EXCEPT !.left = @ \ {p}, !.failed = TRUE]
    BY <1>1, <1>3, <2>1 DEF Sweeps
  <2>2. CASE sweep' = [sweep EXCEPT !.left = @ \ {p}]
    BY <1>1, <1>3, <2>2 DEF Sweeps
  <2>3. QED
    BY <1>2, <1>4, <2>1, <2>2
<1>6. QED
  BY <1>1, <1>2, <1>4, <1>5

LEMMA TakeTyped ==
  ASSUME CatalogAssumption, RefreshTyped, NEW w \in Workers, Take(w)
  PROVE  RefreshTyped'
<1> DEFINE p == Min(sweep.left)
           j == Begun(p)
<1>1. /\ sweep.at = "page" /\ sweep.left # {} /\ job[w] = NoJob
      /\ job' = job \/ job' = [job EXCEPT ![w] = j]
      /\ sweep' \in Sweeps /\ sweep'.left = sweep.left \ {p} /\ sweep'.at = "page"
      /\ enabled' = enabled /\ broken' = broken /\ live' = live /\ cursor' = cursor
      /\ due' = due /\ group' = group
  BY TakeEffect
<1>2. p \in sweep.left /\ p \in Names /\ Cardinality(sweep.left \ {p}) <= PageSize
  BY <1>1, NextOfPage
<1> HIDE DEF p
<1>3. w \in Refreshers /\ j \in Jobs /\ j.step = "list" /\ j.of = p /\ j.list = {}
  BY <1>2, BegunJob DEF Refreshers
<1>4. CASE job' = job
  <2>1. \A r \in Refreshers : JobOK(r)'
    BY <1>1, <1>4, JobStays DEF RefreshTyped
  <2>2. QED
    BY <1>1, <1>2, <1>4, <2>1 DEF RefreshTyped
<1>5. CASE job' = [job EXCEPT ![w] = j]
  <2>1. /\ job' \in [Refreshers -> Jobs] /\ job'[w] = j
        /\ \A q \in Refreshers : q # w => job'[q] = job[q]
    BY <1>3, <1>5, JobSet
  <2>2. ASSUME NEW r \in Refreshers
        PROVE  JobOK(r)'
    <3>1. CASE r = w
      BY <1>1, <1>2, <1>3, <2>1, <3>1 DEF JobOK
    <3>2. CASE r # w
      BY <1>1, <2>1, <3>2, JobStays DEF RefreshTyped
    <3>3. QED
      BY <3>1, <3>2
  <2>3. QED
    BY <1>1, <1>2, <2>1, <2>2 DEF RefreshTyped
<1>6. QED
  BY <1>1, <1>4, <1>5

LEMMA PageEndsTyped ==
  ASSUME CatalogAssumption, RefreshTyped, PageEnds
  PROVE  RefreshTyped'
<1>1. /\ sweep.at = "page" /\ sweep.left = {} /\ \A w \in Workers : job[w] = NoJob
      /\ enabled' = enabled /\ broken' = broken /\ live' = live /\ job' = job /\ group' = group
      /\ \/ sweep' = Asleep /\ cursor' = cursor /\ due' = due
         \/ sweep' = NextPage /\ cursor' = sweep.next /\ (due' = due \/ due' = enabled \ broken)
  BY DEF PageEnds, Served
<1>2. Asleep \in Sweeps /\ Cardinality(Asleep.left) <= PageSize
  <2>1. Asleep.left = {} /\ Asleep \in Sweeps /\ PageSize \in Nat
    BY DEF Asleep, Sweeps, CatalogAssumption
  <2>2. Cardinality(Asleep.left) = 0
    BY <2>1, FS_EmptySet
  <2>3. QED
    BY <2>1, <2>2
<1>3. NextPage \in Sweeps /\ Cardinality(NextPage.left) <= PageSize
  <2>1. CASE sweep.more /\ sweep.page < PagesPerRun
    <3>1. sweep.page + 1 \in 1..PagesPerRun /\ sweep.next \in Names \cup {0} /\ enabled \subseteq Names
      BY <2>1 DEF RefreshTyped, Sweeps, CatalogAssumption
    <3>2. NextPage = ReadPage(sweep.next, sweep.page + 1)
      BY <2>1 DEF NextPage
    <3>3. QED
      BY <3>1, <3>2, ReadPageTyped
  <2>2. CASE ~(sweep.more /\ sweep.page < PagesPerRun)
    BY <1>2, <2>2 DEF NextPage
  <2>3. QED
    BY <2>1, <2>2
<1>4. cursor' \in Names \cup {0} /\ due' \subseteq enabled' \ broken'
  BY <1>1 DEF RefreshTyped, Sweeps
<1>5. sweep' \in Sweeps /\ Cardinality(sweep'.left) <= PageSize
  BY <1>1, <1>2, <1>3
<1>6. ASSUME NEW r \in Refreshers
      PROVE  JobOK(r)'
  BY <1>1, JobStays DEF RefreshTyped
<1>7. QED
  BY <1>1, <1>4, <1>5, <1>6 DEF RefreshTyped

LEMMA RunDiesTyped ==
  ASSUME CatalogAssumption, RefreshTyped, RunDies
  PROVE  RefreshTyped'
<1>1. /\ sweep' = [Asleep EXCEPT !.at = "dead"]
      /\ job' = [r \in Refreshers |-> IF r \in Workers THEN NoJob ELSE job[r]]
      /\ enabled' = enabled /\ broken' = broken /\ live' = live /\ cursor' = cursor /\ due' = due /\ group' = group
  BY DEF RunDies
<1>2. sweep' \in Sweeps /\ Cardinality(sweep'.left) <= PageSize
  <2>1. sweep' = [at |-> "dead", left |-> {}, page |-> 0, next |-> 0, more |-> FALSE, failed |-> FALSE]
    BY <1>1 DEF Asleep
  <2>2. sweep'.left = {} /\ sweep' \in Sweeps
    BY <2>1 DEF Sweeps, CatalogAssumption
  <2>3. PageSize \in Nat
    BY DEF CatalogAssumption
  <2>4. Cardinality(sweep'.left) = 0
    BY <2>2, FS_EmptySet
  <2>5. QED
    BY <2>2, <2>3, <2>4
<1>3. job' \in [Refreshers -> Jobs]
  BY <1>1 DEF RefreshTyped, NoJob, Jobs
<1>4. ASSUME NEW r \in Refreshers
      PROVE  JobOK(r)'
  <2>1. CASE r \in Workers
    BY <1>1, <2>1 DEF JobOK, NoJob
  <2>2. CASE r \notin Workers
    BY <1>1, <2>2 DEF JobOK, RefreshTyped
  <2>3. QED
    BY <2>1, <2>2
<1>5. QED
  BY <1>1, <1>2, <1>3, <1>4 DEF RefreshTyped

LEMMA ListTyped ==
  ASSUME CatalogAssumption, RefreshTyped, NEW r \in Refreshers, NEW list \in Lists, List(r, list)
  PROVE  RefreshTyped'
<1> DEFINE j == [job[r] EXCEPT !.step = "upsert", !.list = list]
<1>1. /\ job[r].step = "list" /\ job' = [job EXCEPT ![r] = j]
      /\ sweep' = sweep
      /\ enabled' = enabled /\ broken' = broken /\ live' = live /\ cursor' = cursor /\ due' = due /\ group' = group
  BY DEF List, RefreshTyped
<1>2. list \subseteq Models /\ job[r] \in Jobs
  BY DEF Models, RefreshTyped
<1>3. j \in Jobs /\ j.step = "upsert" /\ j.of = job[r].of /\ j.list = list
  BY <1>2 DEF Jobs
<1> HIDE DEF j
<1>4. /\ job' \in [Refreshers -> Jobs] /\ job'[r] = j
      /\ \A q \in Refreshers : q # r => job'[q] = job[q]
  BY <1>1, <1>3, JobSet
<1>5. ASSUME NEW q \in Refreshers
      PROVE  JobOK(q)'
  <2>1. CASE q = r
    <3>1. JobOK(r) /\ job[r] # NoJob
      BY <1>1 DEF RefreshTyped, NoJob
    <3>2. QED
      BY <1>1, <1>3, <1>4, <2>1, <3>1 DEF JobOK
  <2>2. CASE q # r
    BY <1>1, <1>4, <2>2, JobStays DEF RefreshTyped, JobOK
  <2>3. QED
    BY <2>1, <2>2
<1>6. QED
  BY <1>1, <1>4, <1>5 DEF RefreshTyped

LEMMA UpsertTyped ==
  ASSUME CatalogAssumption, RefreshTyped, NEW r \in Refreshers, Upsert(r)
  PROVE  RefreshTyped'
<1> DEFINE j == [job[r] EXCEPT !.step = "deprecate"]
           p == job[r].of
<1>1. /\ job[r].step = "upsert" /\ job' = [job EXCEPT ![r] = j]
      /\ sweep' = sweep
      /\ enabled' = enabled /\ broken' = broken /\ cursor' = cursor /\ due' = due
      /\ live' = [live EXCEPT ![p] = @ \cup job[r].list]
  BY DEF Upsert, RefreshTyped
<1>2. JobOK(r) /\ job[r] \in Jobs /\ job[r] # NoJob /\ p \in Names /\ job[r].list \in Lists
  BY <1>1 DEF RefreshTyped, JobOK, NoJob
<1>3. j \in Jobs /\ j.step = "deprecate" /\ j.of = p /\ j.list = job[r].list
  BY <1>2 DEF Jobs
<1>4. PICK g \in Groups : group' = [group EXCEPT ![p] = [g EXCEPT !.lists = @ \cup {job[r].list}]]
  <2>1. [lists |-> {}, old |-> live[p]] \in Groups /\ group[p] \in Groups
    BY <1>2 DEF RefreshTyped, Groups
  <2>2. QED
    BY <2>1 DEF Upsert
<1>5. group' \in [Names -> Groups]
  BY <1>2, <1>4 DEF RefreshTyped, Groups
<1>6. live' \in [Names -> SUBSET Models]
  BY <1>1, <1>2 DEF RefreshTyped, Models
<1> HIDE DEF j, p
<1>7. /\ job' \in [Refreshers -> Jobs] /\ job'[r] = j
      /\ \A q \in Refreshers : q # r => job'[q] = job[q]
  BY <1>1, <1>3, JobSet
<1>8. ASSUME NEW q \in Refreshers
      PROVE  JobOK(q)'
  <2>1. CASE q = r
    BY <1>1, <1>2, <1>3, <1>7, <2>1 DEF JobOK
  <2>2. CASE q # r
    BY <1>1, <1>7, <2>2, JobStays DEF RefreshTyped, JobOK
  <2>3. QED
    BY <2>1, <2>2
<1>9. QED
  BY <1>1, <1>5, <1>6, <1>7, <1>8 DEF RefreshTyped

LEMMA DeprecateTyped ==
  ASSUME CatalogAssumption, RefreshTyped, NEW r \in Refreshers, Deprecate(r)
  PROVE  RefreshTyped'
<1> DEFINE p == job[r].of
<1>1. /\ job[r].step = "deprecate" /\ job' = [job EXCEPT ![r] = NoJob]
      /\ sweep' = sweep /\ enabled' = enabled /\ broken' = broken /\ cursor' = cursor
      /\ due' = due \ {p} \/ due' = due
      /\ live' = [live EXCEPT ![p] = @ \cap job[r].list]
      /\ group' = [group EXCEPT ![p].old = @ \cap job[r].list]
  BY DEF Deprecate
<1>2. NoJob \in Jobs
  BY DEF NoJob, Jobs
<1>3. /\ job' \in [Refreshers -> Jobs] /\ job'[r] = NoJob
      /\ \A q \in Refreshers : q # r => job'[q] = job[q]
  BY <1>1, <1>2, JobSet
<1>4. live' \in [Names -> SUBSET Models] /\ group' \in [Names -> Groups]
  BY <1>1 DEF RefreshTyped, Groups
<1>5. ASSUME NEW q \in Refreshers
      PROVE  JobOK(q)'
  <2>1. CASE q = r
    BY <1>3, <2>1 DEF JobOK, NoJob
  <2>2. CASE q # r
    BY <1>1, <1>3, <2>2, JobStays DEF RefreshTyped, JobOK
  <2>3. QED
    BY <2>1, <2>2
<1>6. QED
  BY <1>1, <1>3, <1>4, <1>5 DEF RefreshTyped

LEMMA FailTyped ==
  ASSUME CatalogAssumption, RefreshTyped, NEW r \in Refreshers, Fail(r)
  PROVE  RefreshTyped'
<1>1. /\ job' = [job EXCEPT ![r] = NoJob]
      /\ sweep' = sweep \/ sweep' = [sweep EXCEPT !.failed = TRUE]
      /\ enabled' = enabled /\ broken' = broken /\ live' = live /\ cursor' = cursor /\ due' = due /\ group' = group
  BY DEF Fail
<1>2. NoJob \in Jobs
  BY DEF NoJob, Jobs
<1>3. /\ job' \in [Refreshers -> Jobs] /\ job'[r] = NoJob
      /\ \A q \in Refreshers : q # r => job'[q] = job[q]
  BY <1>1, <1>2, JobSet
<1>4. sweep' \in Sweeps /\ sweep'.at = sweep.at /\ sweep'.left = sweep.left
  BY <1>1 DEF RefreshTyped, Sweeps
<1>5. ASSUME NEW q \in Refreshers
      PROVE  JobOK(q)'
  <2>1. CASE q = r
    BY <1>3, <2>1 DEF JobOK, NoJob
  <2>2. CASE q # r
    BY <1>3, <1>4, <2>2, JobStays DEF RefreshTyped, JobOK
  <2>3. QED
    BY <2>1, <2>2
<1>6. QED
  BY <1>1, <1>3, <1>4, <1>5 DEF RefreshTyped

LEMMA AdminRefreshTyped ==
  ASSUME CatalogAssumption, RefreshTyped, NEW a \in Admins, NEW p \in Names, AdminRefresh(a, p)
  PROVE  RefreshTyped'
<1> DEFINE j == Begun(p)
<1>1. /\ job' = [job EXCEPT ![a] = j]
      /\ enabled' = enabled /\ broken' = broken /\ live' = live /\ cursor' = cursor /\ sweep' = sweep
      /\ due' = due /\ group' = group
  BY Zenon DEF AdminRefresh, Begun
<1>2. /\ a \in Refreshers /\ a \notin Workers
      /\ j \in Jobs /\ j.step = "list" /\ j.of = p /\ j.list = {}
  BY BegunJob DEF Refreshers, CatalogAssumption
<1> HIDE DEF j
<1>3. /\ job' \in [Refreshers -> Jobs] /\ job'[a] = j
      /\ \A q \in Refreshers : q # a => job'[q] = job[q]
  BY <1>1, <1>2, JobSet
<1>4. ASSUME NEW q \in Refreshers
      PROVE  JobOK(q)'
  <2>1. CASE q = a
    BY <1>2, <1>3, <2>1 DEF JobOK
  <2>2. CASE q # a
    BY <1>1, <1>3, <2>2, JobStays DEF RefreshTyped, JobOK
  <2>3. QED
    BY <2>1, <2>2
<1>5. QED
  BY <1>1, <1>3, <1>4 DEF RefreshTyped

\* The variables of the refresh keep their types in every step of it, and while an
\* admin edits providers.
LEMMA RefreshTypedStep ==
  ASSUME CatalogAssumption, RefreshTyped,
         \/ RefreshNext
         \/ \E p \in Names : EditRefresh(p)
         \/ UNCHANGED <<enabled, broken, refreshVars>>
  PROVE  RefreshTyped'
<1>1. CASE StartRun
  BY <1>1, StartRunTyped
<1>2. CASE PageEnds
  BY <1>2, PageEndsTyped
<1>3. CASE RunDies
  BY <1>3, RunDiesTyped
<1>4. CASE \E w \in Workers : Take(w)
  BY <1>4, TakeTyped
<1>5. CASE \E r \in Refreshers : RefreshJob(r) \/ Fail(r)
  BY <1>5, ListTyped, UpsertTyped, DeprecateTyped, FailTyped DEF RefreshJob
<1>6. CASE \E a \in Admins, p \in Names : AdminRefresh(a, p)
  BY <1>6, AdminRefreshTyped
<1>7. ASSUME NEW p \in Names, EditRefresh(p)
      PROVE  RefreshTyped'
  <2>1. /\ \/ enabled' = (enabled \ {p}) \cup ({p} \ enabled) /\ broken' = broken
           \/ broken' = (broken \ {p}) \cup ({p} \ broken) /\ enabled' = enabled
        /\ due' = due \ {p}
        /\ live' = live /\ cursor' = cursor /\ sweep' = sweep /\ job' = job /\ group' = group
    BY <1>7 DEF EditRefresh, Flip
  <2>2. QED
    BY <2>1 DEF RefreshTyped, JobOK
<1>8. CASE UNCHANGED <<enabled, broken, refreshVars>>
  BY <1>8 DEF RefreshTyped, JobOK, refreshVars
<1>9. QED
  BY <1>1, <1>2, <1>3, <1>4, <1>5, <1>6, <1>7, <1>8 DEF RefreshNext

-----------------------------------------------------------------------------
(* The types of the variables of the hourly probe *)

Checks ==
    [step : {"none", "page", "others", "admin", "store"}, of : Names \cup {0},
     found : {"none", "healthy", "unhealthy"}]

Records == [status : {"none", "healthy", "unhealthy"}, ttl : 0..Long]

Probes ==
    [at : {"idle", "page", "others", "dead"}, left : SUBSET Names, next : Names \cup {0},
     others : SUBSET Builtin, more : BOOLEAN]

Verdicts ==
    [found : {"none", "healthy", "unhealthy"},
     by : {"nobody", "page", "others", "admin", "unsaved", "crossed"}, age : 0..Long]

\* What is true of one check of a provider.
CheckOK(r) ==
    /\ check[r].step = "none" => check[r] = NoCheck
    /\ check[r].step # "none" => check[r].of \in Names
    /\ check[r].step = "store" => check[r].found # "none"
    /\ check[r].step \in {"none", "admin"} \/ r \notin Admins
    /\ check[r].step \in {"page", "store"} => probe.at = "page"
    /\ check[r].step = "others" => probe.at = "others"

HealthTyped ==
    /\ record \in [Names -> Records]
    /\ hcursor \in Names \cup {0}
    /\ hdue \subseteq enabled \ broken
    /\ probe \in Probes
    /\ check \in [Refreshers -> Checks]
    /\ verdict \in [Names -> Verdicts]
    /\ \A r \in Refreshers : CheckOK(r)

LEMMA HealthTypedInit ==
  ASSUME CatalogAssumption, HealthAssumption, Init
  PROVE  HealthTyped
<1>1. record \in [Names -> Records]
  BY DEF Init, Records, NoRecord, HealthAssumption
<1>2. hcursor \in Names \cup {0} /\ hdue \subseteq enabled \ broken
  BY DEF Init, Served
<1>3. probe \in Probes
  BY DEF Init, NoProbe, Probes
<1>4. check \in [Refreshers -> Checks]
  BY DEF Init, NoCheck, Checks
<1>5. verdict \in [Names -> Verdicts]
  BY DEF Init, Unjudged, Verdicts, HealthAssumption
<1>6. \A r \in Refreshers : CheckOK(r)
  BY DEF Init, CheckOK, NoCheck
<1>7. QED
  BY <1>1, <1>2, <1>3, <1>4, <1>5, <1>6 DEF HealthTyped

\* What one check changes of its own state, and of nobody else's.
LEMMA CheckSet ==
  ASSUME HealthTyped, NEW r \in Refreshers, NEW c \in Checks, check' = [check EXCEPT ![r] = c]
  PROVE  /\ check' \in [Refreshers -> Checks] /\ check'[r] = c
         /\ \A q \in Refreshers : q # r => check'[q] = check[q]
BY DEF HealthTyped

LEMMA NoCheckTyped ==
  NoCheck \in Checks /\ NoCheck.step = "none" /\ NoCheck.of = 0 /\ NoCheck.found = "none"
BY DEF NoCheck, Checks

LEMMA ProbeStartsTyped ==
  ASSUME CatalogAssumption, HealthAssumption, RefreshTyped, HealthTyped, ProbeStarts
  PROVE  HealthTyped'
<1>1. /\ probe.at \in {"idle", "dead"}
      /\ probe' = [at |-> "page", left |-> Served(Page(hcursor)), next |-> NextCursor(hcursor),
                   others |-> Builtin \ Served(Page(hcursor)), more |-> More(hcursor)]
      /\ enabled' = enabled /\ broken' = broken /\ record' = record /\ hcursor' = hcursor /\ check' = check
      /\ hdue' = hdue /\ verdict' = verdict
  BY DEF ProbeStarts
<1>2. Served(Page(hcursor)) \in SUBSET Names /\ NextCursor(hcursor) \in Names \cup {0}
  <2>1. hcursor \in Nat /\ enabled \subseteq Names
    BY DEF HealthTyped, RefreshTyped, CatalogAssumption
  <2>2. QED
    BY <2>1, PageFacts, ServedOfPage
<1>3. More(hcursor) \in BOOLEAN /\ Builtin \ Served(Page(hcursor)) \in SUBSET Builtin
  BY DEF More
<1>4. probe' \in Probes /\ probe'.at = "page"
  BY <1>1, <1>2, <1>3, Zenon DEF Probes
<1>5. \A r \in Refreshers : CheckOK(r)'
  BY <1>1, <1>4 DEF HealthTyped, CheckOK
<1>6. QED
  BY <1>1, <1>4, <1>5 DEF HealthTyped

LEMMA ProbeOthersTyped ==
  ASSUME CatalogAssumption, HealthAssumption, RefreshTyped, HealthTyped, ProbeOthers
  PROVE  HealthTyped'
<1>1. /\ \A w \in Workers : check[w] = NoCheck
      /\ probe' = [probe EXCEPT !.at = "others", !.left = probe.others]
      /\ enabled' = enabled /\ broken' = broken /\ record' = record /\ hcursor' = hcursor /\ check' = check
      /\ hdue' = hdue /\ verdict' = verdict
  BY DEF ProbeOthers, FreeWorkers
<1>2. probe' \in Probes
  <2>1. probe.others \in SUBSET Names
    BY DEF HealthTyped, Probes, HealthAssumption
  <2>2. QED
    BY <1>1, <2>1 DEF HealthTyped, Probes
<1>3. \A r \in Refreshers : CheckOK(r)'
  <2>1. ASSUME NEW r \in Refreshers
        PROVE  CheckOK(r) /\ check[r].step \in {"none", "admin"}
    BY <1>1, NoCheckTyped DEF RefreshTyped, HealthTyped, CheckOK
  <2>2. QED
    BY <1>1, <2>1 DEF CheckOK
<1>4. QED
  BY <1>1, <1>2, <1>3 DEF HealthTyped

LEMMA ProbeEndsTyped ==
  ASSUME CatalogAssumption, HealthAssumption, RefreshTyped, HealthTyped, ProbeEnds
  PROVE  HealthTyped'
<1>1. /\ \A w \in Workers : check[w] = NoCheck
      /\ probe' = NoProbe /\ hcursor' = probe.next
      /\ enabled' = enabled /\ broken' = broken /\ record' = record /\ check' = check
      /\ (hdue' = hdue \/ hdue' = enabled \ broken) /\ verdict' = verdict
  BY DEF ProbeEnds, FreeWorkers, Served
<1>2. probe' \in Probes /\ hcursor' \in Names \cup {0}
  BY <1>1 DEF HealthTyped, Probes, NoProbe
<1>3. \A r \in Refreshers : CheckOK(r)'
  <2>1. ASSUME NEW r \in Refreshers
        PROVE  CheckOK(r) /\ check[r].step \in {"none", "admin"}
    BY <1>1, NoCheckTyped DEF RefreshTyped, HealthTyped, CheckOK
  <2>2. QED
    BY <1>1, <2>1 DEF CheckOK
<1>4. QED
  BY <1>1, <1>2, <1>3 DEF HealthTyped

LEMMA ProbeDiesTyped ==
  ASSUME CatalogAssumption, HealthAssumption, RefreshTyped, HealthTyped, ProbeDies
  PROVE  HealthTyped'
<1>1. /\ probe' = [NoProbe EXCEPT !.at = "dead"]
      /\ check' = [r \in Refreshers |-> IF r \in Workers THEN NoCheck ELSE check[r]]
      /\ verdict' = [p \in Names |-> IF \E w \in Workers : check[w].of = p /\ check[w].found # "none"
                                     THEN [verdict[p] EXCEPT !.by = "unsaved"] ELSE verdict[p]]
      /\ enabled' = enabled /\ broken' = broken /\ record' = record /\ hcursor' = hcursor /\ hdue' = hdue
  BY DEF ProbeDies
<1>2. probe' \in Probes
  BY <1>1 DEF NoProbe, Probes
<1>3. check' \in [Refreshers -> Checks]
  BY <1>1, NoCheckTyped DEF HealthTyped
<1>4. verdict' \in [Names -> Verdicts]
  <2>1. ASSUME NEW p \in Names
        PROVE  verdict'[p] \in Verdicts
    <3>1. verdict[p] \in Verdicts /\ [verdict[p] EXCEPT !.by = "unsaved"] \in Verdicts
      BY DEF HealthTyped, Verdicts
    <3>2. QED
      BY <1>1, <3>1
  <2>2. QED
    BY <1>1, <2>1
<1>5. ASSUME NEW r \in Refreshers
      PROVE  CheckOK(r)'
  <2>1. CASE r \in Workers
    <3>1. check'[r] = NoCheck
      BY <1>1, <2>1
    <3>2. QED
      BY <3>1, NoCheckTyped DEF CheckOK
  <2>2. CASE r \notin Workers
    <3>1. check'[r] = check[r] /\ r \in Admins /\ CheckOK(r)
      BY <1>1, <2>2 DEF HealthTyped, RefreshTyped
    <3>2. QED
      BY <3>1 DEF CheckOK
  <2>3. QED
    BY <2>1, <2>2
<1>6. QED
  BY <1>1, <1>2, <1>3, <1>4, <1>5 DEF HealthTyped

LEMMA ProbeTakeTyped ==
  ASSUME CatalogAssumption, HealthAssumption, RefreshTyped, HealthTyped, NEW w \in Workers, ProbeTake(w)
  PROVE  HealthTyped'
<1> DEFINE p == Min(probe.left)
           c == [step |-> probe.at, of |-> p, found |-> "none"]
<1>1. /\ probe.at \in {"page", "others"} /\ probe.left # {} /\ check[w] = NoCheck
      /\ check' = [check EXCEPT ![w] = c]
      /\ probe' = [probe EXCEPT !.left = @ \ {p}]
      /\ enabled' = enabled /\ broken' = broken /\ record' = record /\ hcursor' = hcursor
      /\ hdue' = hdue /\ verdict' = verdict
  BY DEF ProbeTake
<1>2. p \in Names
  <2>1. probe.left \subseteq Names /\ probe.left \subseteq Nat
    BY DEF HealthTyped, Probes, CatalogAssumption
  <2>2. QED
    BY <1>1, <2>1, MinIsLeast
<1> HIDE DEF p
<1>3. c \in Checks /\ c.step = probe.at /\ c.of = p /\ c.found = "none"
  BY <1>1, <1>2 DEF Checks
<1> HIDE DEF c
<1>4. w \in Refreshers /\ w \notin Admins
  BY DEF Refreshers, CatalogAssumption
<1>5. /\ check' \in [Refreshers -> Checks] /\ check'[w] = c
      /\ \A q \in Refreshers : q # w => check'[q] = check[q]
  BY <1>1, <1>3, <1>4, CheckSet
<1>6. probe' \in Probes /\ probe'.at = probe.at
  BY <1>1 DEF HealthTyped, Probes
<1>7. CheckOK(w)'
  BY <1>1, <1>2, <1>3, <1>4, <1>5, <1>6 DEF CheckOK
<1>8. \A q \in Refreshers : CheckOK(q)'
  BY <1>4, <1>5, <1>6, <1>7 DEF HealthTyped, CheckOK
<1>9. QED
  BY <1>1, <1>5, <1>6, <1>8 DEF HealthTyped

\* The other checks are still right after a step of one.
LEMMA OtherChecksStay ==
  ASSUME HealthTyped, probe' = probe, NEW r \in Refreshers, CheckOK(r)',
         \A q \in Refreshers : q # r => check'[q] = check[q]
  PROVE  \A q \in Refreshers : CheckOK(q)'
BY DEF HealthTyped, CheckOK

\* A check that is done, or given up.
LEMMA CheckDone ==
  ASSUME HealthTyped, probe' = probe, NEW r \in Refreshers, check' = [check EXCEPT ![r] = NoCheck]
  PROVE  /\ check' \in [Refreshers -> Checks] /\ check'[r] = NoCheck
         /\ \A q \in Refreshers : q # r => check'[q] = check[q]
         /\ \A q \in Refreshers : CheckOK(q)'
<1>1. /\ check' \in [Refreshers -> Checks] /\ check'[r] = NoCheck
      /\ \A q \in Refreshers : q # r => check'[q] = check[q]
  BY NoCheckTyped, CheckSet
<1>2. CheckOK(r)'
  BY <1>1, NoCheckTyped DEF CheckOK
<1>3. QED
  BY <1>1, <1>2, OtherChecksStay

\* A record is stored for one provider.
LEMMA StoreTyped ==
  ASSUME HealthTyped, NEW p \in Names, NEW s \in {"none", "healthy", "unhealthy"}, NEW n \in 0..Long,
         Store(p, s, n)
  PROVE  /\ record' \in [Names -> Records]
         /\ record'[p].status = s /\ record'[p].ttl = n
         /\ \A q \in Names : q # p => record'[q] = record[q]
<1> DEFINE new == [status |-> s, ttl |-> n]
<1>1. new \in Records /\ new.status = s /\ new.ttl = n
  BY DEF Records
<1>2. record' = [record EXCEPT ![p] = new]
  BY DEF Store
<1> HIDE DEF new
<1>3. QED
  BY <1>1, <1>2 DEF HealthTyped

LEMMA FindTyped ==
  ASSUME CatalogAssumption, HealthAssumption, RefreshTyped, HealthTyped,
         NEW r \in Refreshers, NEW found \in {"healthy", "unhealthy"}, Find(r, found)
  PROVE  HealthTyped'
<1> DEFINE c == [check[r] EXCEPT !.found = found]
           p == check[r].of
           crosses == \E q \in Refreshers : check[q].of = p /\ check[q].found # "none"
           v == [found |-> found, age |-> 0, by |-> IF crosses THEN "crossed" ELSE check[r].step]
<1>1. /\ check[r].step \in {"page", "others", "admin"}
      /\ check' = [check EXCEPT ![r] = c]
      /\ verdict' = [verdict EXCEPT ![p] = v]
      /\ hdue' = hdue \/ hdue' = hdue \ {p}
      /\ enabled' = enabled /\ broken' = broken /\ record' = record /\ hcursor' = hcursor /\ probe' = probe
  BY DEF Find, HealthTyped
<1>2. CheckOK(r) /\ check[r] \in Checks
  BY DEF HealthTyped
<1>3. c \in Checks /\ c.step = check[r].step /\ c.of = check[r].of /\ c.found = found
  BY <1>2 DEF Checks
<1>4. v \in Verdicts
  BY <1>1 DEF Verdicts, HealthAssumption
<1> HIDE DEF c, v
<1>5. /\ check' \in [Refreshers -> Checks] /\ check'[r] = c
      /\ \A q \in Refreshers : q # r => check'[q] = check[q]
  BY <1>1, <1>3, CheckSet
<1>6. CheckOK(r)'
  BY <1>1, <1>2, <1>3, <1>5 DEF CheckOK
<1>7. \A q \in Refreshers : CheckOK(q)'
  BY <1>1, <1>5, <1>6, OtherChecksStay
<1>8. verdict' \in [Names -> Verdicts]
  BY <1>1, <1>4 DEF HealthTyped
<1>9. QED
  BY <1>1, <1>5, <1>7, <1>8 DEF HealthTyped

LEMMA UpdateHealthTyped ==
  ASSUME CatalogAssumption, HealthAssumption, RefreshTyped, HealthTyped, NEW r \in Refreshers, UpdateHealth(r)
  PROVE  HealthTyped'
<1>1. /\ check[r].found # "none" /\ check[r].step \in {"page", "admin"}
      /\ Store(check[r].of, check[r].found, Short)
      /\ check' = [check EXCEPT ![r] = IF check[r].step = "admin" THEN NoCheck
                                       ELSE [check[r] EXCEPT !.step = "store"]]
      /\ enabled' = enabled /\ broken' = broken /\ hcursor' = hcursor /\ probe' = probe /\ hdue' = hdue /\ verdict' = verdict
  BY DEF UpdateHealth, HealthTyped
<1>2. CheckOK(r) /\ check[r] \in Checks /\ check[r].of \in Names /\ Short \in 0..Long
  BY <1>1 DEF HealthTyped, CheckOK, HealthAssumption
<1>3. record' \in [Names -> Records]
  BY <1>1, <1>2, StoreTyped DEF Checks
<1>4. check' \in [Refreshers -> Checks] /\ \A q \in Refreshers : CheckOK(q)'
  <2>1. CASE check[r].step = "admin"
    BY <1>1, <2>1, CheckDone
  <2>2. CASE check[r].step = "page"
    <3> DEFINE c == [check[r] EXCEPT !.step = "store"]
    <3>1. c \in Checks /\ c.step = "store" /\ c.of = check[r].of /\ c.found = check[r].found
      BY <1>2 DEF Checks
    <3>2. check' = [check EXCEPT ![r] = c]
      BY <1>1, <2>2
    <3> HIDE DEF c
    <3>3. /\ check' \in [Refreshers -> Checks] /\ check'[r] = c
          /\ \A q \in Refreshers : q # r => check'[q] = check[q]
      BY <3>1, <3>2, CheckSet
    <3>4. CheckOK(r)'
      BY <1>1, <1>2, <2>2, <3>1, <3>3 DEF CheckOK
    <3>5. QED
      BY <1>1, <3>3, <3>4, OtherChecksStay
  <2>3. QED
    BY <1>1, <2>1, <2>2
<1>5. QED
  BY <1>1, <1>3, <1>4 DEF HealthTyped

LEMMA PublishTyped ==
  ASSUME CatalogAssumption, HealthAssumption, RefreshTyped, HealthTyped, NEW r \in Refreshers, Publish(r)
  PROVE  HealthTyped'
<1>1. /\ check[r].found # "none" /\ check[r].step \in {"store", "others"}
      /\ Store(check[r].of, check[r].found, Long)
      /\ check' = [check EXCEPT ![r] = NoCheck]
      /\ enabled' = enabled /\ broken' = broken /\ hcursor' = hcursor /\ probe' = probe /\ hdue' = hdue /\ verdict' = verdict
  BY DEF Publish
<1>2. CheckOK(r) /\ check[r] \in Checks /\ check[r].of \in Names /\ Long \in 0..Long
  BY <1>1 DEF HealthTyped, CheckOK, HealthAssumption
<1>3. record' \in [Names -> Records]
  BY <1>1, <1>2, StoreTyped DEF Checks
<1>4. check' \in [Refreshers -> Checks] /\ \A q \in Refreshers : CheckOK(q)'
  BY <1>1, CheckDone
<1>5. QED
  BY <1>1, <1>3, <1>4 DEF HealthTyped

LEMMA UpdateFailsTyped ==
  ASSUME CatalogAssumption, HealthAssumption, RefreshTyped, HealthTyped, NEW r \in Refreshers, UpdateFails(r)
  PROVE  HealthTyped'
<1>1. /\ check[r].found # "none" /\ check[r].step \in {"page", "store", "admin"}
      /\ record' = record \/ Store(check[r].of, "unhealthy", Long)
      /\ check' = [check EXCEPT ![r] = NoCheck]
      /\ verdict' = [verdict EXCEPT ![check[r].of].by = "unsaved"]
      /\ enabled' = enabled /\ broken' = broken /\ hcursor' = hcursor /\ probe' = probe /\ hdue' = hdue
  BY DEF UpdateFails
<1>2. CheckOK(r) /\ check[r].of \in Names /\ Long \in 0..Long
  BY <1>1 DEF HealthTyped, CheckOK, HealthAssumption
<1>3. record' \in [Names -> Records]
  BY <1>1, <1>2, StoreTyped DEF HealthTyped
<1>4. check' \in [Refreshers -> Checks] /\ \A q \in Refreshers : CheckOK(q)'
  BY <1>1, CheckDone
<1>5. verdict' \in [Names -> Verdicts]
  BY <1>1, <1>2 DEF HealthTyped, Verdicts
<1>6. QED
  BY <1>1, <1>3, <1>4, <1>5 DEF HealthTyped

LEMMA AdminCheckTyped ==
  ASSUME CatalogAssumption, HealthAssumption, RefreshTyped, HealthTyped,
         NEW a \in Admins, NEW p \in Names, AdminCheck(a, p)
  PROVE  HealthTyped'
<1> DEFINE c == [step |-> "admin", of |-> p, found |-> "none"]
<1>1. /\ check' = [check EXCEPT ![a] = c]
      /\ enabled' = enabled /\ broken' = broken /\ record' = record /\ hcursor' = hcursor /\ probe' = probe
      /\ hdue' = hdue /\ verdict' = verdict
  BY DEF AdminCheck
<1>2. a \in Refreshers /\ c \in Checks /\ c.step = "admin" /\ c.of = p
  BY DEF Refreshers, Checks
<1> HIDE DEF c
<1>3. /\ check' \in [Refreshers -> Checks] /\ check'[a] = c
      /\ \A q \in Refreshers : q # a => check'[q] = check[q]
  BY <1>1, <1>2, CheckSet
<1>4. CheckOK(a)'
  BY <1>2, <1>3 DEF CheckOK
<1>5. \A q \in Refreshers : CheckOK(q)'
  BY <1>1, <1>2, <1>3, <1>4, OtherChecksStay
<1>6. QED
  BY <1>1, <1>3, <1>5 DEF HealthTyped

\* A tick ages every record and every verdict.
LEMMA TickEffect ==
  ASSUME HealthAssumption, HealthTyped, Tick, NEW p \in Names
  PROVE  /\ IF record[p].ttl <= 1
            THEN record'[p] = NoRecord
            ELSE record'[p].status = record[p].status /\ record'[p].ttl = record[p].ttl - 1
         /\ verdict'[p].found = verdict[p].found /\ verdict'[p].by = verdict[p].by
         /\ verdict'[p].age = IF verdict[p].age + 1 <= Long THEN verdict[p].age + 1 ELSE Long
         /\ record'[p] \in Records /\ verdict'[p] \in Verdicts
<1>1. /\ record[p] \in Records /\ verdict[p] \in Verdicts /\ Long \in Nat
      /\ verdict[p].age + 1 \in Nat
  BY DEF HealthTyped, HealthAssumption, Verdicts
<1>2. Min({verdict[p].age + 1, Long}) = IF verdict[p].age + 1 <= Long THEN verdict[p].age + 1 ELSE Long
  BY <1>1, MinOfTwo
<1>3. PICK n : n = Min({verdict[p].age + 1, Long})
  OBVIOUS
<1>4. n \in 0..Long /\ n = IF verdict[p].age + 1 <= Long THEN verdict[p].age + 1 ELSE Long
  BY <1>1, <1>2, <1>3
<1>5. verdict'[p] = [verdict[p] EXCEPT !.age = n]
  BY <1>3 DEF Tick
<1>6. record'[p] = IF record[p].ttl <= 1 THEN NoRecord ELSE [record[p] EXCEPT !.ttl = record[p].ttl - 1]
  BY DEF Tick
<1>7. /\ verdict'[p].found = verdict[p].found /\ verdict'[p].by = verdict[p].by /\ verdict'[p].age = n
      /\ verdict'[p] \in Verdicts
  BY <1>1, <1>4, <1>5 DEF Verdicts
<1>8. CASE record[p].ttl <= 1
  BY <1>1, <1>4, <1>6, <1>7, <1>8 DEF NoRecord, Records
<1>9. CASE ~(record[p].ttl <= 1)
  <2>1. record[p].ttl - 1 \in 0..Long
    BY <1>1, <1>9 DEF Records
  <2>2. /\ record'[p].status = record[p].status /\ record'[p].ttl = record[p].ttl - 1
        /\ record'[p] \in Records
    BY <1>1, <1>6, <1>9, <2>1 DEF Records
  <2>3. QED
    BY <1>4, <1>7, <1>9, <2>2
<1>10. QED
  BY <1>8, <1>9

LEMMA TickTyped ==
  ASSUME CatalogAssumption, HealthAssumption, RefreshTyped, HealthTyped, Tick
  PROVE  HealthTyped'
<1>1. /\ enabled' = enabled /\ broken' = broken /\ hcursor' = hcursor /\ probe' = probe /\ check' = check /\ hdue' = hdue
      /\ DOMAIN record' = Names /\ DOMAIN verdict' = Names
      /\ record' = [p \in Names |-> record'[p]] /\ verdict' = [p \in Names |-> verdict'[p]]
  BY DEF Tick
<1>2. \A p \in Names : record'[p] \in Records /\ verdict'[p] \in Verdicts
  BY TickEffect
<1>3. record' \in [Names -> Records] /\ verdict' \in [Names -> Verdicts]
  BY <1>1, <1>2
<1>4. QED
  BY <1>1, <1>3 DEF HealthTyped, CheckOK

\* The variables of the probe keep their types in every step of the registry.
LEMMA HealthTypedStep ==
  ASSUME CatalogAssumption, HealthAssumption, RefreshTyped, HealthTyped, Next \/ UNCHANGED vars
  PROVE  HealthTyped'
<1>1. CASE ProbeStarts
  BY <1>1, ProbeStartsTyped
<1>2. CASE ProbeOthers
  BY <1>2, ProbeOthersTyped
<1>3. CASE ProbeEnds
  BY <1>3, ProbeEndsTyped
<1>4. CASE ProbeDies
  BY <1>4, ProbeDiesTyped
<1>5. CASE \E w \in Workers : ProbeTake(w)
  BY <1>5, ProbeTakeTyped
<1>6. CASE \E r \in Refreshers : CheckJob(r) \/ UpdateFails(r)
  BY <1>6, FindTyped, UpdateHealthTyped, PublishTyped, UpdateFailsTyped DEF CheckJob
<1>7. CASE \E a \in Admins, p \in Names : AdminCheck(a, p)
  BY <1>7, AdminCheckTyped
<1>8. CASE Tick
  BY <1>8, TickTyped
<1>9. CASE (RefreshNext \/ UNCHANGED <<enabled, broken, refreshVars>>) /\ UNCHANGED healthVars
  <2>1. enabled' = enabled /\ broken' = broken
    BY <1>9 DEF RefreshNext, StartRun, PageEnds, RunDies, Take, RefreshJob, List, Upsert, Deprecate, Fail,
                AdminRefresh
  <2>2. QED
    BY <1>9, <2>1 DEF HealthTyped, CheckOK, healthVars
<1>10. ASSUME NEW p \in Names, Edit(p)
       PROVE  HealthTyped'
  <2>1. /\ \/ enabled' = (enabled \ {p}) \cup ({p} \ enabled) /\ broken' = broken
           \/ broken' = (broken \ {p}) \cup ({p} \ broken) /\ enabled' = enabled
        /\ hdue' = hdue \ {p}
        /\ record' = record /\ hcursor' = hcursor /\ probe' = probe /\ check' = check /\ verdict' = verdict
    BY <1>10 DEF Edit, EditRefresh, Flip
  <2>2. QED
    BY <2>1 DEF HealthTyped, CheckOK
<1>11. QED
  BY <1>1, <1>2, <1>3, <1>4, <1>5, <1>6, <1>7, <1>8, <1>9, <1>10 DEF Next, HealthNext, vars

\* What a step of the registry is for the refresh.
LEMMA StepOfRefresh ==
  ASSUME Next \/ UNCHANGED vars
  PROVE  \/ RefreshNext
         \/ \E p \in Names : EditRefresh(p)
         \/ UNCHANGED <<enabled, broken, refreshVars>>
<1>1. CASE HealthNext
  BY <1>1 DEF HealthNext, ProbeStarts, ProbeOthers, ProbeEnds, ProbeDies, ProbeTake, CheckJob, Find,
              UpdateHealth, Publish, UpdateFails, AdminCheck, Tick
<1>2. QED
  BY <1>1 DEF Next, Edit, vars

-----------------------------------------------------------------------------
(* The rows of a provider, whatever refreshes of it cross *)

\* A refresh that has inserted its rows is among those the rows are accounted by.
RowsInv ==
    /\ RowsAccounted
    /\ \A r \in Refreshers : job[r].step = "deprecate" => job[r].list \in group[job[r].of].lists

LEMMA RowsInit ==
  ASSUME RefreshInit
  PROVE  RowsInv
BY DEF RefreshInit, RowsInv, RowsAccounted, NoJob

LEMMA RowsUpsert ==
  ASSUME RefreshTyped, RowsInv, NEW r \in Refreshers, Upsert(r)
  PROVE  RowsInv'
<1> DEFINE p == job[r].of
           list == job[r].list
           g == IF Crossing(r) = {} THEN [lists |-> {}, old |-> live[p]] ELSE group[p]
           h == [g EXCEPT !.lists = @ \cup {list}]
<1>1. /\ job[r].step = "upsert" /\ job' = [job EXCEPT ![r].step = "deprecate"]
      /\ live' = [live EXCEPT ![p] = @ \cup list]
      /\ group' = [group EXCEPT ![p] = h]
  BY DEF Upsert
<1>2. p \in Names /\ live[p] \subseteq Models /\ group[p] \in Groups /\ job[r] \in Jobs
  BY <1>1 DEF RefreshTyped, JobOK
<1>3. /\ Crossing(r) = {} => h.lists = {list} /\ h.old = live[p]
      /\ Crossing(r) # {} => h.lists = group[p].lists \cup {list} /\ h.old = group[p].old
  BY <1>2 DEF Groups
<1> HIDE DEF h, g
<1>4. /\ live'[p] = live[p] \cup list /\ group'[p] = h
      /\ \A q \in Names : q # p => live'[q] = live[q] /\ group'[q] = group[q]
  BY <1>1, <1>2 DEF RefreshTyped
<1>5. /\ job'[r].step = "deprecate" /\ job'[r].of = p /\ job'[r].list = list
      /\ \A q \in Refreshers : q # r => job'[q] = job[q]
  BY <1>1, <1>2 DEF RefreshTyped, Jobs
<1>6. \A m \in Models : h.lists # {} /\ (\A l \in h.lists : m \in l) => m \in live'[p]
  <2>1. list \in h.lists
    BY <1>3
  <2>2. QED
    BY <1>4, <2>1
<1>7. live'[p] \subseteq (UNION h.lists) \cup h.old
  <2>1. CASE Crossing(r) = {}
    BY <1>3, <1>4, <2>1
  <2>2. CASE Crossing(r) # {}
    <3>1. live[p] \subseteq (UNION group[p].lists) \cup group[p].old
      BY <1>2 DEF RowsInv, RowsAccounted
    <3>2. QED
      BY <1>3, <1>4, <2>2, <3>1
  <2>3. QED
    BY <2>1, <2>2
<1>8. RowsAccounted'
  BY <1>4, <1>6, <1>7 DEF RowsInv, RowsAccounted
<1>9. ASSUME NEW q \in Refreshers, job'[q].step = "deprecate"
      PROVE  job'[q].list \in group'[job'[q].of].lists
  <2>1. CASE q = r
    BY <1>3, <1>4, <1>5, <2>1
  <2>2. CASE q # r /\ job[q].of = p
    <3>1. q \in Crossing(r) /\ job[q].list \in group[p].lists
      BY <1>5, <1>9, <2>2 DEF Crossing, RowsInv
    <3>2. QED
      BY <1>3, <1>4, <1>5, <2>2, <3>1
  <2>3. CASE q # r /\ job[q].of # p
    <3>1. job[q].of \in Names /\ job[q].list \in group[job[q].of].lists
      BY <1>5, <1>9, <2>3 DEF RefreshTyped, JobOK, RowsInv
    <3>2. QED
      BY <1>4, <1>5, <2>3, <3>1
  <2>4. QED
    BY <2>1, <2>2, <2>3
<1>10. QED
  BY <1>8, <1>9 DEF RowsInv

LEMMA RowsDeprecate ==
  ASSUME RefreshTyped, RowsInv, NEW r \in Refreshers, Deprecate(r)
  PROVE  RowsInv'
<1> DEFINE p == job[r].of
           list == job[r].list
<1>1. /\ job[r].step = "deprecate" /\ job' = [job EXCEPT ![r] = NoJob]
      /\ live' = [live EXCEPT ![p] = @ \cap list]
      /\ group' = [group EXCEPT ![p].old = @ \cap list]
  BY DEF Deprecate
<1>2. p \in Names /\ group[p] \in Groups /\ list \in group[p].lists
  BY <1>1 DEF RefreshTyped, JobOK, RowsInv
<1>3. /\ live'[p] = live[p] \cap list
      /\ group'[p].lists = group[p].lists /\ group'[p].old = group[p].old \cap list
      /\ \A q \in Names : q # p => live'[q] = live[q] /\ group'[q] = group[q]
  BY <1>1, <1>2 DEF RefreshTyped, Groups
<1>4. /\ job'[r].step = "none"
      /\ \A q \in Refreshers : q # r => job'[q] = job[q]
  BY <1>1 DEF RefreshTyped, NoJob
<1>5. RowsAccounted'
  <2>1. /\ \A m \in Models : (\A l \in group[p].lists : m \in l) => m \in live'[p]
        /\ live'[p] \subseteq UNION group[p].lists
    BY <1>2, <1>3 DEF RowsInv, RowsAccounted
  <2>2. QED
    BY <1>3, <2>1 DEF RowsInv, RowsAccounted
<1>6. ASSUME NEW q \in Refreshers, job'[q].step = "deprecate"
      PROVE  job'[q].list \in group'[job'[q].of].lists
  <2>1. q # r /\ job'[q] = job[q] /\ job[q].of \in Names /\ job[q].list \in group[job[q].of].lists
    BY <1>4, <1>6 DEF RefreshTyped, JobOK, RowsInv
  <2>2. QED
    BY <1>3, <2>1
<1>7. QED
  BY <1>5, <1>6 DEF RowsInv

LEMMA RowsStep ==
  ASSUME CatalogAssumption, RefreshTyped, RowsInv,
         \/ RefreshNext
         \/ \E p \in Names : EditRefresh(p)
         \/ UNCHANGED <<enabled, broken, refreshVars>>
  PROVE  RowsInv'
<1>1. ASSUME live' = live, group' = group,
             \A r \in Refreshers : job'[r].step = "deprecate" => job'[r] = job[r]
      PROVE  RowsInv'
  BY <1>1 DEF RowsInv, RowsAccounted
<1>2. CASE StartRun
  BY <1>1, <1>2 DEF StartRun
<1>3. CASE PageEnds
  BY <1>1, <1>3 DEF PageEnds
<1>4. CASE RunDies
  BY <1>1, <1>4 DEF RunDies, NoJob
<1>5. ASSUME NEW w \in Workers, Take(w)
      PROVE  RowsInv'
  BY <1>1, <1>5 DEF Take, RefreshTyped, NoJob
<1>6. ASSUME NEW r \in Refreshers, NEW list \in Lists, List(r, list)
      PROVE  RowsInv'
  BY <1>1, <1>6 DEF List, RefreshTyped, Jobs
<1>7. ASSUME NEW r \in Refreshers, Fail(r)
      PROVE  RowsInv'
  BY <1>1, <1>7 DEF Fail, RefreshTyped, NoJob
<1>8. ASSUME NEW a \in Admins, NEW p \in Names, AdminRefresh(a, p)
      PROVE  RowsInv'
  BY <1>1, <1>8 DEF AdminRefresh, RefreshTyped, NoJob
<1>9. CASE \E p \in Names : EditRefresh(p)
  BY <1>1, <1>9 DEF EditRefresh
<1>10. CASE UNCHANGED <<enabled, broken, refreshVars>>
  BY <1>1, <1>10 DEF refreshVars
<1>11. QED
  BY <1>2, <1>3, <1>4, <1>5, <1>6, <1>7, <1>8, <1>9, <1>10, RowsUpsert, RowsDeprecate
     DEF RefreshNext, RefreshJob

-----------------------------------------------------------------------------
(* The sweep loses no provider *)

\* A worker has the refresh of provider p.
InWork(p) == \E w \in Workers : job[w].step # "none" /\ job[w].of = p

\* What is still due lies behind the cursor; while a page is done, and none of it has
\* failed, it is left, in work, or behind the page.
SweepInv ==
    /\ \A p \in due : p > cursor
    /\ sweep.at = "page" /\ ~sweep.failed =>
         \A p \in due : p \in sweep.left \/ InWork(p) \/ (sweep.more /\ p > sweep.next)
    /\ sweep.at = "page" /\ ~sweep.more => sweep.next = 0

LEMMA SweepInit ==
  ASSUME CatalogAssumption, RefreshInit
  PROVE  SweepInv
BY DEF RefreshInit, SweepInv, Asleep, CatalogAssumption, Served

\* A page that is read holds what is due, or the pages after it do: what is skipped for
\* want of an adapter is not due.
LEMMA ReadPageKeeps ==
  ASSUME CatalogAssumption, enabled \subseteq Names, NEW c \in Names \cup {0}, NEW n \in Nat,
         NEW p \in enabled \ broken, p > c
  PROVE  p \in ReadPage(c, n).left \/ (ReadPage(c, n).more /\ p > ReadPage(c, n).next)
<1>1. c \in Nat /\ p \in After(c)
  BY DEF CatalogAssumption, After
<1>2. p \in Page(c) \/ (More(c) /\ p > NextCursor(c))
  BY <1>1, PageFacts
<1>3. /\ ReadPage(c, n).left = Served(Page(c)) /\ ReadPage(c, n).more = More(c)
      /\ ReadPage(c, n).next = NextCursor(c)
  BY Zenon DEF ReadPage
<1>4. p \in Page(c) => p \in Served(Page(c))
  BY DEF Served
<1>5. QED
  BY <1>2, <1>3, <1>4

LEMMA ReadPageEnd ==
  ASSUME CatalogAssumption, enabled \subseteq Names, NEW c \in Names \cup {0}, NEW n \in Nat
  PROVE  ~ReadPage(c, n).more => ReadPage(c, n).next = 0
<1>1. c \in Nat
  BY DEF CatalogAssumption
<1>2. ~More(c) => NextCursor(c) = 0
  BY DEF NextCursor
<1>3. ReadPage(c, n).more = More(c) /\ ReadPage(c, n).next = NextCursor(c)
  BY Zenon DEF ReadPage
<1>4. QED
  BY <1>2, <1>3

LEMMA SweepStartRun ==
  ASSUME CatalogAssumption, RefreshTyped, SweepInv, StartRun
  PROVE  SweepInv' /\ ~StartsOver
<1>1. /\ sweep' = ReadPage(cursor, 1) /\ cursor' = cursor /\ due' = due
      /\ sweep.at # "page"
  BY DEF StartRun
<1>2. enabled \subseteq Names /\ due \subseteq enabled \ broken /\ cursor \in Names \cup {0} /\ 1 \in Nat
  BY DEF RefreshTyped
<1>3. \A p \in due : p > cursor
  BY DEF SweepInv
<1>4. \A p \in due : p \in sweep'.left \/ (sweep'.more /\ p > sweep'.next)
  BY <1>1, <1>2, <1>3, ReadPageKeeps
<1>5. ~sweep'.more => sweep'.next = 0
  BY <1>1, <1>2, ReadPageEnd
<1>6. QED
  BY <1>1, <1>3, <1>4, <1>5 DEF SweepInv, StartsOver

\* When a page is done nothing of it is due, and at the last page nothing at all.
LEMMA SweepPageEnds ==
  ASSUME CatalogAssumption, RefreshTyped, SweepInv, PageEnds
  PROVE  SweepInv' /\ (StartsOver => due = {})
<1>1. /\ sweep.at = "page" /\ sweep.left = {} /\ \A w \in Workers : job[w] = NoJob
      /\ \/ sweep' = Asleep /\ cursor' = cursor /\ due' = due
         \/ /\ ~sweep.failed
            /\ sweep' = NextPage /\ cursor' = sweep.next
            /\ due' = IF sweep.more THEN due ELSE enabled \ broken
  BY DEF PageEnds, Served
<1>2. Asleep.at # "page"
  BY DEF Asleep
<1>3. /\ enabled \subseteq Names /\ due \subseteq enabled \ broken /\ Names \subseteq Nat \ {0}
      /\ sweep.next \in Names \cup {0}
  BY DEF RefreshTyped, CatalogAssumption, Sweeps
<1>4. StartsOver => due = {}
  <2>1. \A w \in Workers : job[w].step = "none"
    BY <1>1 DEF NoJob
  <2>2. QED
    BY <1>1, <2>1 DEF SweepInv, InWork, StartsOver
<1>5. CASE sweep' = Asleep /\ cursor' = cursor /\ due' = due
  <2>1. SweepInv'
    BY <1>2, <1>5 DEF SweepInv
  <2>2. QED
    BY <2>1, <1>4
<1>6. CASE /\ ~sweep.failed
           /\ sweep' = NextPage /\ cursor' = sweep.next
           /\ due' = IF sweep.more THEN due ELSE enabled \ broken
  <2>1. \A w \in Workers : job[w].step = "none"
    BY <1>1 DEF NoJob
  <2>2. \A p \in due : sweep.more /\ p > sweep.next
    BY <1>1, <1>6, <2>1 DEF SweepInv, InWork
  <2>3. \A p \in due' : p > cursor' /\ p \in enabled \ broken
    <3>1. CASE sweep.more
      BY <1>3, <1>6, <2>2, <3>1
    <3>2. CASE ~sweep.more
      <4>1. cursor' = 0 /\ due' = enabled \ broken
        BY <1>1, <1>6, <3>2 DEF SweepInv
      <4>2. QED
        BY <1>3, <4>1
    <3>3. QED
      BY <3>1, <3>2
  <2>4. CASE sweep.more /\ sweep.page < PagesPerRun
    <3>1. sweep' = ReadPage(cursor', sweep.page + 1) /\ sweep.page + 1 \in Nat /\ cursor' \in Names \cup {0}
      BY <1>3, <1>6, <2>4 DEF NextPage, RefreshTyped, Sweeps
    <3>2. PICK c \in Names \cup {0} : c = cursor'
      BY <3>1
    <3>3. \A p \in due' : p \in sweep'.left \/ (sweep'.more /\ p > sweep'.next)
      BY <1>3, <2>3, <3>1, <3>2, ReadPageKeeps
    <3>4. ~sweep'.more => sweep'.next = 0
      BY <1>3, <3>1, <3>2, ReadPageEnd
    <3>5. QED
      BY <1>4, <1>6, <2>3, <3>3, <3>4 DEF SweepInv
  <2>5. CASE ~(sweep.more /\ sweep.page < PagesPerRun)
    <3>1. sweep'.at # "page"
      BY <1>2, <1>6, <2>5 DEF NextPage
    <3>2. QED
      BY <1>4, <1>6, <2>3, <3>1 DEF SweepInv
  <2>6. QED
    BY <2>4, <2>5
<1>7. QED
  BY <1>1, <1>4, <1>5, <1>6

\* A step that only takes names out of `due`, and leaves the run with those that are.
LEMMA SweepKeeps ==
  ASSUME SweepInv, due' \subseteq due, cursor' = cursor,
         sweep'.at = "page" => /\ sweep.at = "page" /\ sweep'.more = sweep.more /\ sweep'.next = sweep.next
                               /\ ~sweep'.failed => ~sweep.failed,
         sweep'.at = "page" /\ ~sweep'.failed =>
           \A p \in due' : p \in sweep.left \/ InWork(p) => p \in sweep'.left \/ InWork(p)'
  PROVE  SweepInv'
BY DEF SweepInv

LEMMA SweepTake ==
  ASSUME CatalogAssumption, RefreshTyped, SweepInv, NEW w \in Workers, Take(w)
  PROVE  SweepInv' /\ ~StartsOver
<1> DEFINE m == Min(sweep.left)
<1>1. /\ sweep.at = "page" /\ job[w] = NoJob
      /\ \/ sweep' = [sweep EXCEPT !.left = @ \ {m}, !.failed = TRUE]
         \/ job' = [job EXCEPT ![w] = Begun(m)] /\ sweep' = [sweep EXCEPT !.left = @ \ {m}]
      /\ sweep'.left = sweep.left \ {m} /\ sweep'.at = "page" /\ sweep'.more = sweep.more
      /\ sweep'.next = sweep.next /\ cursor' = cursor /\ due' = due
  BY TakeEffect
<1> HIDE DEF m
<1>2. ~StartsOver
  BY <1>1 DEF StartsOver
<1>3. CASE sweep' = [sweep EXCEPT !.left = @ \ {m}, !.failed = TRUE]
  <2>1. sweep'.failed
    BY <1>3 DEF RefreshTyped, Sweeps
  <2>2. QED
    BY <1>1, <1>2, <2>1, SweepKeeps
<1>4. CASE job' = [job EXCEPT ![w] = Begun(m)] /\ sweep' = [sweep EXCEPT !.left = @ \ {m}]
  <2>1. Begun(m).step = "list" /\ Begun(m).of = m /\ sweep'.failed = sweep.failed
    BY <1>4 DEF Begun, NoJob, RefreshTyped, Sweeps
  <2>2. /\ job'[w].step = "list" /\ job'[w].of = m
        /\ \A q \in Refreshers : q # w => job'[q] = job[q]
    BY <1>4, <2>1 DEF RefreshTyped, Refreshers
  <2>3. ASSUME NEW p \in due', p \in sweep.left \/ InWork(p)
        PROVE  p \in sweep'.left \/ InWork(p)'
    <3>1. CASE p \in sweep.left
      BY <1>1, <2>2, <3>1 DEF InWork
    <3>2. CASE InWork(p)
      <4>1. PICK v \in Workers : job[v].step # "none" /\ job[v].of = p
        BY <3>2 DEF InWork
      <4>2. v # w /\ v \in Refreshers
        BY <1>1, <4>1 DEF NoJob, Refreshers
      <4>3. QED
        BY <2>2, <4>1, <4>2 DEF InWork
    <3>3. QED
      BY <2>3, <3>1, <3>2
  <2>4. QED
    BY <1>1, <1>2, <2>1, <2>3, SweepKeeps
<1>5. QED
  BY <1>1, <1>3, <1>4

LEMMA SweepJob ==
  ASSUME CatalogAssumption, RefreshTyped, SweepInv, NEW r \in Refreshers, RefreshJob(r) \/ Fail(r)
  PROVE  SweepInv' /\ ~StartsOver
<1>1. ASSUME cursor' = cursor, sweep' = sweep, due' = due,
             \A q \in Refreshers : job'[q].of = job[q].of /\ (job[q].step # "none" => job'[q].step # "none")
      PROVE  SweepInv' /\ ~StartsOver
  <2>1. \A p \in due' : p \in sweep.left \/ InWork(p) => p \in sweep'.left \/ InWork(p)'
    BY <1>1 DEF InWork, Refreshers
  <2>2. SweepInv'
    BY <1>1, <2>1, SweepKeeps
  <2>3. QED
    BY <1>1, <2>2 DEF StartsOver
<1>2. ASSUME NEW list \in Lists, List(r, list)
      PROVE  SweepInv' /\ ~StartsOver
  <2>1. /\ job' = [job EXCEPT ![r] = [job[r] EXCEPT !.step = "upsert", !.list = list]]
        /\ cursor' = cursor /\ sweep' = sweep /\ due' = due
    BY <1>2 DEF List, RefreshTyped
  <2>2. \A q \in Refreshers : job'[q].of = job[q].of /\ (job[q].step # "none" => job'[q].step # "none")
    BY <2>1 DEF RefreshTyped, Jobs
  <2>3. QED
    BY <1>1, <2>1, <2>2
<1>3. CASE Upsert(r)
  <2>1. /\ job' = [job EXCEPT ![r] = [job[r] EXCEPT !.step = "deprecate"]]
        /\ cursor' = cursor /\ sweep' = sweep /\ due' = due
    BY <1>3 DEF Upsert, RefreshTyped
  <2>2. \A q \in Refreshers : job'[q].of = job[q].of /\ (job[q].step # "none" => job'[q].step # "none")
    BY <2>1 DEF RefreshTyped, Jobs
  <2>3. QED
    BY <1>1, <2>1, <2>2
<1>4. CASE Deprecate(r)
  <2>1. /\ job[r].step = "deprecate" /\ job' = [job EXCEPT ![r] = NoJob]
        /\ cursor' = cursor /\ sweep' = sweep
        /\ due' = IF r \in Workers THEN due \ {job[r].of} ELSE due
    BY <1>4 DEF Deprecate
  <2>2. \A q \in Refreshers : q # r => job'[q] = job[q]
    BY <2>1 DEF RefreshTyped
  <2>3. \A p \in due' : InWork(p) => InWork(p)'
    BY <2>1, <2>2 DEF InWork, Refreshers
  <2>4. due' \subseteq due
    BY <2>1
  <2>5. QED
    BY <2>1, <2>3, <2>4, SweepKeeps DEF StartsOver
<1>5. CASE Fail(r)
  <2>1. /\ job' = [job EXCEPT ![r] = NoJob] /\ cursor' = cursor /\ due' = due
        /\ sweep' = IF r \in Workers THEN [sweep EXCEPT !.failed = TRUE] ELSE sweep
    BY <1>5 DEF Fail
  <2>2. \A q \in Refreshers : q # r => job'[q] = job[q]
    BY <2>1 DEF RefreshTyped
  <2>3. sweep \in Sweeps
    BY DEF RefreshTyped
  <2>4. CASE r \in Workers
    <3>1. sweep'.failed /\ sweep'.at = sweep.at /\ sweep'.more = sweep.more /\ sweep'.next = sweep.next
      BY <2>1, <2>3, <2>4 DEF Sweeps
    <3>2. QED
      BY <2>1, <3>1, SweepKeeps DEF StartsOver
  <2>5. CASE r \notin Workers
    <3>1. \A p \in due' : InWork(p) => InWork(p)'
      BY <2>2, <2>5 DEF InWork, Refreshers
    <3>2. QED
      BY <2>1, <2>5, <3>1, SweepKeeps DEF StartsOver
  <2>6. QED
    BY <2>4, <2>5
<1>6. QED
  BY <1>2, <1>3, <1>4, <1>5 DEF RefreshJob

\* A sweep ends only when nothing is due.
LEMMA SweepStep ==
  ASSUME CatalogAssumption, RefreshTyped, SweepInv,
         \/ RefreshNext
         \/ \E p \in Names : EditRefresh(p)
         \/ UNCHANGED <<enabled, broken, refreshVars>>
  PROVE  SweepInv' /\ (StartsOver => due = {})
<1>1. CASE RunDies
  <2>1. sweep' = [Asleep EXCEPT !.at = "dead"] /\ cursor' = cursor /\ due' = due
    BY <1>1 DEF RunDies
  <2>2. sweep'.at = "dead"
    BY <2>1 DEF Asleep
  <2>3. QED
    BY <2>1, <2>2 DEF SweepInv, StartsOver
<1>2. ASSUME NEW a \in Admins, NEW p \in Names, AdminRefresh(a, p)
      PROVE  SweepInv' /\ ~StartsOver
  <2>1. /\ job' = [job EXCEPT ![a] = [NoJob EXCEPT !.step = "list", !.of = p]]
        /\ cursor' = cursor /\ due' = due /\ sweep' = sweep
    BY <1>2 DEF AdminRefresh
  <2>2. \A w \in Workers : w \in Refreshers /\ job'[w] = job[w]
    BY <2>1 DEF RefreshTyped, CatalogAssumption, Refreshers
  <2>3. \A n \in due' : InWork(n) => InWork(n)'
    BY <2>2 DEF InWork
  <2>4. QED
    BY <2>1, <2>3, SweepKeeps DEF StartsOver
<1>3. ASSUME NEW p \in Names, EditRefresh(p)
      PROVE  SweepInv' /\ ~StartsOver
  <2>1. due' = due \ {p} /\ cursor' = cursor /\ sweep' = sweep /\ job' = job
    BY <1>3 DEF EditRefresh
  <2>2. due' \subseteq due /\ \A n \in due' : InWork(n) => InWork(n)'
    BY <2>1 DEF InWork
  <2>3. QED
    BY <2>1, <2>2, SweepKeeps DEF StartsOver
<1>4. CASE UNCHANGED <<enabled, broken, refreshVars>>
  BY <1>4 DEF refreshVars, SweepInv, InWork, StartsOver
<1>5. QED
  BY <1>1, <1>2, <1>3, <1>4, SweepStartRun, SweepPageEnds, SweepTake, SweepJob DEF RefreshNext

-----------------------------------------------------------------------------
(* The record of a provider is what its last check found *)

\* How long the record of a verdict lasts.
Life(v) == IF v.by = "admin" THEN Short ELSE Long

Sound(p) == verdict[p].by \notin {"unsaved", "crossed"}

\* Check r of provider p has found something that it has not saved.
Found(p, r) == check[r].of = p /\ check[r].found # "none"

\* The record says what the verdict does, for as long.
Match(p) ==
    IF verdict[p].found # "none" /\ verdict[p].age < Life(verdict[p])
    THEN record[p].status = verdict[p].found /\ record[p].ttl = Life(verdict[p]) - verdict[p].age
    ELSE record[p] = NoRecord

\* The verdict is check r's own, which is the only one that has found something.
Own(p, r) ==
    /\ \A q \in Refreshers : Found(p, q) => q = r
    /\ verdict[p].found = check[r].found /\ verdict[p].age = 0
    /\ verdict[p].by = IF check[r].step = "store" THEN "page" ELSE check[r].step

Judged(p) ==
    Sound(p) => IF \E r \in Refreshers : Found(p, r)
                THEN \A r \in Refreshers : Found(p, r) => Own(p, r)
                ELSE Match(p)

JudgedInv == \A p \in Names : Judged(p)

LEMMA JudgedInit ==
  ASSUME Init
  PROVE  JudgedInv
<1>1. SUFFICES ASSUME NEW p \in Names
               PROVE  Judged(p)
  BY DEF JudgedInv
<1>2. /\ verdict[p].found = "none" /\ record[p] = NoRecord
      /\ \A r \in Refreshers : check[r].found = "none"
  BY DEF Init, NoCheck, Unjudged
<1>3. QED
  BY <1>2 DEF Judged, Found, Match

\* A provider whose record, verdict and checks a step leaves alone.
LEMMA JudgedStays ==
  ASSUME NEW p \in Names, Judged(p), record'[p] = record[p], verdict'[p] = verdict[p],
         \A r \in Refreshers : Found(p, r)' <=> Found(p, r),
         \A r \in Refreshers : Found(p, r) => check'[r] = check[r]
  PROVE  Judged(p)'
<1>1. Sound(p)' <=> Sound(p)
  BY DEF Sound
<1>2. Match(p)' <=> Match(p)
  BY DEF Match, Life
<1>3. \A r \in Refreshers : Found(p, r) => (Own(p, r)' <=> Own(p, r))
  BY DEF Own
<1>4. QED
  BY <1>1, <1>2, <1>3 DEF Judged

\* One check moves, and nothing else that says anything of the other providers.
LEMMA JudgedOthers ==
  ASSUME NEW r \in Refreshers, NEW p \in Names, Judged(p), p # check[r].of, p # check'[r].of,
         \A q \in Refreshers : q # r => check'[q] = check[q],
         record'[p] = record[p], verdict'[p] = verdict[p]
  PROVE  Judged(p)'
<1>1. \A q \in Refreshers : (Found(p, q)' <=> Found(p, q)) /\ (Found(p, q) => check'[q] = check[q])
  BY DEF Found
<1>2. QED
  BY <1>1, JudgedStays

LEMMA JudgedProbeDies ==
  ASSUME CatalogAssumption, RefreshTyped, HealthTyped, JudgedInv, ProbeDies
  PROVE  JudgedInv'
<1>1. SUFFICES ASSUME NEW p \in Names
               PROVE  Judged(p)'
  BY DEF JudgedInv
<1>2. /\ check' = [r \in Refreshers |-> IF r \in Workers THEN NoCheck ELSE check[r]]
      /\ verdict'[p] = IF \E w \in Workers : Found(p, w)
                       THEN [verdict[p] EXCEPT !.by = "unsaved"] ELSE verdict[p]
      /\ record' = record
  BY DEF ProbeDies, Found
<1>3. CASE \E w \in Workers : Found(p, w)
  <2>1. verdict'[p].by = "unsaved"
    BY <1>2, <1>3 DEF HealthTyped, Verdicts
  <2>2. QED
    BY <2>1 DEF Judged, Sound
<1>4. CASE ~\E w \in Workers : Found(p, w)
  <2>1. \A r \in Workers : r \in Refreshers /\ ~Found(p, r) /\ ~Found(p, r)'
    BY <1>2, <1>4, NoCheckTyped DEF Found, Refreshers
  <2>2. \A r \in Refreshers \ Workers : check'[r] = check[r]
    BY <1>2
  <2>3. \A r \in Refreshers : (Found(p, r)' <=> Found(p, r)) /\ (Found(p, r) => check'[r] = check[r])
    BY <2>1, <2>2 DEF Found
  <2>4. verdict'[p] = verdict[p] /\ record'[p] = record[p] /\ Judged(p)
    BY <1>2, <1>4 DEF JudgedInv
  <2>5. QED
    BY <2>3, <2>4, JudgedStays
<1>5. QED
  BY <1>3, <1>4

LEMMA JudgedFind ==
  ASSUME CatalogAssumption, HealthAssumption, RefreshTyped, HealthTyped, JudgedInv,
         NEW r \in Refreshers, NEW found \in {"healthy", "unhealthy"}, Find(r, found)
  PROVE  JudgedInv'
<1>1. PICK p \in Names : p = check[r].of
  BY DEF Find, HealthTyped, CheckOK
<1>2. PICK crosses \in BOOLEAN : crosses <=> \E q \in Refreshers : Found(p, q)
  OBVIOUS
<1> DEFINE c == [check[r] EXCEPT !.found = found]
<1>3. PICK v : v = [found |-> found, age |-> 0, by |-> IF crosses THEN "crossed" ELSE check[r].step]
  OBVIOUS
<1>4. /\ check[r].step \in {"page", "others", "admin"}
      /\ check' = [check EXCEPT ![r] = c]
      /\ record' = record
  BY DEF Find, HealthTyped
<1>5. verdict' = [verdict EXCEPT ![p] = v]
  BY <1>1, <1>2, <1>3 DEF Find, Found
<1>6. c \in Checks /\ c.step = check[r].step /\ c.of = p /\ c.found = found
  BY <1>1 DEF HealthTyped, Checks
<1>7. /\ check'[r].step = check[r].step /\ check'[r].of = p /\ check'[r].found = found
      /\ \A q \in Refreshers : q # r => check'[q] = check[q]
  <2> HIDE DEF c
  <2>1. QED
    BY <1>4, <1>6, CheckSet
<1>8. /\ verdict'[p] = v
      /\ \A q \in Names : q # p => verdict'[q] = verdict[q]
  BY <1>5 DEF HealthTyped
<1>9. v.found = found /\ v.age = 0 /\ v.by = IF crosses THEN "crossed" ELSE check[r].step
  BY <1>3
<1>10. Judged(p)'
  <2>1. CASE crosses
    BY <1>8, <1>9, <2>1 DEF Judged, Sound
  <2>2. CASE ~crosses
    <3>1. Found(p, r)' /\ \A q \in Refreshers : Found(p, q)' => q = r
      BY <1>2, <1>7, <2>2 DEF Found
    <3>2. /\ verdict'[p].found = check'[r].found /\ verdict'[p].age = 0
          /\ verdict'[p].by = check'[r].step /\ check'[r].step # "store"
      BY <1>4, <1>7, <1>8, <1>9, <2>2
    <3>3. Own(p, r)'
      BY <3>1, <3>2 DEF Own
    <3>4. QED
      BY <3>1, <3>3 DEF Judged
  <2>3. QED
    BY <2>1, <2>2
<1>11. ASSUME NEW q \in Names, q # p
       PROVE  Judged(q)'
  <2>1. Judged(q) /\ q # check[r].of /\ q # check'[r].of /\ record'[q] = record[q] /\ verdict'[q] = verdict[q]
    BY <1>1, <1>4, <1>7, <1>8, <1>11 DEF JudgedInv
  <2>2. QED
    BY <1>7, <2>1, JudgedOthers
<1>12. QED
  BY <1>10, <1>11 DEF JudgedInv

\* The last step of a check: what it found is stored for as long as its verdict counts,
\* and from then on no check has found anything that is not saved.
LEMMA JudgedSaved ==
  ASSUME CatalogAssumption, HealthAssumption, RefreshTyped, HealthTyped, JudgedInv,
         NEW r \in Refreshers, check[r].of \in Names, check[r].found # "none",
         Store(check[r].of, check[r].found, IF check[r].step = "admin" THEN Short ELSE Long),
         check[r].step \in {"store", "others", "admin"},
         check' = [check EXCEPT ![r] = NoCheck], verdict' = verdict
  PROVE  JudgedInv'
<1>1. PICK p \in Names : p = check[r].of
  OBVIOUS
<1>2. PICK n \in Nat \ {0} : n = IF check[r].step = "admin" THEN Short ELSE Long
  BY DEF HealthAssumption
<1>3. n \in 0..Long /\ check[r].found \in {"none", "healthy", "unhealthy"}
  BY <1>2 DEF HealthAssumption, HealthTyped, Checks
<1>4. /\ record'[p].status = check[r].found /\ record'[p].ttl = n
      /\ \A q \in Names : q # p => record'[q] = record[q]
  <2>1. PICK s \in {"none", "healthy", "unhealthy"} : s = check[r].found
    BY <1>3
  <2>2. Store(p, s, n)
    BY <1>1, <1>2, <2>1
  <2>3. QED
    BY <1>3, <2>1, <2>2, StoreTyped
<1>5. /\ check'[r] = NoCheck
      /\ \A q \in Refreshers : q # r => check'[q] = check[q]
  BY NoCheckTyped, CheckSet
<1>6. Judged(p)'
  <2>1. SUFFICES ASSUME Sound(p)'
                 PROVE  Judged(p)'
    BY DEF Judged
  <2>2. Found(p, r) /\ Own(p, r)
    BY <1>1, <2>1 DEF JudgedInv, Judged, Found, Sound
  <2>3. \A q \in Refreshers : ~Found(p, q)'
    BY <1>5, <2>2, NoCheckTyped DEF Found, Own
  <2>4. /\ verdict'[p].found = check[r].found /\ verdict'[p].age = 0
        /\ Life(verdict'[p]) = n
    BY <1>2, <2>2 DEF Own, Life
  <2>5. Match(p)'
    BY <1>4, <2>4 DEF Match
  <2>6. QED
    BY <2>3, <2>5 DEF Judged
<1>7. ASSUME NEW q \in Names, q # p
      PROVE  Judged(q)'
  <2>1. Judged(q) /\ q # check[r].of /\ q # check'[r].of /\ record'[q] = record[q] /\ verdict'[q] = verdict[q]
    BY <1>1, <1>4, <1>5, <1>7, NoCheckTyped DEF JudgedInv, CatalogAssumption
  <2>2. QED
    BY <1>5, <2>1, JudgedOthers
<1>8. QED
  BY <1>6, <1>7 DEF JudgedInv

LEMMA JudgedUpdateHealth ==
  ASSUME CatalogAssumption, HealthAssumption, RefreshTyped, HealthTyped, JudgedInv,
         NEW r \in Refreshers, UpdateHealth(r)
  PROVE  JudgedInv'
<1>1. /\ check[r].found # "none" /\ check[r].step \in {"page", "admin"}
      /\ Store(check[r].of, check[r].found, Short)
      /\ check' = [check EXCEPT ![r] = IF check[r].step = "admin" THEN NoCheck
                                       ELSE [check[r] EXCEPT !.step = "store"]]
      /\ verdict' = verdict
  BY DEF UpdateHealth, HealthTyped
<1>2. check[r] \in Checks /\ check[r].of \in Names
  BY <1>1 DEF HealthTyped, CheckOK
<1>3. CASE check[r].step = "admin"
  BY <1>1, <1>2, <1>3, JudgedSaved
<1>4. CASE check[r].step = "page"
  <2> DEFINE c == [check[r] EXCEPT !.step = "store"]
  <2>1. PICK p \in Names : p = check[r].of
    BY <1>2
  <2>2. c \in Checks /\ c.step = "store" /\ c.of = p /\ c.found = check[r].found
    BY <1>2, <2>1 DEF Checks
  <2>3. check' = [check EXCEPT ![r] = c]
    BY <1>1, <1>4
  <2> HIDE DEF c
  <2>4. /\ check'[r] = c
        /\ \A q \in Refreshers : q # r => check'[q] = check[q]
    BY <2>2, <2>3, CheckSet
  <2>5. \A q \in Refreshers : Found(p, q)' <=> Found(p, q)
    BY <2>1, <2>2, <2>4 DEF Found
  <2>6. Judged(p)'
    <3>1. SUFFICES ASSUME Sound(p)'
                   PROVE  Judged(p)'
      BY DEF Judged
    <3>2. Found(p, r) /\ Own(p, r)
      BY <1>1, <2>1, <3>1 DEF JudgedInv, Judged, Found, Sound
    <3>3. \A q \in Refreshers : Found(p, q)' => q = r
      BY <2>5, <3>2 DEF Own
    <3>4. Own(p, r)'
      BY <1>1, <1>4, <2>2, <2>4, <3>2, <3>3 DEF Own
    <3>5. QED
      BY <2>5, <3>2, <3>3, <3>4 DEF Judged
  <2>7. ASSUME NEW q \in Names, q # p
        PROVE  Judged(q)'
    <3>1. record'[q] = record[q]
      BY <1>1, <2>1, <2>7 DEF Store, HealthTyped
    <3>2. Judged(q) /\ q # check[r].of /\ q # check'[r].of /\ verdict'[q] = verdict[q]
      BY <1>1, <2>1, <2>2, <2>4, <2>7 DEF JudgedInv
    <3>3. QED
      BY <2>4, <3>1, <3>2, JudgedOthers
  <2>8. QED
    BY <2>6, <2>7 DEF JudgedInv
<1>5. QED
  BY <1>1, <1>3, <1>4

LEMMA JudgedUpdateFails ==
  ASSUME CatalogAssumption, HealthAssumption, RefreshTyped, HealthTyped, JudgedInv,
         NEW r \in Refreshers, UpdateFails(r)
  PROVE  JudgedInv'
<1>1. /\ check[r].found # "none" /\ check[r].step \in {"page", "store", "admin"}
      /\ record' = record \/ Store(check[r].of, "unhealthy", Long)
      /\ check' = [check EXCEPT ![r] = NoCheck]
      /\ verdict' = [verdict EXCEPT ![check[r].of].by = "unsaved"]
  BY DEF UpdateFails
<1>2. PICK p \in Names : p = check[r].of
  BY <1>1 DEF HealthTyped, CheckOK
<1>3. verdict'[p].by = "unsaved" /\ \A q \in Names : q # p => verdict'[q] = verdict[q]
  BY <1>1, <1>2 DEF HealthTyped, Verdicts
<1>4. \A q \in Names : q # p => record'[q] = record[q]
  BY <1>1, <1>2 DEF Store, HealthTyped
<1>5. check'[r] = NoCheck /\ \A q \in Refreshers : q # r => check'[q] = check[q]
  BY <1>1, NoCheckTyped, CheckSet
<1>6. Judged(p)'
  BY <1>3 DEF Judged, Sound
<1>7. ASSUME NEW q \in Names, q # p
      PROVE  Judged(q)'
  <2>1. Judged(q) /\ q # check[r].of /\ q # check'[r].of /\ record'[q] = record[q] /\ verdict'[q] = verdict[q]
    BY <1>2, <1>3, <1>4, <1>5, <1>7, NoCheckTyped DEF JudgedInv, CatalogAssumption
  <2>2. QED
    BY <1>5, <2>1, JudgedOthers
<1>8. QED
  BY <1>6, <1>7 DEF JudgedInv

LEMMA JudgedTick ==
  ASSUME CatalogAssumption, HealthAssumption, RefreshTyped, HealthTyped, JudgedInv, Tick
  PROVE  JudgedInv'
<1>1. SUFFICES ASSUME NEW p \in Names, Sound(p)'
               PROVE  Judged(p)'
  BY DEF JudgedInv, Judged
<1>2. /\ IF record[p].ttl <= 1
         THEN record'[p] = NoRecord
         ELSE record'[p].status = record[p].status /\ record'[p].ttl = record[p].ttl - 1
      /\ verdict'[p].found = verdict[p].found /\ verdict'[p].by = verdict[p].by
      /\ verdict'[p].age = IF verdict[p].age + 1 <= Long THEN verdict[p].age + 1 ELSE Long
  BY TickEffect
<1>3. \A r \in Refreshers : ~Found(p, r) /\ ~Found(p, r)'
  BY NoCheckTyped DEF Tick, Found
<1>4. Match(p)
  BY <1>1, <1>2, <1>3 DEF JudgedInv, Judged, Sound
<1>5. /\ verdict[p].age \in Nat /\ record[p].ttl \in Nat /\ Life(verdict[p]) \in Nat
      /\ Life(verdict[p]) <= Long /\ Life(verdict'[p]) = Life(verdict[p]) /\ Long \in Nat
      /\ record[p].status \in {"none", "healthy", "unhealthy"}
  BY <1>2 DEF HealthTyped, Verdicts, Records, HealthAssumption, Life
<1>6. NoRecord.ttl = 0 /\ NoRecord.status = "none"
  BY DEF NoRecord
<1>7. Match(p)'
  <2>1. CASE verdict[p].found # "none" /\ verdict[p].age < Life(verdict[p])
    <3>1. record[p].status = verdict[p].found /\ record[p].ttl = Life(verdict[p]) - verdict[p].age
      BY <1>4, <2>1 DEF Match
    <3>2. verdict'[p].age = verdict[p].age + 1
      BY <1>2, <1>5, <2>1
    <3>3. CASE record[p].ttl <= 1
      BY <1>2, <1>5, <2>1, <3>1, <3>2, <3>3 DEF Match
    <3>4. CASE ~(record[p].ttl <= 1)
      BY <1>2, <1>5, <2>1, <3>1, <3>2, <3>4 DEF Match
    <3>5. QED
      BY <3>3, <3>4
  <2>2. CASE ~(verdict[p].found # "none" /\ verdict[p].age < Life(verdict[p]))
    <3>1. record[p] = NoRecord
      BY <1>4, <2>2 DEF Match
    <3>2. record'[p] = NoRecord
      BY <1>2, <1>6, <3>1
    <3>3. ~(verdict'[p].found # "none" /\ verdict'[p].age < Life(verdict'[p]))
      BY <1>2, <1>5, <2>2
    <3>4. QED
      BY <3>2, <3>3 DEF Match
  <2>3. QED
    BY <2>1, <2>2
<1>8. QED
  BY <1>3, <1>7 DEF Judged

LEMMA JudgedStep ==
  ASSUME CatalogAssumption, HealthAssumption, RefreshTyped, HealthTyped, JudgedInv, Next \/ UNCHANGED vars
  PROVE  JudgedInv'
<1>1. ASSUME record' = record, verdict' = verdict, check' = check
      PROVE  JudgedInv'
  BY <1>1, JudgedStays DEF JudgedInv, Found
<1>2. CASE ProbeStarts \/ ProbeOthers \/ ProbeEnds
  BY <1>1, <1>2 DEF ProbeStarts, ProbeOthers, ProbeEnds
<1>3. ASSUME NEW r \in Refreshers, record' = record, verdict' = verdict, check[r] = NoCheck,
             check'[r].found = "none", \A q \in Refreshers : q # r => check'[q] = check[q]
      PROVE  JudgedInv'
  <2>1. \A p \in Names, q \in Refreshers : (Found(p, q)' <=> Found(p, q)) /\ (Found(p, q) => check'[q] = check[q])
    BY <1>3, NoCheckTyped DEF Found
  <2>2. QED
    BY <1>3, <2>1, JudgedStays DEF JudgedInv
<1>4. ASSUME NEW w \in Workers, ProbeTake(w)
      PROVE  JudgedInv'
  BY <1>3, <1>4 DEF ProbeTake, HealthTyped, Refreshers
<1>5. ASSUME NEW a \in Admins, NEW p \in Names, AdminCheck(a, p)
      PROVE  JudgedInv'
  BY <1>3, <1>5 DEF AdminCheck, HealthTyped, Refreshers
<1>6. ASSUME NEW r \in Refreshers, Publish(r)
      PROVE  JudgedInv'
  <2>1. check[r].of \in Names
    BY <1>6 DEF Publish, HealthTyped, CheckOK
  <2>2. QED
    BY <1>6, <2>1, JudgedSaved DEF Publish
<1>7. CASE Next /\ ~HealthNext
  BY <1>1, <1>7 DEF Next, Edit, healthVars
<1>8. CASE UNCHANGED vars
  BY <1>1, <1>8 DEF vars, healthVars
<1>9. QED
  BY <1>2, <1>4, <1>5, <1>6, <1>7, <1>8, JudgedProbeDies, JudgedFind, JudgedUpdateHealth, JudgedUpdateFails,
     JudgedTick DEF HealthNext, CheckJob

-----------------------------------------------------------------------------
(* The registry *)

CatalogInv ==
    /\ RefreshTyped
    /\ HealthTyped
    /\ RowsInv
    /\ SweepInv
    /\ JudgedInv

LEMMA CatalogInit ==
  ASSUME CatalogAssumption, HealthAssumption, Init
  PROVE  CatalogInv
<1>1. RefreshInit
  BY DEF Init
<1>2. QED
  BY <1>1, RefreshTypedInit, HealthTypedInit, RowsInit, SweepInit, JudgedInit DEF CatalogInv

LEMMA CatalogStep ==
  ASSUME CatalogAssumption, HealthAssumption, CatalogInv, Next \/ UNCHANGED vars
  PROVE  CatalogInv' /\ (StartsOver => due = {})
<1>1. \/ RefreshNext
      \/ \E p \in Names : EditRefresh(p)
      \/ UNCHANGED <<enabled, broken, refreshVars>>
  BY StepOfRefresh
<1>2. RefreshTyped /\ HealthTyped /\ RowsInv /\ SweepInv /\ JudgedInv
  BY DEF CatalogInv
<1>3. RefreshTyped'
  BY <1>1, <1>2, RefreshTypedStep
<1>4. HealthTyped'
  BY <1>2, HealthTypedStep
<1>5. RowsInv'
  BY <1>1, <1>2, RowsStep
<1>6. SweepInv' /\ (StartsOver => due = {})
  BY <1>1, <1>2, SweepStep
<1>7. JudgedInv'
  BY <1>2, JudgedStep
<1>8. QED
  BY <1>3, <1>4, <1>5, <1>6, <1>7 DEF CatalogInv

\* The inductive invariant of the registry holds, for any providers, lists of models,
\* pages, workers, admins and lives of a record (probe.ts, provider-registry.ts,
\* state.ts, admin-providers.ts).
THEOREM CatalogInvariant == Spec => []CatalogInv
<1>1. Init => CatalogInv
  BY CatalogInit, CatalogAssumption, HealthAssumption
<1>2. CatalogInv /\ [Next]_vars => CatalogInv'
  BY CatalogStep, CatalogAssumption, HealthAssumption
<1>3. QED
  BY <1>1, <1>2, PTL DEF Spec

LEMMA CatalogTypeOK ==
  ASSUME CatalogInv
  PROVE  TypeOK
<1>1. RefreshTyped /\ HealthTyped
  BY DEF CatalogInv
<1>2. RefreshTypeOK
  BY <1>1 DEF RefreshTyped, RefreshTypeOK, JobOK, Jobs, Sweeps, Served
<1>3. /\ hcursor \in Names \cup {0} /\ hdue \subseteq Served(enabled)
      /\ probe.at \in {"idle", "page", "others", "dead"}
      /\ probe.left \subseteq Names /\ probe.others \subseteq Builtin
  BY <1>1 DEF HealthTyped, Probes, Served
<1>4. \A p \in Names :
        /\ record[p].status \in {"none", "healthy", "unhealthy"} /\ record[p].ttl \in 0..Long
        /\ verdict[p].by \in {"nobody", "page", "others", "admin", "unsaved", "crossed"}
  BY <1>1 DEF HealthTyped, Records, Verdicts
<1>5. \A r \in Refreshers :
        /\ check[r].step \in {"none", "page", "others", "admin", "store"}
        /\ check[r].step # "none" => check[r].of \in Names
        /\ check[r].step \in {"page", "others", "store"} =>
             probe.at = (IF check[r].step = "others" THEN "others" ELSE "page")
  BY <1>1 DEF HealthTyped, Checks, CheckOK
<1>6. QED
  BY <1>2, <1>3, <1>4, <1>5 DEF TypeOK

\* The variables of the registry keep their types; a worker has a refresh or a check only
\* while its run goes on, and a page is never larger than PROVIDER_BATCH_SIZE (probe.ts).
THEOREM CatalogTypes == Spec => []TypeOK
<1>1. CatalogInv => TypeOK
  BY CatalogTypeOK
<1>2. QED
  BY <1>1, CatalogInvariant, PTL

\* However refreshes of a provider cross and fail, the rows are those its last lists
\* account for: a model in all of them is routed, and one in none of them is not, unless
\* it was there before and no deprecation has run since (provider-registry.ts
\* refreshModels).
THEOREM RowsAreAccounted == Spec => []RowsAccounted
<1>1. CatalogInv => RowsAccounted
  BY DEF CatalogInv, RowsInv
<1>2. QED
  BY <1>1, CatalogInvariant, PTL

\* A daily sweep ends only when every provider that was enabled, with an adapter, all
\* through it was refreshed in it, whatever fails, dies, is enabled, disabled or skipped
\* meanwhile (probe.ts refreshProviderModels, getEnabledProviderBatch).
THEOREM NoProviderIsLost == Spec => SweepCompletes
<1>1. CatalogInv /\ [Next]_vars => [StartsOver => due = {}]_<<enabled, broken, refreshVars>>
  BY CatalogStep, CatalogAssumption, HealthAssumption
<1>2. QED
  BY <1>1, CatalogInvariant, PTL DEF Spec, SweepCompletes

LEMMA JudgedAvoids ==
  ASSUME HealthTyped, JudgedInv
  PROVE  AvoidedAsFound
<1>1. SUFFICES ASSUME NEW p \in Names, \A r \in Refreshers : check[r].of # p,
                      verdict[p].by \notin {"unsaved", "crossed"}
               PROVE  Avoided(p) <=>
                        /\ verdict[p].found = "unhealthy"
                        /\ verdict[p].age < (IF verdict[p].by = "admin" THEN Short ELSE Long)
  BY DEF AvoidedAsFound
<1>2. Match(p)
  BY <1>1 DEF JudgedInv, Judged, Sound, Found
<1>3. NoRecord.status = "none"
  BY DEF NoRecord
<1>4. QED
  BY <1>2, <1>3 DEF Match, Avoided, Life

\* A provider is avoided exactly while its last check found it unhealthy and the record
\* of that lasts, but for a check whose record could not be saved, and two that crossed
\* (probe.ts probeProviders, updateHealth, state.ts unhealthyProviders).
THEOREM AvoidedAsChecked == Spec => []AvoidedAsFound
<1>1. CatalogInv => AvoidedAsFound
  BY JudgedAvoids DEF CatalogInv
<1>2. QED
  BY <1>1, CatalogInvariant, PTL

-----------------------------------------------------------------------------
(* Sets of models of providers *)

LEMMA PairsFacts ==
  ASSUME CatalogAssumption, HealthAssumption, RoutingAssumption
  PROVE  /\ IsFiniteSet(Pairs)
         /\ \A c \in Pairs : c[1] \in Names /\ c[2] \in Models
         /\ Rows \subseteq Pairs /\ \A c \in Rows : c[1] \in enabled
         /\ CheckedIn \subseteq Pairs
         /\ Current(CheckedIn) \subseteq Pairs
<1>1. IsFiniteSet(Names \X Models)
  BY FS_Product DEF CatalogAssumption, RoutingAssumption
<1>2. Rows \subseteq Pairs /\ \A c \in Rows : c[1] \in enabled
  BY DEF Rows
<1>3. CheckedIn \subseteq Pairs
  BY DEF CheckedIn, Pairs, HealthAssumption
<1>4. \A c \in Pairs : c[1] \in Names /\ c[2] \in Models
  BY DEF Pairs
<1>5. QED
  BY <1>1, <1>2, <1>3, <1>4 DEF Current, Pairs

LEMMA ProvidersOfPairs ==
  ASSUME CatalogAssumption, HealthAssumption, RoutingAssumption, NEW S \in SUBSET Pairs
  PROVE  /\ ProvidersOf(S) \in SUBSET Names /\ IsFiniteSet(ProvidersOf(S))
         /\ Cardinality(ProvidersOf(S)) \in Nat
<1>1. ProvidersOf(S) \in SUBSET Names
  BY PairsFacts DEF ProvidersOf
<1>2. QED
  BY <1>1, FS_Subset, FS_CardinalityType DEF CatalogAssumption

\* The smaller of two numbers bounds both.
LEMMA MinBounds ==
  ASSUME NEW a \in Nat, NEW b \in Nat
  PROVE  Min({a, b}) \in Nat /\ Min({a, b}) <= a /\ Min({a, b}) <= b
BY MinOfTwo

\* The candidates are of one provider each: the one selected and as many of the other
\* providers with a usable model as the plan allows (candidatesFor).
LEMMA CandidatesCount ==
  ASSUME CatalogAssumption, HealthAssumption, RoutingAssumption,
         NEW selected \in Pairs, NEW O \in SUBSET Pairs, \A c \in O : c[1] # selected[1],
         NEW n, n = Min({Attempts - 1, Cardinality(ProvidersOf(O))}),
         NEW others \in Picks(O, n),
         NEW A \in SUBSET Pairs, \A c \in A : c = selected \/ c[1] = selected[1] \/ c \in O
  PROVE  /\ others \subseteq O
         /\ Cardinality({selected} \cup others) <= Attempts
         /\ Cardinality({selected} \cup others) >= Min({Attempts, Cardinality(ProvidersOf(A))})
<1>1. others \in SUBSET O /\ Cardinality(others) = n
  BY DEF Picks
<1>2. IsFiniteSet(others)
  <2>1. others \in SUBSET Pairs
    BY <1>1
  <2>2. QED
    BY <2>1, PairsFacts, FS_Subset
<1>3. selected \notin others
  BY <1>1
<1>4. Cardinality({selected} \cup others) = n + 1
  <2>1. {selected} \cup others = others \cup {selected}
    OBVIOUS
  <2>2. Cardinality(others \cup {selected}) = Cardinality(others) + 1
    BY <1>2, <1>3, FS_AddElement
  <2>3. QED
    BY <1>1, <2>1, <2>2
<1>5. PICK k \in Nat : k = Cardinality(ProvidersOf(O))
  BY ProvidersOfPairs
<1>6. PICK a \in Nat : a = Cardinality(ProvidersOf(A))
  BY ProvidersOfPairs
<1>7. Attempts \in Nat /\ Attempts - 1 \in Nat
  BY DEF RoutingAssumption
<1>8. n = IF Attempts - 1 <= k THEN Attempts - 1 ELSE k
  BY <1>5, <1>7, MinOfTwo
<1>9. a <= k + 1
  <2>1. ProvidersOf(A) \in SUBSET (ProvidersOf(O) \cup {selected[1]})
    BY DEF ProvidersOf
  <2>2. IsFiniteSet(ProvidersOf(O)) /\ selected[1] \notin ProvidersOf(O)
    BY ProvidersOfPairs DEF ProvidersOf
  <2>3. /\ IsFiniteSet(ProvidersOf(O) \cup {selected[1]})
        /\ Cardinality(ProvidersOf(O) \cup {selected[1]}) = k + 1
    BY <1>5, <2>2, FS_AddElement
  <2>4. QED
    BY <1>6, <2>1, <2>3, FS_Subset
<1>10. Min({Attempts, a}) = IF Attempts <= a THEN Attempts ELSE a
  BY <1>7, MinOfTwo
<1>11. QED
  BY <1>1, <1>4, <1>6, <1>7, <1>8, <1>9, <1>10

-----------------------------------------------------------------------------
(* The types of the request *)

Requests ==
    [step : {"new", "list", "ask", "select", "look", "relook", "call", "called", "refused", "over"},
     able : SUBSET Pairs, wanted : Pairs \cup {NoModel}, embedding : BOOLEAN,
     models : SUBSET Pairs, asked : SUBSET Names, first : Pairs \cup {NoModel}, all : SUBSET Pairs,
     todo : SUBSET Pairs, now : Pairs \cup {NoModel}, called : SUBSET Names]

\* The request goes through its candidates.
Looping == req.step \in {"look", "relook", "call", "called"}

RouteTyped ==
    /\ req \in Requests
    /\ req.todo \subseteq req.all /\ req.called \subseteq ProvidersOf(req.all)
    /\ Cardinality(req.all) <= Attempts
    /\ Looping => req.now \in req.all
    /\ req.step = "new" => req = NoRequest
    /\ steady \subseteq Pairs /\ avoided \subseteq Names /\ off \subseteq Names /\ bare \in BOOLEAN

\* What is known of the registry until the selection, and of the candidates after it.
Choosing == req.step \in {"list", "ask", "select"}

\* Up to the selection: what could be routed to all along has been read, what was avoided
\* all along will be found out, and no provider disabled since before has been read unless
\* the registry was bare.
ChoosingInv ==
    /\ steady \subseteq Current(CheckedIn) /\ steady \subseteq req.models
    /\ \A c \in steady : ~Avoided(c[1])
    /\ avoided \subseteq ProvidersOf(Current(CheckedIn)) /\ \A p \in avoided : Avoided(p)
    /\ req.step = "select" => avoided \subseteq req.asked
    /\ Rows = {} => bare
    /\ ~bare => ProvidersOf(req.models) \cap off = {}
    /\ req.all = {}

RouteInv ==
    /\ Choosing => ChoosingInv
    /\ off \cap enabled = {}
    /\ ~bare => ProvidersOf(req.all) \cap off = {}
    /\ req.step = "call" /\ req.now[1] \in off => req.now[1] \in Builtin
    /\ req.called \cap off \subseteq Builtin
    /\ SelectsWell
    /\ AvoidsUnhealthy

RoutingInv == CatalogInv /\ RouteTyped /\ RouteInv

LEMMA NoRequestTyped ==
  /\ NoRequest \in Requests
  /\ NoRequest.step = "new" /\ NoRequest.all = {} /\ NoRequest.todo = {} /\ NoRequest.called = {}
BY DEF NoRequest, Requests

LEMMA RouteTypedInit ==
  ASSUME CatalogAssumption, HealthAssumption, RoutingAssumption, RouteInit
  PROVE  RouteTyped /\ RouteInv
<1>1. /\ req = NoRequest /\ steady = {} /\ avoided = {} /\ off = {} /\ bare = FALSE
  BY DEF RouteInit
<1>2. Cardinality(req.all) <= Attempts
  <2>1. Cardinality(req.all) = 0
    BY <1>1, NoRequestTyped, FS_EmptySet
  <2>2. QED
    BY <2>1 DEF RoutingAssumption
<1>3. RouteTyped
  BY <1>1, <1>2, NoRequestTyped DEF RouteTyped, Looping
<1>4. SelectsWell /\ AvoidsUnhealthy
  BY <1>1, NoRequestTyped DEF SelectsWell, AvoidsUnhealthy
<1>5. QED
  BY <1>1, <1>3, <1>4, NoRequestTyped DEF RouteInv, Choosing, ProvidersOf

-----------------------------------------------------------------------------
(* Before the selection *)

\* A step of the request changes nothing of the registry.
LEMMA RegistryStays ==
  ASSUME UNCHANGED vars
  PROVE  /\ enabled' = enabled /\ broken' = broken
         /\ (Rows = {})' <=> Rows = {}
         /\ Current(CheckedIn)' = Current(CheckedIn)
         /\ \A p : Avoided(p)' <=> Avoided(p)
<1>1. enabled' = enabled /\ broken' = broken /\ live' = live /\ record' = record
  BY DEF vars, refreshVars, healthVars
<1>2. QED
  BY <1>1 DEF Rows, Current, Avoided

LEMMA ArriveKeeps ==
  ASSUME CatalogAssumption, HealthAssumption, RoutingAssumption, RouteTyped, RouteInv,
         enabled \subseteq Names, NEW kind \in Kinds, Arrive(kind), UNCHANGED vars
  PROVE  RouteTyped' /\ RouteInv'
<1>1. /\ req.step = "new" /\ req = NoRequest
      /\ req' = [req EXCEPT !.step = "list", !.able = kind.able, !.wanted = kind.wanted,
                            !.embedding = kind.embedding, !.models = Current(CheckedIn)]
      /\ steady' = {c \in Current(CheckedIn) : ~Avoided(c[1])}
      /\ avoided' = {p \in ProvidersOf(Current(CheckedIn)) : Avoided(p)}
      /\ off' = Names \ enabled
      /\ bare' = (Rows = {})
  BY DEF Arrive, RouteTyped
<1>2. /\ kind.able \subseteq Pairs /\ kind.embedding \in BOOLEAN /\ kind.wanted \in Pairs \cup {NoModel}
      /\ Current(CheckedIn) \in SUBSET Pairs
      /\ ProvidersOf(Current(CheckedIn)) \subseteq Names
  BY PairsFacts, ProvidersOfPairs DEF RoutingAssumption, Pairs
<1>3. /\ req' \in Requests /\ req'.step = "list" /\ req'.models = Current(CheckedIn)
      /\ req'.all = {} /\ req'.todo = {} /\ req'.called = {}
  BY <1>1, <1>2, NoRequestTyped DEF Requests
<1>4. RouteTyped'
  <2>1. Cardinality(req'.all) <= Attempts
    <3>1. Cardinality(req'.all) = 0
      BY <1>3, FS_EmptySet
    <3>2. QED
      BY <3>1 DEF RoutingAssumption
  <2>2. steady' \subseteq Pairs /\ avoided' \subseteq Names /\ off' \subseteq Names /\ bare' \in BOOLEAN
    BY <1>1, <1>2
  <2>3. QED
    BY <1>3, <2>1, <2>2 DEF RouteTyped, Looping
<1>5. enabled' = enabled /\ broken' = broken /\ ((Rows = {})' <=> Rows = {})
      /\ Current(CheckedIn)' = Current(CheckedIn) /\ (\A p : Avoided(p)' <=> Avoided(p))
  BY RegistryStays
<1>6. ~bare' => ProvidersOf(req'.models) \cap off' = {}
  <2>1. CASE Rows = {}
    BY <1>1, <2>1
  <2>2. CASE Rows # {}
    <3>1. req'.models = Rows
      BY <1>3, <2>2 DEF Current
    <3>2. \A c \in Rows : c[1] \in enabled
      BY PairsFacts
    <3>3. QED
      BY <1>1, <3>1, <3>2 DEF ProvidersOf
  <2>3. QED
    BY <2>1, <2>2
<1>7. ChoosingInv'
  <2>1. /\ steady' \subseteq Current(CheckedIn)' /\ steady' \subseteq req'.models
        /\ \A c \in steady' : ~Avoided(c[1])'
    BY <1>1, <1>3, <1>5
  <2>2. avoided' \subseteq ProvidersOf(Current(CheckedIn))' /\ \A p \in avoided' : Avoided(p)'
    BY <1>1, <1>5 DEF ProvidersOf
  <2>3. (Rows = {})' => bare'
    BY <1>1, <1>5
  <2>4. QED
    BY <1>3, <1>6, <2>1, <2>2, <2>3 DEF ChoosingInv, ProvidersOf
<1>8. SelectsWell' /\ AvoidsUnhealthy'
  BY <1>3 DEF SelectsWell, AvoidsUnhealthy, ProvidersOf
<1>9. QED
  BY <1>1, <1>3, <1>4, <1>5, <1>7, <1>8 DEF RouteInv, ProvidersOf

LEMMA List2Keeps ==
  ASSUME CatalogAssumption, HealthAssumption, RoutingAssumption, RouteTyped, RouteInv,
         List2, UNCHANGED vars
  PROVE  RouteTyped' /\ RouteInv'
<1>1. /\ req.step = "list"
      /\ req' = [req EXCEPT !.step = "ask", !.models = Current(req.models)]
      /\ steady' = steady /\ avoided' = avoided /\ off' = off /\ bare' = bare
  BY DEF List2, routeHistory, RouteTyped
<1>2. Current(req.models) \in SUBSET Pairs /\ req \in Requests
  BY PairsFacts DEF RouteTyped, Requests, Current
<1>3. /\ req' \in Requests /\ req'.step = "ask" /\ req'.models = Current(req.models)
      /\ req'.all = req.all /\ req'.todo = req.todo /\ req'.called = req.called /\ req'.now = req.now
      /\ req'.wanted = req.wanted /\ req'.able = req.able
  BY <1>1, <1>2 DEF Requests
<1>4. RouteTyped'
  BY <1>1, <1>3 DEF RouteTyped, Looping, ProvidersOf
<1>5. enabled' = enabled /\ broken' = broken /\ ((Rows = {})' <=> Rows = {})
      /\ Current(CheckedIn)' = Current(CheckedIn) /\ (\A p : Avoided(p)' <=> Avoided(p))
  BY RegistryStays
<1>6. ChoosingInv
  BY <1>1 DEF RouteInv, Choosing
<1>7. steady' \subseteq req'.models /\ (~bare => ProvidersOf(req'.models) \cap off = {})
  <2>1. CASE Rows = {}
    BY <1>1, <1>3, <1>6, <2>1 DEF Current, ChoosingInv
  <2>2. CASE Rows # {}
    <3>1. req'.models = Rows /\ Current(CheckedIn) = Rows
      BY <1>3, <2>2 DEF Current
    <3>2. \A c \in Rows : c[1] \in enabled
      BY PairsFacts
    <3>3. off \cap enabled = {}
      BY DEF RouteInv
    <3>4. QED
      BY <1>1, <1>6, <3>1, <3>2, <3>3 DEF ProvidersOf, ChoosingInv
  <2>3. QED
    BY <2>1, <2>2
<1>8. ChoosingInv'
  BY <1>1, <1>3, <1>5, <1>6, <1>7 DEF ChoosingInv, ProvidersOf
<1>9. SelectsWell' /\ AvoidsUnhealthy'
  BY <1>3, <1>6 DEF SelectsWell, AvoidsUnhealthy, ProvidersOf, ChoosingInv
<1>10. QED
  BY <1>1, <1>3, <1>4, <1>5, <1>8, <1>9 DEF RouteInv, ProvidersOf

LEMMA AskKeeps ==
  ASSUME CatalogAssumption, HealthAssumption, RoutingAssumption, RouteTyped, RouteInv,
         Ask, UNCHANGED vars
  PROVE  RouteTyped' /\ RouteInv'
<1>1. /\ req.step = "ask"
      /\ req' = [req EXCEPT !.step = "select", !.asked = ProvidersOf(Current(CheckedIn))]
      /\ steady' = steady /\ avoided' = avoided /\ off' = off /\ bare' = bare
  BY DEF Ask, routeHistory
<1>2. ProvidersOf(Current(CheckedIn)) \in SUBSET Names /\ req \in Requests
  BY PairsFacts, ProvidersOfPairs DEF RouteTyped
<1>3. /\ req' \in Requests /\ req'.step = "select" /\ req'.models = req.models
      /\ req'.asked = ProvidersOf(Current(CheckedIn))
      /\ req'.all = req.all /\ req'.todo = req.todo /\ req'.called = req.called /\ req'.now = req.now
      /\ req'.wanted = req.wanted /\ req'.able = req.able
  BY <1>1, <1>2 DEF Requests
<1>4. RouteTyped'
  BY <1>1, <1>3 DEF RouteTyped, Looping, ProvidersOf
<1>5. enabled' = enabled /\ broken' = broken /\ ((Rows = {})' <=> Rows = {})
      /\ Current(CheckedIn)' = Current(CheckedIn) /\ (\A p : Avoided(p)' <=> Avoided(p))
  BY RegistryStays
<1>6. ChoosingInv
  BY <1>1 DEF RouteInv, Choosing
<1>7. ChoosingInv'
  BY <1>1, <1>3, <1>5, <1>6 DEF ChoosingInv, ProvidersOf
<1>8. SelectsWell' /\ AvoidsUnhealthy'
  BY <1>3, <1>6 DEF SelectsWell, AvoidsUnhealthy, ProvidersOf, ChoosingInv
<1>9. QED
  BY <1>1, <1>3, <1>4, <1>5, <1>7, <1>8 DEF RouteInv, ProvidersOf

-----------------------------------------------------------------------------
(* The selection *)

\* What would have done for the request all along is usable, and nothing usable was
\* avoided all along.
LEMMA FitIsUsable ==
  ASSUME RouteTyped, ChoosingInv, req.step = "select"
  PROVE  /\ Fit \subseteq Usable /\ Usable \subseteq Pairs /\ Usable \subseteq req.models
         /\ \A c \in Usable : c[1] \notin avoided
<1>1. Fit \subseteq Usable
  BY DEF Fit, Usable, Unhealthy, ChoosingInv
<1>2. \A p \in avoided : p \in Unhealthy
  BY DEF ChoosingInv, Unhealthy
<1>3. Usable \subseteq req.models /\ \A c \in Usable : c[1] \notin Unhealthy
  BY DEF Usable
<1>4. req.models \subseteq Pairs
  BY DEF RouteTyped, Requests
<1>5. QED
  BY <1>1, <1>2, <1>3, <1>4

LEMMA SelectKeeps ==
  ASSUME CatalogAssumption, HealthAssumption, RoutingAssumption, RouteTyped, RouteInv,
         Select, UNCHANGED vars
  PROVE  RouteTyped' /\ RouteInv'
<1>1. /\ req.step = "select" /\ req \in Requests
      /\ steady' = steady /\ avoided' = avoided /\ off' = off /\ bare' = bare
  BY DEF Select, routeHistory, RouteTyped
<1>2. ChoosingInv
  BY <1>1 DEF RouteInv, Choosing
<1>3. /\ Fit \subseteq Usable /\ Usable \in SUBSET Pairs /\ Usable \subseteq req.models
      /\ \A c \in Usable : c[1] \notin avoided
  BY <1>1, <1>2, FitIsUsable
<1>4. /\ enabled' = enabled /\ broken' = broken /\ off \cap enabled = {} /\ req.all = {} /\ req.called = {} /\ req.todo = {}
      /\ ~bare => ProvidersOf(req.models) \cap off = {}
  <2>1. ProvidersOf({}) = {}
    BY DEF ProvidersOf
  <2>2. QED
    BY <1>2, <2>1, RegistryStays DEF RouteInv, ChoosingInv, RouteTyped
<1>5. CASE /\ SelectModel = {}
           /\ req' = [req EXCEPT !.step = "refused", !.models = {}, !.asked = {}]
  <2>1. /\ req' \in Requests /\ req'.step = "refused" /\ req'.all = {} /\ req'.todo = {}
        /\ req'.called = {} /\ req'.able = req.able
    BY <1>1, <1>4, <1>5 DEF Requests
  <2>2. Usable = {}
    BY <1>5 DEF SelectModel
  <2>3. Fit' = {}
    BY <1>1, <1>3, <2>1, <2>2 DEF Fit
  <2>4. SelectsWell' /\ AvoidsUnhealthy'
    BY <2>1, <2>3 DEF SelectsWell, AvoidsUnhealthy, ProvidersOf
  <2>5. Cardinality(req'.all) <= Attempts
    BY <1>4, <2>1 DEF RouteTyped
  <2>6. RouteTyped'
    BY <1>1, <2>1, <2>5 DEF RouteTyped, Looping
  <2>7. QED
    BY <1>1, <1>4, <2>1, <2>4, <2>6 DEF RouteInv, Choosing, ProvidersOf
<1>6. ASSUME NEW selected \in SelectModel, NEW others \in CandidatesFor(selected),
             req' = [req EXCEPT !.step = "look", !.models = {}, !.asked = {},
                                !.first = selected, !.all = {selected} \cup others,
                                !.now = selected, !.todo = others]
      PROVE  RouteTyped' /\ RouteInv'
  <2>1. selected \in Usable /\ selected \in Pairs
    BY <1>3 DEF SelectModel
  <2> DEFINE O == {c \in Usable : c[1] # selected[1] /\ (req.embedding => c[2] = selected[2])}
             A == {c \in Fit : req.embedding => c[2] = selected[2]} \cup {selected}
  <2>2. O \in SUBSET Usable /\ A \in SUBSET Pairs
    BY <1>3, <2>1
  <2>3. PICK n : n = Min({Attempts - 1, Cardinality(ProvidersOf(O))})
    OBVIOUS
  <2>4. others \in Picks(O, n)
    BY <1>6, <2>3 DEF CandidatesFor
  <2>5. /\ others \subseteq O
        /\ Cardinality({selected} \cup others) <= Attempts
        /\ Cardinality({selected} \cup others) >= Min({Attempts, Cardinality(ProvidersOf(A))})
    <3>1. \A c \in A : c = selected \/ c[1] = selected[1] \/ c \in O
      BY <1>3
    <3>2. O \in SUBSET Pairs /\ \A c \in O : c[1] # selected[1]
      BY <1>3
    <3> HIDE DEF O, A
    <3>3. QED
      BY <2>1, <2>2, <2>3, <2>4, <3>1, <3>2, CandidatesCount
  <2>6. /\ req' \in Requests /\ req'.step = "look" /\ req'.first = selected /\ req'.now = selected
        /\ req'.all = {selected} \cup others /\ req'.todo = others /\ req'.called = {}
        /\ req'.wanted = req.wanted /\ req'.able = req.able /\ req'.embedding = req.embedding
    BY <1>1, <1>3, <1>4, <1>6, <2>1, <2>2, <2>5 DEF Requests
  <2>7. \A c \in req'.all : c \in Usable
    BY <2>1, <2>2, <2>5, <2>6
  <2>8. AvoidsUnhealthy'
    BY <1>1, <1>3, <2>7 DEF AvoidsUnhealthy, ProvidersOf
  <2>9. ~bare => ProvidersOf(req'.all) \cap off = {}
    BY <1>3, <1>4, <2>7 DEF ProvidersOf
  <2>10. SelectsWell'
    <3>1. Fit' = Fit
      BY <1>1, <2>6 DEF Fit
    <3>2. req.wanted \in Fit => selected = req.wanted
      BY <1>3 DEF SelectModel
    <3>3. {c \in Fit' : req'.embedding => c[2] = req'.first[2]} \cup {req'.first} = A
      BY <2>6, <3>1
    <3>4. QED
      BY <2>5, <2>6, <3>1, <3>2, <3>3 DEF SelectsWell, ProvidersOf
  <2>11. RouteTyped'
    <3>1. Cardinality(req'.all) <= Attempts
      BY <2>5, <2>6
    <3>2. QED
      BY <1>1, <2>6, <3>1 DEF RouteTyped, Looping
  <2>12. QED
    BY <1>1, <1>4, <2>6, <2>8, <2>9, <2>10, <2>11 DEF RouteInv, Choosing, ProvidersOf
<1>7. QED
  BY <1>5, <1>6 DEF Select

-----------------------------------------------------------------------------
(* The attempts *)

\* A step of an attempt leaves what was selected, and the history, as they are; a
\* provider that it will call, or has called, has not been disabled all along, or is
\* built in.
LEMMA AttemptKeeps ==
  ASSUME RouteTyped, RouteInv, Looping, UNCHANGED vars, UNCHANGED routeHistory,
         req' \in Requests, req'.step \in {"look", "relook", "call", "called", "over"},
         req'.all = req.all, req'.first = req.first, req'.wanted = req.wanted, req'.able = req.able,
         req'.embedding = req.embedding, req'.todo \subseteq req.todo,
         req'.step # "over" => req'.now \in req.all,
         req'.called \subseteq ProvidersOf(req.all),
         req'.called \cap off \subseteq Builtin,
         req'.step = "call" /\ req'.now[1] \in off => req'.now[1] \in Builtin
  PROVE  RouteTyped' /\ RouteInv'
<1>1. /\ steady' = steady /\ avoided' = avoided /\ off' = off /\ bare' = bare /\ enabled' = enabled /\ broken' = broken
  BY RegistryStays DEF routeHistory
<1>2. RouteTyped'
  BY <1>1 DEF RouteTyped, Looping, ProvidersOf
<1>3. Fit' = Fit
  BY <1>1 DEF Fit
<1>4. SelectsWell' /\ AvoidsUnhealthy'
  <2>1. SelectsWell /\ AvoidsUnhealthy
    BY DEF RouteInv
  <2>2. req'.step # "refused"
    OBVIOUS
  <2>3. QED
    BY <1>1, <1>3, <2>1, <2>2 DEF SelectsWell, AvoidsUnhealthy, ProvidersOf
<1>5. QED
  BY <1>1, <1>2, <1>4 DEF RouteInv, Choosing, ProvidersOf

LEMMA NextCandidateKeeps ==
  ASSUME RouteTyped, RouteInv, Looping, UNCHANGED vars, UNCHANGED routeHistory, NextCandidate
  PROVE  RouteTyped' /\ RouteInv'
<1>1. /\ req \in Requests /\ req.todo \subseteq req.all /\ req.called \subseteq ProvidersOf(req.all)
      /\ req.called \cap off \subseteq Builtin
  BY DEF RouteTyped, RouteInv
<1>2. ASSUME NEW c \in req.todo,
             req' = [req EXCEPT !.step = "look", !.now = c, !.todo = @ \ {c}]
      PROVE  RouteTyped' /\ RouteInv'
  <2>1. /\ req' \in Requests /\ req'.step = "look" /\ req'.now = c /\ req'.todo = req.todo \ {c}
        /\ req'.all = req.all /\ req'.first = req.first /\ req'.wanted = req.wanted
        /\ req'.able = req.able /\ req'.embedding = req.embedding /\ req'.called = req.called
    BY <1>1, <1>2 DEF Requests
  <2>2. QED
    BY <1>1, <2>1, AttemptKeeps
<1>3. CASE req' = [req EXCEPT !.step = "over"]
  <2>1. /\ req' \in Requests /\ req'.step = "over" /\ req'.todo = req.todo
        /\ req'.all = req.all /\ req'.first = req.first /\ req'.wanted = req.wanted
        /\ req'.able = req.able /\ req'.embedding = req.embedding /\ req'.called = req.called
    BY <1>1, <1>3 DEF Requests
  <2>2. QED
    BY <1>1, <2>1, AttemptKeeps
<1>4. QED
  BY <1>2, <1>3 DEF NextCandidate

LEMMA LookKeeps ==
  ASSUME RouteTyped, RouteInv, Look, UNCHANGED vars
  PROVE  RouteTyped' /\ RouteInv'
<1>1. /\ req.step = "look" /\ req \in Requests /\ req.now \in req.all
      /\ req' = [req EXCEPT !.step = IF req.now[1] \in Served(enabled) THEN "call" ELSE "relook"]
      /\ UNCHANGED routeHistory
  BY DEF Look, RouteTyped, Looping
<1>2. /\ req' \in Requests /\ req'.step = IF req.now[1] \in Served(enabled) THEN "call" ELSE "relook"
      /\ req'.todo = req.todo /\ req'.now = req.now
      /\ req'.all = req.all /\ req'.first = req.first /\ req'.wanted = req.wanted
      /\ req'.able = req.able /\ req'.embedding = req.embedding /\ req'.called = req.called
  BY <1>1 DEF Requests
<1>3. req.called \subseteq ProvidersOf(req.all) /\ req.called \cap off \subseteq Builtin
  BY DEF RouteTyped, RouteInv
<1>4. req'.step = "call" => req'.now[1] \notin off
  BY <1>2 DEF RouteInv, Served
<1>5. QED
  BY <1>1, <1>2, <1>3, <1>4, AttemptKeeps DEF Looping

LEMMA RelookKeeps ==
  ASSUME RouteTyped, RouteInv, Relook, UNCHANGED vars
  PROVE  RouteTyped' /\ RouteInv'
<1>1. /\ req.step = "relook" /\ req \in Requests /\ req.now \in req.all
      /\ UNCHANGED routeHistory
  BY DEF Relook, RouteTyped, Looping
<1>2. CASE req.now[1] \in Builtin \ enabled /\ req' = [req EXCEPT !.step = "call"]
  <2>1. /\ req' \in Requests /\ req'.step = "call" /\ req'.todo = req.todo /\ req'.now = req.now
        /\ req'.all = req.all /\ req'.first = req.first /\ req'.wanted = req.wanted
        /\ req'.able = req.able /\ req'.embedding = req.embedding /\ req'.called = req.called
    BY <1>1, <1>2 DEF Requests
  <2>2. req.called \subseteq ProvidersOf(req.all) /\ req.called \cap off \subseteq Builtin
    BY DEF RouteTyped, RouteInv
  <2>3. QED
    BY <1>1, <1>2, <2>1, <2>2, AttemptKeeps DEF Looping
<1>3. CASE NextCandidate
  BY <1>1, <1>3, NextCandidateKeeps DEF Looping
<1>4. QED
  BY <1>2, <1>3 DEF Relook

LEMMA CallKeeps ==
  ASSUME CatalogAssumption, HealthAssumption, RoutingAssumption, RouteTyped, RouteInv, Call, UNCHANGED vars
  PROVE  RouteTyped' /\ RouteInv'
<1>1. /\ req.step = "call" /\ req \in Requests /\ req.now \in req.all
      /\ req' = [req EXCEPT !.step = "called", !.called = @ \cup {req.now[1]}]
      /\ UNCHANGED routeHistory
  BY DEF Call, RouteTyped, Looping
<1>2. req.now \in Pairs /\ req.now[1] \in Names /\ req.now[1] \in ProvidersOf(req.all)
  BY <1>1, PairsFacts DEF Requests, ProvidersOf
<1>3. /\ req' \in Requests /\ req'.step = "called" /\ req'.todo = req.todo /\ req'.now = req.now
      /\ req'.all = req.all /\ req'.first = req.first /\ req'.wanted = req.wanted
      /\ req'.able = req.able /\ req'.embedding = req.embedding
      /\ req'.called = req.called \cup {req.now[1]}
  BY <1>1, <1>2 DEF Requests
<1>4. /\ req.called \subseteq ProvidersOf(req.all) /\ req.called \cap off \subseteq Builtin
      /\ req.now[1] \in off => req.now[1] \in Builtin
  BY <1>1 DEF RouteTyped, RouteInv
<1>5. QED
  BY <1>1, <1>2, <1>3, <1>4, AttemptKeeps DEF Looping

LEMMA AnsweredKeeps ==
  ASSUME RouteTyped, RouteInv, Answered, UNCHANGED vars
  PROVE  RouteTyped' /\ RouteInv'
<1>1. /\ req.step = "called" /\ req \in Requests /\ req.now \in req.all
      /\ req' = [req EXCEPT !.step = "over", !.todo = {}]
      /\ UNCHANGED routeHistory
  BY DEF Answered, RouteTyped, Looping
<1>2. /\ req' \in Requests /\ req'.step = "over" /\ req'.todo = {}
      /\ req'.all = req.all /\ req'.first = req.first /\ req'.wanted = req.wanted
      /\ req'.able = req.able /\ req'.embedding = req.embedding /\ req'.called = req.called
  BY <1>1 DEF Requests
<1>3. req.called \subseteq ProvidersOf(req.all) /\ req.called \cap off \subseteq Builtin
  BY DEF RouteTyped, RouteInv
<1>4. QED
  BY <1>1, <1>2, <1>3, AttemptKeeps DEF Looping

LEMMA CallFailsKeeps ==
  ASSUME RouteTyped, RouteInv, CallFails, UNCHANGED vars
  PROVE  RouteTyped' /\ RouteInv'
BY NextCandidateKeeps DEF CallFails, Looping

-----------------------------------------------------------------------------
(* What the registry does meanwhile *)

LEMMA MeanwhileKeeps ==
  ASSUME RouteTyped, RouteInv, Meanwhile
  PROVE  RouteTyped' /\ RouteInv'
<1>1. req' = req /\ Observe
  BY DEF Meanwhile
<1>2. /\ steady' \subseteq steady /\ avoided' \subseteq avoided /\ off' \subseteq off
      /\ off' \cap enabled' = {} /\ bare' \in BOOLEAN /\ (bare => bare')
      /\ ~Choosing => steady' = steady /\ avoided' = avoided /\ bare' = bare
  BY DEF Meanwhile, Observe, Choosing, RouteTyped
<1>3. RouteTyped'
  BY <1>1, <1>2 DEF RouteTyped, Looping, ProvidersOf
<1>4. ASSUME Choosing
      PROVE  ChoosingInv'
  <2>1. ChoosingInv
    BY <1>4 DEF RouteInv
  <2>2. /\ steady' \subseteq Current(CheckedIn)' /\ \A c \in steady' : ~Avoided(c[1])'
        /\ avoided' \subseteq ProvidersOf(Current(CheckedIn)') /\ \A p \in avoided' : Avoided(p)'
        /\ (Rows = {})' => bare'
    BY <1>1, <1>4 DEF Observe, Choosing
  <2>3. ~bare' => ProvidersOf(req'.models) \cap off' = {}
    BY <1>1, <1>2, <2>1 DEF ChoosingInv
  <2>4. /\ steady' \subseteq req'.models /\ req'.all = {}
        /\ req'.step = "select" => avoided' \subseteq req'.asked
    BY <1>1, <1>2, <2>1 DEF ChoosingInv
  <2>5. QED
    BY <2>2, <2>3, <2>4 DEF ChoosingInv, ProvidersOf
<1>5. SelectsWell' /\ AvoidsUnhealthy'
  <2>1. CASE Choosing
    <3>1. req'.all = {} /\ req'.step # "refused"
      BY <1>1, <2>1 DEF RouteInv, ChoosingInv, Choosing
    <3>2. QED
      BY <3>1 DEF SelectsWell, AvoidsUnhealthy, ProvidersOf
  <2>2. CASE ~Choosing
    BY <1>1, <1>2, <2>2 DEF RouteInv, SelectsWell, AvoidsUnhealthy, ProvidersOf, Fit
  <2>3. QED
    BY <2>1, <2>2
<1>6. /\ ~bare' => ProvidersOf(req'.all) \cap off' = {}
      /\ req'.step = "call" /\ req'.now[1] \in off' => req'.now[1] \in Builtin
      /\ req'.called \cap off' \subseteq Builtin
  BY <1>1, <1>2 DEF RouteInv
<1>7. Choosing' => Choosing
  BY <1>1 DEF Choosing
<1>8. QED
  BY <1>2, <1>3, <1>4, <1>5, <1>6, <1>7 DEF RouteInv, ProvidersOf

-----------------------------------------------------------------------------
(* Routing *)

LEMMA RoutingStep ==
  ASSUME CatalogAssumption, HealthAssumption, RoutingAssumption, RoutingInv, [RoutingNext]_<<vars, routeVars>>
  PROVE  RoutingInv'
<1>1. CatalogInv /\ RouteTyped /\ RouteInv /\ enabled \subseteq Names
  BY DEF RoutingInv, CatalogInv, RefreshTyped
<1>2. CASE Route /\ UNCHANGED vars
  <2>1. CatalogInv'
    BY <1>1, <1>2, CatalogStep
  <2>2. RouteTyped' /\ RouteInv'
    BY <1>1, <1>2, ArriveKeeps, List2Keeps, AskKeeps, SelectKeeps, LookKeeps, RelookKeeps, CallKeeps,
       AnsweredKeeps, CallFailsKeeps DEF Route
  <2>3. QED
    BY <2>1, <2>2 DEF RoutingInv
<1>3. CASE Meanwhile
  <2>1. CatalogInv'
    BY <1>1, <1>3, CatalogStep DEF Meanwhile
  <2>2. QED
    BY <1>1, <1>3, <2>1, MeanwhileKeeps DEF RoutingInv
<1>4. CASE UNCHANGED <<vars, routeVars>>
  <2>1. CatalogInv'
    BY <1>1, <1>4, CatalogStep
  <2>2. /\ req' = req /\ steady' = steady /\ avoided' = avoided /\ off' = off /\ bare' = bare
        /\ UNCHANGED vars
    BY <1>4 DEF routeVars, routeHistory
  <2>3. /\ enabled' = enabled /\ broken' = broken /\ ((Rows = {})' <=> Rows = {})
        /\ Current(CheckedIn)' = Current(CheckedIn) /\ \A p : Avoided(p)' <=> Avoided(p)
    BY <2>2, RegistryStays
  <2>4. RouteTyped'
    BY <1>1, <2>2 DEF RouteTyped, Looping, ProvidersOf
  <2>5. Choosing => ChoosingInv'
    BY <1>1, <2>2, <2>3 DEF RouteInv, ChoosingInv, ProvidersOf
  <2>6. SelectsWell' /\ AvoidsUnhealthy'
    BY <1>1, <2>2 DEF RouteInv, SelectsWell, AvoidsUnhealthy, ProvidersOf, Fit
  <2>7. RouteInv'
    BY <1>1, <2>2, <2>3, <2>5, <2>6 DEF RouteInv, Choosing, ProvidersOf
  <2>8. QED
    BY <2>1, <2>4, <2>7 DEF RoutingInv
<1>5. QED
  BY <1>2, <1>3, <1>4 DEF RoutingNext

\* The inductive invariant of a request over the registry holds, whatever the registry
\* does meanwhile (index.ts run, router.ts, state.ts, providers.ts).
THEOREM RoutingInvariant == RoutingSpec => []RoutingInv
<1>1. RoutingInit => RoutingInv
  BY CatalogInit, RouteTypedInit, CatalogAssumption, HealthAssumption, RoutingAssumption DEF RoutingInit, RoutingInv
<1>2. RoutingInv /\ [RoutingNext]_<<vars, routeVars>> => RoutingInv'
  BY RoutingStep, CatalogAssumption, HealthAssumption, RoutingAssumption
<1>3. QED
  BY <1>1, <1>2, PTL DEF RoutingSpec

\* The variables of the registry and of the request keep their types, and there are no
\* more candidates than the plan allows (index.ts candidatesFor).
THEOREM RoutingTypes == RoutingSpec => []RouteTypeOK
<1>1. RoutingInv => RouteTypeOK
  <2>1. SUFFICES ASSUME RoutingInv
                 PROVE  RouteTypeOK
    OBVIOUS
  <2>2. TypeOK /\ RouteTyped
    BY <2>1, CatalogTypeOK DEF RoutingInv
  <2>3. QED
    BY <2>2 DEF RouteTypeOK, RouteTyped, Requests
<1>2. QED
  BY <1>1, RoutingInvariant, PTL

\* While the registry changes under it, a request is refused only if no model would have
\* done all along, has the model it asks for first if that would, and as many candidates
\* as its plan allows; none of a provider that was avoided all along; and calls no
\* provider disabled since before it came, but for a built-in one when the registry was
\* bare (router.ts selectModel, index.ts candidatesFor, activeModels, state.ts
\* unhealthyProviders, providers.ts callRegisteredProvider).
THEOREM RoutingKeepsPromises == RoutingSpec => []RoutingHolds
<1>1. RoutingInv => RoutingHolds
  <2>1. SUFFICES ASSUME RoutingInv
                 PROVE  RoutingHolds
    OBVIOUS
  <2>2. RouteInv /\ req.called \subseteq ProvidersOf(req.all) /\ bare \in BOOLEAN
    BY <2>1 DEF RoutingInv, RouteTyped
  <2>3. DisabledAtRest
    <3>1. CASE bare
      BY <2>2, <3>1 DEF RouteInv, DisabledAtRest
    <3>2. CASE ~bare
      BY <2>2, <3>2 DEF RouteInv, DisabledAtRest
    <3>3. QED
      BY <3>1, <3>2
  <2>4. QED
    BY <2>2, <2>3 DEF RouteInv, RoutingHolds
<1>2. QED
  BY <1>1, RoutingInvariant, PTL
=============================================================================
