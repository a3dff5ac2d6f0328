------------------------------ MODULE ModelRefresh ------------------------------
(***************************************************************************)
(* The daily refresh of the model rows: refreshProviderModels              *)
(* (apps/worker/src/probe.ts) pages through the enabled providers in the   *)
(* order of their names, from a cursor kept in KV, a pool of workers per   *)
(* page; refreshModels (services/provider-registry.ts) replaces the rows   *)
(* of one provider in two writes.  An admin refreshes a provider, enables  *)
(* or disables it, and edits its settings, at any time                     *)
(* (admin-providers.ts).  With some settings no adapter can be built for   *)
(* it (createProviderAdapter of providers/factory.ts: a secret that is     *)
(* missing, a URL that is not allowed), and it is skipped.                 *)
(*                                                                         *)
(* Names are numbers, 0 stands for no cursor.  The maintenance lease keeps *)
(* two daily refreshes apart (MaintenanceLease).                           *)
(***************************************************************************)
EXTENDS Integers, FiniteSets, FiniteSetsExt

CONSTANTS
    Names,        \* names of the providers
    Lists,        \* the lists of models a provider may return
    PageSize,     \* PROVIDER_BATCH_SIZE
    PagesPerRun,  \* pages of one daily run
    Workers,      \* PROBE_CONCURRENCY of them
    Admins

ASSUME CatalogAssumption ==
    /\ Names \subseteq Nat \ {0} /\ IsFiniteSet(Names)
    /\ PageSize \in Nat \ {0} /\ PagesPerRun \in Nat \ {0}
    /\ Workers \cap Admins = {}
    \* getModels refuses an empty list
    /\ {} \notin Lists

VARIABLES
    enabled,  \* providers.is_enabled
    broken,   \* providers that createProviderAdapter returns null for
    live,     \* the models of a provider whose row is not deprecated
    cursor,   \* provider:catalog:cursor
    sweep,    \* the daily run
    job,      \* a refreshModels call of a worker or an admin
    due,      \* history: enabled with an adapter since the cursor was last reset, and not
              \* refreshed since
    group     \* history: the lists of the last refreshes whose writes crossed

refreshVars == <<live, cursor, sweep, job, due, group>>

Models == UNION Lists
Refreshers == Workers \cup Admins

NoJob == [step |-> "none", of |-> 0, list |-> {}]
Asleep == [at |-> "idle", left |-> {}, page |-> 0, next |-> 0, more |-> FALSE, failed |-> FALSE]

-----------------------------------------------------------------------------
(* A page of the registry *)

After(c) == {p \in enabled : p > c}

\* Fault: the page holds the row that only shows there are more.
PageUncut(c) == {p \in After(c) : Cardinality({q \in After(c) : q <= p}) <= PageSize + 1}

\* getEnabledProviderBatch: the rows of the first names after the cursor.
Page(c) == {p \in After(c) : Cardinality({q \in After(c) : q <= p}) <= PageSize}

\* Those that have an adapter.
Served(ps) == ps \ broken

More(c) == Page(c) # After(c)

\* Fault: the cursor is the name of the row that only shows there are more.
NextCursorPastIt(c) == IF More(c) THEN Min(After(c) \ Page(c)) ELSE 0

\* Fault: the cursor is not reset at the end.
NextCursorStays(c) == IF More(c) THEN Max(Page(c)) ELSE c

NextCursor(c) == IF More(c) THEN Max(Page(c)) ELSE 0

\* The cursor goes by the rows, skipped ones too.
ReadPage(c, n) ==
    [at |-> "page", left |-> Served(Page(c)), page |-> n, next |-> NextCursor(c),
     more |-> More(c), failed |-> FALSE]

-----------------------------------------------------------------------------
(* The daily run *)

RefreshInit ==
    /\ enabled \in SUBSET Names /\ broken \in SUBSET Names
    /\ live = [p \in Names |-> {}]
    /\ cursor = 0 /\ sweep = Asleep
    /\ job = [r \in Refreshers |-> NoJob]
    /\ due = Served(enabled)
    /\ group = [p \in Names |-> [lists |-> {}, old |-> {}]]

StartRun ==
    /\ sweep.at \in {"idle", "dead"}
    /\ sweep' = ReadPage(cursor, 1)
    /\ UNCHANGED <<enabled, broken, live, cursor, job, due, group>>

\* mapWithConcurrency: a worker that is free takes the next provider.  refreshModels
\* throws if it has lost its adapter meanwhile.
Take(w) ==
    /\ sweep.at = "page" /\ sweep.left # {} /\ job[w] = NoJob
    /\ LET p == Min(sweep.left)
           rest == [sweep EXCEPT !.left = @ \ {p}]
       IN  \/ /\ p \in broken /\ sweep' = [rest EXCEPT !.failed = TRUE] /\ UNCHANGED job
           \/ /\ p \notin broken /\ sweep' = rest
              /\ job' = [job EXCEPT ![w] = [NoJob EXCEPT !.step = "list", !.of = p]]
    /\ UNCHANGED <<enabled, broken, live, cursor, due, group>>

\* A run goes on with the next page, and ends when there is none or it has done enough.
NextPage ==
    IF sweep.more /\ sweep.page < PagesPerRun THEN ReadPage(sweep.next, sweep.page + 1) ELSE Asleep

\* The page is done; one that failed ends the run and leaves the cursor.
PageEnds ==
    /\ sweep.at = "page" /\ sweep.left = {} /\ \A w \in Workers : job[w] = NoJob
    /\ \/ sweep.failed /\ sweep' = Asleep /\ UNCHANGED <<cursor, due>>
       \/ /\ ~sweep.failed
          /\ sweep' = NextPage /\ cursor' = sweep.next
          /\ due' = IF sweep.more THEN due ELSE Served(enabled)
    /\ UNCHANGED <<enabled, broken, live, job, group>>

\* The Worker goes away in the middle of a run.
RunDies ==
    /\ sweep.at = "page"
    /\ sweep' = [Asleep EXCEPT !.at = "dead"]
    /\ job' = [r \in Refreshers |-> IF r \in Workers THEN NoJob ELSE job[r]]
    /\ UNCHANGED <<enabled, broken, live, cursor, due, group>>

-----------------------------------------------------------------------------
(* refreshModels of one provider *)

\* adapter.getModels answers.
List(r, list) ==
    /\ job[r].step = "list"
    /\ job' = [job EXCEPT ![r].step = "upsert", ![r].list = list]
    /\ UNCHANGED <<enabled, broken, live, cursor, sweep, due, group>>

Crossing(r) == {q \in Refreshers \ {r} : job[q].step = "deprecate" /\ job[q].of = job[r].of}

\* The batch of inserts, each of which brings a row back.
Upsert(r) ==
    /\ job[r].step = "upsert"
    /\ LET p == job[r].of
           g == IF Crossing(r) = {} THEN [lists |-> {}, old |-> live[p]] ELSE group[p]
       IN  /\ live' = [live EXCEPT ![p] = @ \cup job[r].list]
           /\ group' = [group EXCEPT ![p] = [g EXCEPT !.lists = @ \cup {job[r].list}]]
    /\ job' = [job EXCEPT ![r].step = "deprecate"]
    /\ UNCHANGED <<enabled, broken, cursor, sweep, due>>

\* Fault: as for an empty list.
DeprecateAll(r) ==
    /\ job[r].step = "deprecate"
    /\ LET p == job[r].of
       IN  /\ live' = [live EXCEPT ![p] = {}]
           /\ group' = [group EXCEPT ![p].old = {}]
           /\ due' = IF r \in Workers THEN due \ {p} ELSE due
    /\ job' = [job EXCEPT ![r] = NoJob]
    /\ UNCHANGED <<enabled, broken, cursor, sweep>>

\* The update of the rows that are not in the list.
Deprecate(r) ==
    /\ job[r].step = "deprecate"
    /\ LET p == job[r].of
       IN  /\ live' = [live EXCEPT ![p] = @ \cap job[r].list]
           /\ group' = [group EXCEPT ![p].old = @ \cap job[r].list]
           /\ due' = IF r \in Workers THEN due \ {p} ELSE due
    /\ job' = [job EXCEPT ![r] = NoJob]
    /\ UNCHANGED <<enabled, broken, cursor, sweep>>

\* getModels or a write throws; a worker takes note of it.
Fail(r) ==
    /\ job[r] # NoJob
    /\ job' = [job EXCEPT ![r] = NoJob]
    /\ sweep' = IF r \in Workers THEN [sweep EXCEPT !.failed = TRUE] ELSE sweep
    /\ UNCHANGED <<enabled, broken, live, cursor, due, group>>

\* getProvider finds no provider without an adapter.
AdminRefresh(a, p) ==
    /\ job[a] = NoJob /\ p \notin broken
    /\ job' = [job EXCEPT ![a] = [NoJob EXCEPT !.step = "list", !.of = p]]
    /\ UNCHANGED <<enabled, broken, live, cursor, sweep, due, group>>

Flip(ps, p) == (ps \ {p}) \cup ({p} \ ps)

\* PATCH of is_enabled, or of what the adapter is built from, as far as the refresh is
\* concerned.
EditRefresh(p) ==
    /\ \/ enabled' = Flip(enabled, p) /\ UNCHANGED broken
       \/ broken' = Flip(broken, p) /\ UNCHANGED enabled
    /\ due' = due \ {p}
    /\ UNCHANGED <<live, cursor, sweep, job, group>>

RefreshJob(r) == (\E list \in Lists : List(r, list)) \/ Upsert(r) \/ Deprecate(r)

RefreshNext ==
    \/ StartRun \/ PageEnds \/ RunDies
    \/ \E w \in Workers : Take(w)
    \/ \E r \in Refreshers : RefreshJob(r) \/ Fail(r)
    \/ \E a \in Admins, p \in Names : AdminRefresh(a, p)

-----------------------------------------------------------------------------
RefreshTypeOK ==
    /\ enabled \subseteq Names /\ broken \subseteq Names /\ due \subseteq Served(enabled)
    /\ \A p \in Names : live[p] \subseteq Models
    /\ cursor \in Names \cup {0}
    /\ sweep.at \in {"idle", "page", "dead"} /\ sweep.left \subseteq Names
    /\ Cardinality(sweep.left) <= PageSize /\ sweep.page \in 0..PagesPerRun
    /\ \A r \in Refreshers :
        /\ job[r].step \in {"none", "list", "upsert", "deprecate"}
        /\ job[r].step # "none" => job[r].of \in Names
        /\ job[r].step \in {"upsert", "deprecate"} => job[r].list \in Lists
        /\ r \in Workers /\ job[r] # NoJob => sweep.at = "page"

\* Whatever refreshes of a provider cross and fail, a model that all of their lists
\* hold is routed all along, and none is that is in no list, unless it was before and
\* no deprecation has run since.  So one refresh alone leaves the rows of its list,
\* and crossing ones can leave a provider without a model only if their lists have
\* none in common (provider-registry.ts refreshModels, its two writes).
RowsAccounted ==
    \A p \in Names : LET g == group[p] IN
        /\ \A m \in Models : g.lists # {} /\ (\A l \in g.lists : m \in l) => m \in live[p]
        /\ live[p] \subseteq (UNION g.lists) \cup g.old

\* A run that did the last page, and no refresh of it failed.
StartsOver ==
    sweep.at = "page" /\ ~sweep.more /\ ~sweep.failed /\ sweep'.at = "idle"

\* A sweep ends only when every provider that was enabled, with an adapter, all through
\* it was refreshed in it: none is lost between two pages, between two runs, to a
\* failure, to a Worker that died, or to the providers around it being enabled, disabled
\* or skipped for want of an adapter (probe.ts refreshProviderModels,
\* getEnabledProviderBatch).
SweepCompletes == [][StartsOver => due = {}]_<<enabled, broken, refreshVars>>

\* Sweep after sweep, every provider that stays enabled and keeps its adapter is
\* refreshed, if from some time on no refresh fails and no run dies.  (A provider that
\* goes on failing keeps the cursor at its page, and those of all other pages wait.  One
\* that is enabled but has no adapter is skipped sweep after sweep.)
EveryProviderRefreshed ==
    <>[](~sweep.failed /\ sweep.at # "dead") =>
        []<>(due = {}) /\ []<>(due # {} \/ Served(enabled) = {})
=============================================================================
