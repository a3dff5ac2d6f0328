-------------------------------- MODULE Catalog --------------------------------
(***************************************************************************)
(* The provider registry under its two cron triggers and its admins: the   *)
(* daily refresh (ModelRefresh), and the hourly probe of one page of       *)
(* providers, whose records in KV decide which providers requests avoid    *)
(* (apps/worker/src/probe.ts, services/provider-registry.ts, state.ts).    *)
(*                                                                         *)
(* A record expires `ttl` ticks after it was written.  A probe takes       *)
(* seconds where a tick is 15 minutes, so time stands still during one.    *)
(***************************************************************************)
EXTENDS ModelRefresh

CONSTANTS
    Builtin,  \* providers of the checked-in catalog
    Short,    \* life of a record updateHealth writes: 900 s
    Long      \* HEALTH_TTL_SECONDS and the age up to which a record counts: 6 h

ASSUME HealthAssumption ==
    /\ Builtin \subseteq Names
    /\ Short \in Nat \ {0} /\ Long \in Nat /\ Short < Long

VARIABLES
    record,    \* health:<name>: its status, "none" if there is none, and its life
    hcursor,   \* provider:probe:cursor
    probe,     \* the hourly run
    check,     \* a check of a worker or an admin
    hdue,      \* history: as due, since hcursor was last reset, and not checked since
    verdict    \* history: what the last check found, who made it, and how long ago

healthVars == <<record, hcursor, probe, check, hdue, verdict>>
vars == <<enabled, broken, refreshVars, healthVars>>

NoCheck == [step |-> "none", of |-> 0, found |-> "none"]
NoRecord == [status |-> "none", ttl |-> 0]
Unjudged == [found |-> "none", by |-> "nobody", age |-> 0]
NoProbe == [at |-> "idle", left |-> {}, next |-> 0, others |-> {}, more |-> FALSE]

Init ==
    /\ RefreshInit
    /\ record = [p \in Names |-> NoRecord]
    /\ hcursor = 0 /\ probe = NoProbe
    /\ check = [r \in Refreshers |-> NoCheck]
    /\ hdue = Served(enabled)
    /\ verdict = [p \in Names |-> Unjudged]

-----------------------------------------------------------------------------
(* The hourly run *)

\* The providers of the page, then those of the catalog that are not among them, one
\* that was skipped for want of an adapter included.
ProbeStarts ==
    /\ probe.at \in {"idle", "dead"}
    /\ LET page == Served(Page(hcursor)) IN
        probe' = [at |-> "page", left |-> page, next |-> NextCursor(hcursor),
                  others |-> Builtin \ page, more |-> More(hcursor)]
    /\ UNCHANGED <<enabled, broken, refreshVars, record, hcursor, check, hdue, verdict>>

FreeWorkers == \A w \in Workers : check[w] = NoCheck

\* The pool has done the page, and goes on with the others.
ProbeOthers ==
    /\ probe.at = "page" /\ probe.left = {} /\ FreeWorkers
    /\ probe' = [probe EXCEPT !.at = "others", !.left = probe.others]
    /\ UNCHANGED <<enabled, broken, refreshVars, record, hcursor, check, hdue, verdict>>

\* checkHealth for a provider of the page, probeProvider for the others.
ProbeTake(w) ==
    /\ probe.at \in {"page", "others"} /\ probe.left # {} /\ check[w] = NoCheck
    /\ check' = [check EXCEPT ![w] = [step |-> probe.at, of |-> Min(probe.left), found |-> "none"]]
    /\ probe' = [probe EXCEPT !.left = @ \ {Min(@)}]
    /\ UNCHANGED <<enabled, broken, refreshVars, record, hcursor, hdue, verdict>>

\* Fault: the cursor is not written.
ProbeEndsHere ==
    /\ probe.at = "others" /\ probe.left = {} /\ FreeWorkers
    /\ probe' = NoProbe
    /\ hdue' = IF probe.more THEN hdue ELSE Served(enabled)
    /\ UNCHANGED <<enabled, broken, refreshVars, record, hcursor, check, verdict>>

ProbeEnds ==
    /\ probe.at = "others" /\ probe.left = {} /\ FreeWorkers
    /\ probe' = NoProbe /\ hcursor' = probe.next
    /\ hdue' = IF probe.more THEN hdue ELSE Served(enabled)
    /\ UNCHANGED <<enabled, broken, refreshVars, record, check, verdict>>

\* The Worker goes away, or the KV namespace fails where nothing catches it.
ProbeDies ==
    /\ probe.at \in {"page", "others"}
    /\ probe' = [NoProbe EXCEPT !.at = "dead"]
    /\ check' = [r \in Refreshers |-> IF r \in Workers THEN NoCheck ELSE check[r]]
    /\ verdict' = [p \in Names |-> IF \E w \in Workers : check[w].of = p /\ check[w].found # "none"
                                   THEN [verdict[p] EXCEPT !.by = "unsaved"] ELSE verdict[p]]
    /\ UNCHANGED <<enabled, broken, refreshVars, record, hcursor, hdue>>

-----------------------------------------------------------------------------
(* A check, and what it leaves in KV *)

Store(p, status, life) == record' = [record EXCEPT ![p] = [status |-> status, ttl |-> life]]

\* The provider answers, or does not.
Find(r, found) ==
    /\ check[r].step \in {"page", "others", "admin"} /\ check[r].found = "none"
    /\ check' = [check EXCEPT ![r].found = found]
    /\ LET p == check[r].of
           crosses == \E q \in Refreshers : check[q].of = p /\ check[q].found # "none" IN
        /\ hdue' = IF check[r].step = "page" THEN hdue \ {p} ELSE hdue
        /\ verdict' = [verdict EXCEPT ![p] = [found |-> found, age |-> 0,
                                           by |-> IF crosses THEN "crossed" ELSE check[r].step]]
    /\ UNCHANGED <<enabled, broken, refreshVars, record, hcursor, probe>>

\* updateHealth, of a worker or an admin; a worker goes on.
UpdateHealth(r) ==
    /\ check[r].found # "none" /\ check[r].step \in {"page", "admin"}
    /\ Store(check[r].of, check[r].found, Short)
    /\ check' = [check EXCEPT ![r] = IF @.step = "admin" THEN NoCheck ELSE [@ EXCEPT !.step = "store"]]
    /\ UNCHANGED <<enabled, broken, refreshVars, hcursor, probe, hdue, verdict>>

\* Fault: the record is left as updateHealth wrote it.
PublishNothing(w) ==
    /\ check[w].found # "none" /\ check[w].step \in {"store", "others"}
    /\ check' = [check EXCEPT ![w] = NoCheck]
    /\ UNCHANGED <<enabled, broken, refreshVars, record, hcursor, probe, hdue, verdict>>

\* The record routing goes by for the next hours.
Publish(w) ==
    /\ check[w].found # "none" /\ check[w].step \in {"store", "others"}
    /\ Store(check[w].of, check[w].found, Long)
    /\ check' = [check EXCEPT ![w] = NoCheck]
    /\ UNCHANGED <<enabled, broken, refreshVars, hcursor, probe, hdue, verdict>>

\* A write of updateHealth throws: a worker that checked a provider of the page puts it
\* down as unhealthy, an admin is told.
UpdateFails(r) ==
    /\ check[r].found # "none" /\ check[r].step \in {"page", "store", "admin"}
    /\ check' = [check EXCEPT ![r] = NoCheck]
    /\ LET p == check[r].of IN
        /\ IF check[r].step = "admin" THEN UNCHANGED record ELSE Store(p, "unhealthy", Long)
        /\ verdict' = [verdict EXCEPT ![p].by = "unsaved"]
    /\ UNCHANGED <<enabled, broken, refreshVars, hcursor, probe, hdue>>

AdminCheck(a, p) ==
    /\ check[a] = NoCheck /\ p \notin broken
    /\ check' = [check EXCEPT ![a] = [step |-> "admin", of |-> p, found |-> "none"]]
    /\ UNCHANGED <<enabled, broken, refreshVars, record, hcursor, probe, hdue, verdict>>

Tick ==
    /\ \A r \in Refreshers : check[r] = NoCheck
    /\ record' = [p \in Names |-> IF record[p].ttl <= 1 THEN NoRecord
                                  ELSE [record[p] EXCEPT !.ttl = @ - 1]]
    /\ verdict' = [p \in Names |-> [verdict[p] EXCEPT !.age = Min({@ + 1, Long})]]
    /\ UNCHANGED <<enabled, broken, refreshVars, hcursor, probe, check, hdue>>

\* unhealthyProviders: requests are not routed to it.
Avoided(p) == record[p].status = "unhealthy"

Edit(p) == EditRefresh(p) /\ hdue' = hdue \ {p} /\ UNCHANGED <<record, hcursor, probe, check, verdict>>

CheckJob(r) == (\E f \in {"healthy", "unhealthy"} : Find(r, f)) \/ UpdateHealth(r) \/ Publish(r)

HealthNext ==
    \/ ProbeStarts \/ ProbeOthers \/ ProbeEnds \/ ProbeDies
    \/ \E w \in Workers : ProbeTake(w)
    \/ \E r \in Refreshers : CheckJob(r) \/ UpdateFails(r)
    \/ \E a \in Admins, p \in Names : AdminCheck(a, p)
    \/ Tick

Next ==
    \/ RefreshNext /\ UNCHANGED healthVars
    \/ HealthNext
    \/ \E p \in Names : Edit(p)

\* The triggers fire, and a run that was started goes on.
RefreshRuns ==
    /\ StartRun \/ PageEnds \/ \E w \in Workers : Take(w) \/ RefreshJob(w)
    /\ UNCHANGED healthVars

ProbeRuns ==
    \/ ProbeStarts \/ ProbeOthers \/ ProbeEnds
    \/ \E w \in Workers : ProbeTake(w) \/ CheckJob(w)

Spec == Init /\ [][Next]_vars

-----------------------------------------------------------------------------
TypeOK ==
    /\ RefreshTypeOK
    /\ \A p \in Names :
        /\ record[p].status \in {"none", "healthy", "unhealthy"} /\ record[p].ttl \in 0..Long
        /\ verdict[p].by \in {"nobody", "page", "others", "admin", "unsaved", "crossed"}
    /\ hcursor \in Names \cup {0} /\ hdue \subseteq Served(enabled)
    /\ probe.at \in {"idle", "page", "others", "dead"}
    /\ probe.left \subseteq Names /\ probe.others \subseteq Builtin
    /\ \A r \in Refreshers :
        /\ check[r].step \in {"none", "page", "others", "admin", "store"}
        /\ check[r].step # "none" => check[r].of \in Names
        /\ check[r].step \in {"page", "others", "store"} => probe.at = (IF check[r].step = "others" THEN "others" ELSE "page")
\* A provider is avoided as long as its last check says, 6 hours for a probe and 15
\* minutes for an admin's, and not at all after a check that found it healthy; but
\* for a check whose record could not be saved, and two that crossed (probe.ts
\* probeProviders, updateHealth, state.ts unhealthyProviders).
AvoidedAsFound ==
    \A p \in Names :
        LET v == verdict[p] IN
        (\A r \in Refreshers : check[r].of # p) /\ v.by \notin {"unsaved", "crossed"} =>
            (Avoided(p) <=> v.found = "unhealthy" /\ v.age < (IF v.by = "admin" THEN Short ELSE Long))

\* Round after round, every provider that stays enabled and keeps its adapter is probed,
\* whatever the checks find and whichever of their writes fail, unless runs go on dying
\* (probe.ts probeProviders: its cursor moves on even past a provider that failed).  One
\* that is enabled but has no adapter is probed only if it is built in.
EveryProviderProbed ==
    <>[](probe.at # "dead") => []<>(hdue = {}) /\ []<>(hdue # {} \/ Served(enabled) = {})
=============================================================================
