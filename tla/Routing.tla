-------------------------------- MODULE Routing --------------------------------
(***************************************************************************)
(* How one request finds its providers, over a registry that is refreshed, *)
(* checked and edited meanwhile (Catalog): the three readings of the       *)
(* catalog in front of the quota call, selectModel and candidatesFor, and  *)
(* the lookups before each attempt (apps/worker/src/index.ts run,          *)
(* router.ts, state.ts, providers.ts callRegisteredProvider).              *)
(*                                                                         *)
(* A model of a provider is a pair.  Ranking is left out: any usable model *)
(* may be selected.  So are ai-horde, which has no rows, and catalog:active*)
(* (kept for two hours a day): the fallback is the checked-in catalog.     *)
(***************************************************************************)
EXTENDS Catalog

CONSTANTS
    NoModel,   \* nothing is asked for by name, "auto"
    Kinds,     \* requests: the models that pass supportsRequest, the one asked for, and
               \* whether it is for an embedding, which keeps to one family of models
    Attempts   \* the plan's fallbackAttempts, at most 3

ASSUME RoutingAssumption ==
    /\ Attempts \in Nat \ {0} /\ NoModel \notin Names \X Models
    \* what a row holds is limited, so there are finitely many models to name
    /\ IsFiniteSet(Models)
    /\ \A k \in Kinds : /\ k.able \subseteq Names \X Models /\ k.embedding \in BOOLEAN
                        /\ k.wanted \in (Names \X Models) \cup {NoModel}

VARIABLES
    req,     \* the request: its next step, what it asks for and what it has read
    steady,  \* history: models that could be routed to at all times since it came
    avoided, \* history: providers in the catalog, and avoided, at all times since then
    off,     \* history: providers disabled ever since
    bare     \* history: whether the registry was without a model at some time since

routeHistory == <<steady, avoided, off, bare>>
routeVars == <<req, routeHistory>>

Pairs == Names \X Models

\* Rows of getAllModelsResult, and what catalog() and run make of them.
Rows == {c \in Pairs : c[1] \in enabled /\ c[2] \in live[c[1]]}
CheckedIn == Builtin \X Models
Current(fallback) == IF Rows # {} THEN Rows ELSE fallback

ProvidersOf(cs) == {c[1] : c \in cs}

\* One model for each of n providers of cs.
Picks(cs, n) ==
    {s \in SUBSET cs : Cardinality(s) = n /\ Cardinality(ProvidersOf(s)) = n}

NoRequest ==
    [step |-> "new", able |-> {}, wanted |-> NoModel, embedding |-> FALSE,
     models |-> {}, asked |-> {}, first |-> NoModel, all |-> {}, todo |-> {},
     now |-> NoModel, called |-> {}]

RouteInit ==
    /\ req = NoRequest
    /\ steady = {} /\ avoided = {} /\ off = {} /\ bare = FALSE

\* What is true of the registry from the arrival to the selection.
Observe ==
    IF req.step \in {"list", "ask", "select"}
    THEN /\ steady' = {c \in steady \cap Current(CheckedIn)' : ~Avoided(c[1])'}
         /\ avoided' = {p \in avoided \cap ProvidersOf(Current(CheckedIn)') : Avoided(p)'}
         /\ off' = off \ enabled'
         /\ bare' = (bare \/ (Rows = {})')
    ELSE UNCHANGED <<steady, avoided, bare>> /\ off' = off \ enabled'

-----------------------------------------------------------------------------
(* Before the quota call *)

\* catalog(env) of the handler.
Arrive(kind) ==
    /\ req.step = "new"
    /\ req' = [req EXCEPT !.step = "list", !.able = kind.able, !.wanted = kind.wanted,
                          !.embedding = kind.embedding, !.models = Current(CheckedIn)]
    /\ steady' = {c \in Current(CheckedIn) : ~Avoided(c[1])}
    /\ avoided' = {p \in ProvidersOf(Current(CheckedIn)) : Avoided(p)}
    /\ off' = Names \ enabled
    /\ bare' = (Rows = {})

\* activeModels: the rows, or what the handler had read.
List2 ==
    /\ req.step = "list"
    /\ req' = [req EXCEPT !.step = "ask", !.models = Current(@)]
    /\ UNCHANGED routeHistory

\* unhealthyProviders lists the catalog anew, for the names whose records to read.
Ask ==
    /\ req.step = "ask"
    /\ req' = [req EXCEPT !.step = "select", !.asked = ProvidersOf(Current(CheckedIn))]
    /\ UNCHANGED routeHistory

Unhealthy == {p \in req.asked : Avoided(p)}
Usable == {c \in req.models \cap req.able : c[1] \notin Unhealthy}

\* Fault: a model asked for by name is taken whatever its provider's health.
SelectModelByName ==
    IF req.wanted \in req.models \cap req.able THEN {req.wanted} ELSE Usable

\* The model asked for, if it will do, and otherwise the best that will.
SelectModel == IF req.wanted \in Usable THEN {req.wanted} ELSE Usable

\* candidatesFor: the model selected and, within its family for an embedding (models
\* of one name), for as many other providers as the plan allows, one model of each.
CandidatesFor(selected) ==
    LET others == {c \in Usable : /\ c[1] # selected[1]
                                  /\ req.embedding => c[2] = selected[2]}
    IN  Picks(others, Min({Attempts - 1, Cardinality(ProvidersOf(others))}))

Select ==
    /\ req.step = "select"
    /\ \/ /\ SelectModel = {}
          /\ req' = [req EXCEPT !.step = "refused", !.models = {}, !.asked = {}]
       \/ \E selected \in SelectModel : \E others \in CandidatesFor(selected) :
            req' = [req EXCEPT !.step = "look", !.models = {}, !.asked = {},
                               !.first = selected, !.all = {selected} \cup others,
                               !.now = selected, !.todo = others]
    /\ UNCHANGED routeHistory

-----------------------------------------------------------------------------
(* The attempt loop *)

\* On to the next candidate, or 503.
NextCandidate ==
    \/ \E c \in req.todo :
        req' = [req EXCEPT !.step = "look", !.now = c, !.todo = @ \ {c}]
    \/ req.todo = {} /\ req' = [req EXCEPT !.step = "over"]

\* getProviderByName, which finds none without an adapter.
Look ==
    /\ req.step = "look"
    /\ req' = [req EXCEPT !.step = IF req.now[1] \in Served(enabled) THEN "call" ELSE "relook"]
    /\ UNCHANGED routeHistory

\* hasEnabledProviderName, and callRegisteredProvider without a row: a provider that is
\* enabled after all, or has no adapter, counts as unavailable, one that is built in is
\* called the old way, and any other has no URL to call.
Relook ==
    /\ req.step = "relook"
    /\ IF req.now[1] \in Builtin \ enabled THEN req' = [req EXCEPT !.step = "call"] ELSE NextCandidate
    /\ UNCHANGED routeHistory

\* The provider is called, and answers or fails.
Call ==
    /\ req.step = "call"
    /\ req' = [req EXCEPT !.step = "called", !.called = @ \cup {req.now[1]}]
    /\ UNCHANGED routeHistory

Answered ==
    /\ req.step = "called"
    /\ req' = [req EXCEPT !.step = "over", !.todo = {}]
    /\ UNCHANGED routeHistory

CallFails == req.step = "called" /\ NextCandidate /\ UNCHANGED routeHistory

Route ==
    \/ \E kind \in Kinds : Arrive(kind)
    \/ List2 \/ Ask \/ Select \/ Look \/ Relook \/ Call \/ Answered \/ CallFails

RoutingInit == Init /\ RouteInit

Meanwhile == Next /\ Observe /\ UNCHANGED req

RoutingNext == (Route /\ UNCHANGED vars) \/ Meanwhile

RoutingSpec == RoutingInit /\ [][RoutingNext]_<<vars, routeVars>>

-----------------------------------------------------------------------------
RouteTypeOK ==
    /\ TypeOK
    /\ req.step \in {"new", "list", "ask", "select", "look", "relook", "call",
                     "called", "refused", "over"}
    /\ req.able \subseteq Pairs /\ req.models \subseteq Pairs /\ req.all \subseteq Pairs
    /\ req.todo \subseteq req.all /\ req.called \subseteq ProvidersOf(req.all)
    /\ {req.wanted, req.first, req.now} \subseteq Pairs \cup {NoModel}
    /\ req.asked \subseteq Names /\ Cardinality(req.all) <= Attempts
    /\ avoided \subseteq Names /\ off \subseteq Names /\ steady \subseteq Pairs

\* What would have done for the request at any time since it came.
Fit == steady \cap req.able

\* A request is not told that no model supports it if one would have done all along,
\* the model it asks for is its first candidate if that one would, and of the
\* providers that would, it has as many for candidates as its plan allows (router.ts
\* selectModel, index.ts candidatesFor).
SelectsWell ==
    /\ req.step = "refused" => Fit = {}
    /\ req.all # {} =>
        LET alike == {c \in Fit : req.embedding => c[2] = req.first[2]} IN
            /\ req.wanted \in Fit => req.first = req.wanted
            /\ Cardinality(req.all)
                >= Min({Attempts, Cardinality(ProvidersOf(alike \cup {req.first}))})

\* No candidate's provider was avoided all along, unless it was out of the catalog for
\* a while, when the health records were looked up, say (state.ts unhealthyProviders).
AvoidsUnhealthy == ProvidersOf(req.all) \cap avoided = {}

\* No provider is called that has been disabled since before the request came, unless
\* it is built in and the registry was for a moment without a model, so that the
\* checked-in catalog stood in for it (index.ts activeModels, callRegisteredProvider).
DisabledAtRest == req.called \cap off \subseteq (IF bare THEN Builtin ELSE {})

\* What routing promises while the registry changes under it.
RoutingHolds == SelectsWell /\ AvoidsUnhealthy /\ DisabledAtRest
=============================================================================
