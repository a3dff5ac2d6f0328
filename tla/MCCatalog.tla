------------------------------ MODULE MCCatalog ------------------------------
(* Catalog and Routing for TLC.  A behaviour shows one of five parts: the        *)
(* refreshes of one provider that cross, the daily sweep, the checks of one      *)
(* provider that cross, the hourly probe, or a request, which finds the registry *)
(* as refreshes and checks may have left it, while an admin changes it.  The     *)
(* sweep has providers for three pages, one more than a run does, the others     *)
(* those for two.                                                                *)
EXTENDS Routing

CONSTANT Parts  \* of "crossing", "sweep", "judging", "probing" and "routing"

CONSTANTS
    Few,     \* bound: the providers of all parts but the sweep
    Edited,  \* bound: the providers an admin edits during a sweep
    Moves    \* bound: what happens while a request is routed

VARIABLES part, moves

Quiet(f, none) == \A r \in DOMAIN f : f[r] = none
NoRefresh == sweep = Asleep /\ Quiet(job, NoJob)
NoProbing == probe = NoProbe /\ Quiet(check, NoCheck)

SomeList == CHOOSE l \in Lists : TRUE
LastWorker == CHOOSE w \in Workers : TRUE
Admin == CHOOSE a \in Admins : TRUE
NoJobs == [r \in Refreshers |-> NoJob]
NoChecks == [r \in Refreshers |-> NoCheck]
First == Min(Few)
Last == Max(Few)
Others == Few \ {First, Last}

SomeModel == CHOOSE m \in Models : TRUE
Kind(able, wanted, embedding) == [able |-> able, wanted |-> wanted, embedding |-> embedding]
MCKinds ==
    {Kind(Few \X Models, NoModel, FALSE),
     Kind((Few \X Models) \ ({First} \X (Models \ {SomeModel})), <<First, SomeModel>>, TRUE)}

OnlyPart ==
    CASE part = "crossing" ->
            /\ NoProbing /\ enabled = {First} /\ broken = {}
            /\ job[LastWorker] = NoJob /\ \A a \in Admins : job[a].of \in enabled \cup {0}
      [] part = "sweep" ->
            /\ NoProbing /\ Names \ Edited \subseteq Served(enabled)
            /\ \A a \in Admins : job[a] = NoJob
            /\ \A w \in Workers : job[w].list \in {{}, SomeList}
            /\ \A p \in Names : verdict[p].age = 0
      [] part = "judging" ->
            /\ NoRefresh /\ enabled \cup broken \subseteq {First}
            /\ \A r \in Refreshers : check[r].of \in {0, First}
      [] part = "probing" ->
            /\ NoRefresh /\ enabled \subseteq Few /\ Last \in enabled
            /\ broken \subseteq Others
            /\ \A a \in Admins : check[a] = NoCheck
            /\ \A p \in Names : verdict[p].age = 0
            /\ \A w \in Workers : check[w].found \in {"none", "unhealthy"}
      [] part = "routing" -> TRUE

\* The registry as an earlier sweep left it.
SweptInit ==
    /\ live = [p \in Names |-> SomeList]
    /\ group = [p \in Names |-> [lists |-> {SomeList}, old |-> SomeList]]
    /\ enabled \in SUBSET Names /\ broken \in SUBSET Names /\ due = Served(enabled)
    /\ cursor = 0 /\ sweep = Asleep /\ job = NoJobs
    /\ hdue = Served(enabled) /\ hcursor = 0 /\ probe = NoProbe /\ check = NoChecks
    /\ record = [p \in Names |-> NoRecord]
    /\ verdict = [p \in Names |-> Unjudged]
    /\ RouteInit

\* The registry and the records as refreshes and checks may have left them, and an
\* admin's call under way that is about to write.
FoundInit ==
    /\ RouteInit
    /\ enabled \in SUBSET Few /\ broken = {}
    /\ due = Served(enabled) /\ hdue = due
    /\ \E last \in {{}} \cup {{m} : m \in Models} :
        live = [p \in Names |-> CASE p = First -> Models [] p = Last -> last
                                   [] p \in Others -> {SomeModel} [] OTHER -> {}]
    /\ group = [p \in Names |-> [lists |-> {}, old |-> live[p]]]
    /\ \E found \in [Few -> {"healthy", "unhealthy"}] :
        /\ \A p \in Others : found[p] = "healthy"
        /\ verdict = [p \in Names |-> IF p \in Few THEN [found |-> found[p], by |-> "page", age |-> 0]
                                      ELSE Unjudged]
        /\ record = [p \in Names |-> IF p \in Few THEN [status |-> found[p], ttl |-> Long]
                                     ELSE NoRecord]
    /\ \/ job = NoJobs /\ check = NoChecks
       \/ check = NoChecks /\ \E l \in Lists \ {Models} :
            job = [NoJobs EXCEPT ![Admin] = [step |-> "upsert", of |-> Last, list |-> l]]
       \/ job = NoJobs /\ \E p \in {First, Last} :
            check = [NoChecks EXCEPT ![Admin] = [step |-> "admin", of |-> p, found |-> "none"]]
    /\ cursor = 0 /\ sweep = Asleep /\ hcursor = 0 /\ probe = NoProbe

mcvars == <<vars, routeVars, part, moves>>
Of(A) == A /\ UNCHANGED part /\ OnlyPart'

\* The request goes on, or something else happens, a few times before it is over.
MCRoute ==
    /\ UNCHANGED part /\ req.step \notin {"refused", "over"}
    /\ \/ Route /\ UNCHANGED <<vars, moves>>
       \/ /\ Meanwhile /\ req # NoRequest /\ moves < Moves /\ moves' = moves + 1
          /\ UNCHANGED <<sweep, probe, enabled \ {First, Last}, broken \ {First}>>
          /\ \A r \in Refreshers : job[r] = NoJob => job'[r] = NoJob
          /\ \A r \in Refreshers : check[r] = NoCheck => check'[r] = NoCheck
          /\ req.all # {} => UNCHANGED <<job, check>>

MCInit ==
    /\ part \in Parts
    /\ CASE part = "routing" -> FoundInit [] part = "sweep" -> SweptInit [] OTHER -> RoutingInit
    /\ moves = 0 /\ OnlyPart
MCNext == IF part = "routing" THEN MCRoute ELSE Of(Next) /\ UNCHANGED <<routeVars, moves>>
MCSpec ==
    /\ MCInit /\ [][MCNext]_mcvars
    /\ WF_mcvars(Of(RefreshRuns) /\ UNCHANGED <<routeVars, moves>>)
    /\ WF_mcvars(Of(ProbeRuns) /\ UNCHANGED <<routeVars, moves>>)

\* The liveness properties, of the parts in which their cron trigger fires.
MCEveryProviderRefreshed == part = "sweep" => EveryProviderRefreshed
MCEveryProviderProbed == part = "probing" => EveryProviderProbed

=============================================================================
