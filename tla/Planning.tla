------------------------------ MODULE Planning ------------------------------
(***************************************************************************)
(* From a claim to a plan: the classifier names the profiles a claim calls *)
(* for, the router gives every profile a selection by what the capability  *)
(* catalog offers, the planner orders the applicable profiles, adds up     *)
(* their estimates and admits the plan or asks for a remote executor.  The *)
(* conformance corpus drives the same path behind its admission gate.      *)
(***************************************************************************)
EXTENDS Procedures, Integers, Sequences, FiniteSets, FiniteSetsExt

CONSTANTS
    PlannedProfiles,  \* profiles whose catalog entry the runs vary
    TopoNodes         \* nodes 1..n of a dependency graph

ASSUME PlanningAssumption == TopoNodes \subseteq Nat /\ IsFiniteSet(TopoNodes)
-----------------------------------------------------------------------------
(***************************************************************************)
(* Profiles and estimates: seconds, MiB of memory, MiB of scratch.         *)
(***************************************************************************)
BASE_ESTIMATES ==
    [algebra_exact |-> <<20, 256, 100>>, symbolic_law |-> <<30, 256, 100>>,
     dynamics |-> <<60, 512, 500>>, geometry_tda |-> <<120, 768, 1024>>,
     causal_time_series |-> <<45, 512, 500>>, uncertainty |-> <<40, 384, 300>>,
     optimization |-> <<90, 512, 500>>, formal_protocol |-> <<50, 384, 200>>,
     literature |-> <<10, 128, 50>>, theorem_or_proof_obligation |-> <<70, 512, 300>>,
     nonlinear_continuous_or_hybrid_constraint |-> <<110, 768, 512>>,
     executable_ode_dae_sde_model |-> <<100, 640, 768>>,
     pde_variational_model |-> <<150, 896, 1536>>, model_composition |-> <<80, 512, 400>>,
     literature_extraction |-> <<15, 192, 100>>]

SCIENCE_LAB_PROFILES == DOMAIN BASE_ESTIMATES
FUTURE_PROFILE_IDS   == {"content_mathml", "dreal", "latexml", "lean_mathlib",
                         "orkg_opencitations", "sciml_bounded"}
KNOWN_PROFILES       == SCIENCE_LAB_PROFILES \cup FUTURE_PROFILE_IDS

Caps(class) == IF class = "exception" THEN <<900, 2048, 4096>> ELSE <<300, 1536, 4096>>

\* The exception class pays half as much again in time and a quarter in memory,
\* rounded down.
Estimate(profile, class) ==
    LET e == BASE_ESTIMATES[profile]
    IN  IF class = "exception" THEN <<(e[1] * 3) \div 2, (e[2] * 5) \div 4, e[3]>> ELSE e

\* The profiles in the order of their steps, and what each adds to a total.
PROFILE_ORDER ==
    <<"algebra_exact", "symbolic_law", "dynamics", "geometry_tda", "causal_time_series",
      "uncertainty", "optimization", "formal_protocol", "literature",
      "theorem_or_proof_obligation", "nonlinear_continuous_or_hybrid_constraint",
      "executable_ode_dae_sde_model", "pde_variational_model", "model_composition",
      "literature_extraction">>
Cost(profiles, class, dim, p) == IF p \in profiles THEN Estimate(p, class)[dim] ELSE 0

SumTo(n, g) == LET sum[i \in 0 .. n] == IF i = 0 THEN 0 ELSE sum[i - 1] + g[i] IN sum[n]
Total(profiles, class, dim) ==
    SumTo(15, [i \in 1 .. 15 |-> Cost(profiles, class, dim, PROFILE_ORDER[i])])

\* _admit: the dimensions in which the selected steps exceed the class's caps.
Over(selected, class) == {d \in 1 .. 3 : Total(selected, class, d) > Caps(class)[d]}
-----------------------------------------------------------------------------
(***************************************************************************)
(* The classifier: every rule that applies adds its profiles.              *)
(***************************************************************************)
RULES ==
    {[on |-> "source", key |-> "literature", profiles |-> {"literature", "literature_extraction"}],
     [on |-> "class", key |-> "established_law_reference",
      profiles |-> {"symbolic_law", "theorem_or_proof_obligation"}],
     [on |-> "statement", key |-> "tda", profiles |-> {"geometry_tda"}],
     [on |-> "statement", key |-> "ode", profiles |-> {"executable_ode_dae_sde_model", "dynamics"}],
     [on |-> "statement", key |-> "pde", profiles |-> {"pde_variational_model", "dynamics"}],
     [on |-> "statement", key |-> "nonlinear",
      profiles |-> {"nonlinear_continuous_or_hybrid_constraint"}],
     [on |-> "statement", key |-> "causal", profiles |-> {"causal_time_series"}],
     [on |-> "statement", key |-> "uncertainty", profiles |-> {"uncertainty"}],
     [on |-> "statement", key |-> "optimization", profiles |-> {"optimization"}],
     [on |-> "statement", key |-> "proof", profiles |-> {"theorem_or_proof_obligation"}],
     [on |-> "statement", key |-> "algebra", profiles |-> {"algebra_exact"}],
     [on |-> "statement", key |-> "composition", profiles |-> {"model_composition"}],
     [on |-> "statement", key |-> "protocol", profiles |-> {"formal_protocol"}],
     [on |-> "cd", key |-> "calculus1", profiles |-> {"dynamics"}],
     [on |-> "cd", key |-> "linalg1", profiles |-> {"algebra_exact"}],
     [on |-> "cd", key |-> "logic1",
      profiles |-> {"theorem_or_proof_obligation", "formal_protocol"}],
     [on |-> "cd", key |-> "set1", profiles |-> {"geometry_tda"}]}

\* The content dictionaries of the symbols and of the conditions.
CdsPresent(claim) == claim.symbol_cds \cup claim.condition_cds

RuleApplies(rule, claim) ==
    CASE rule.on = "source"    -> claim.source = rule.key
      [] rule.on = "class"     -> claim.class = rule.key
      [] rule.on = "statement" -> rule.key \in claim.mentions
      [] rule.on = "cd"        -> rule.key \in CdsPresent(claim)

Classify(claim) == UNION {r.profiles : r \in {x \in RULES : RuleApplies(x, claim)}}

Claims ==
    [source : {"literature", "experiment"}, class : {"hypothesis"},
     mentions : SUBSET {"composition", "pde", "tda"}, symbol_cds : SUBSET {"set1"},
     condition_cds : {{}}]
-----------------------------------------------------------------------------
(***************************************************************************)
(* Requests, the catalog and the router.                                   *)
(***************************************************************************)

\* build_request: known profiles, each once; future profiles are not known here.
RequestVerdict(r) ==
    IF \/ r.class \notin {"default", "exception"} \/ ~r.seedPolicy \/ ~r.schemas
       \/ ~r.requested \subseteq SCIENCE_LAB_PROFILES
    THEN "CONTRACT_INVALID" ELSE "ok"

\* A catalog entry: what it says of availability, and whether it names an adapter.
Availability == {"missing", "available", "future", "remote_required"}
CatalogEntries == [availability : Availability, adapter : BOOLEAN]

\* A catalog has at most one entry per profile; its digest stands for it.
Entry(catalog, p) ==
    IF p \in DOMAIN catalog THEN catalog[p] ELSE [availability |-> "missing", adapter |-> FALSE]
IsAvailable(catalog, p) == Entry(catalog, p).availability = "available"

\* _route_one for an applicable profile: selected if the catalog has it
\* available, else an honest wait; an available entry without an adapter is a
\* routing nobody can build.
RouteOne(p, catalog) ==
    IF ~IsAvailable(catalog, p) THEN "WAIT_CAPABILITY"
    ELSE IF Entry(catalog, p).adapter THEN "SELECTED" ELSE "CONTRACT_INVALID"

\* The profiles that apply: the requested ones, or what the classifier finds.
Applicable(requested, claim) == IF requested # {} THEN requested ELSE Classify(claim)

\* route: a selection for every science-lab profile, and for future profiles
\* that were asked for.
Route(requested, claim, catalog) ==
    LET applicable == Applicable(requested, claim)
        sel == [p \in SCIENCE_LAB_PROFILES \cup (applicable \cap FUTURE_PROFILE_IDS) |->
                   IF p \in applicable THEN RouteOne(p, catalog)
                   ELSE IF requested # {} THEN "EXCLUDED_TYPED" ELSE "NOT_APPLICABLE"]
    IN  IF \/ ~requested \subseteq KNOWN_PROFILES
           \/ \E p \in DOMAIN sel : sel[p] = "CONTRACT_INVALID"
        THEN {} ELSE {sel}

Selected(sel) == {p \in DOMAIN sel : sel[p] = "SELECTED"}
Waiting(sel)  == {p \in DOMAIN sel : sel[p] = "WAIT_CAPABILITY"}
-----------------------------------------------------------------------------
(***************************************************************************)
(* The plan.                                                               *)
(***************************************************************************)

\* Only a composition depends on anything: on every other applicable profile.
PlanDependencies(applicable, p) ==
    IF p = "model_composition" THEN applicable \ {p} ELSE {}

\* _build_steps: applicable science-lab profiles in dependency order, then the
\* others; profiles of the future have no step.
PlanOf(sel, class) ==
    LET applicable == (Selected(sel) \cup Waiting(sel)) \cap SCIENCE_LAB_PROFILES
    IN  [rank |-> [p \in SCIENCE_LAB_PROFILES |->
                     IF p \notin applicable THEN 2 ELSE IF PlanDependencies(applicable, p) # {}
                     THEN 1 ELSE 0],
         depends |-> [p \in SCIENCE_LAB_PROFILES |->
                        IF p \in applicable THEN PlanDependencies(applicable, p) ELSE {}],
         sel |-> sel, class |-> class]

BuildPlanVerdict(sel, class) ==
    IF Over(Selected(sel) \cap SCIENCE_LAB_PROFILES, class) # {}
    THEN "WAIT_REMOTE_EXECUTOR" ELSE "ok"

PlanInit ==
    /\ subject = "plan"
    /\ \E requested \in SUBSET (PlannedProfiles \cup {"dreal"}), claim \in Claims,
          class \in {"default", "exception"} :
          /\ requested # {} => claim.mentions = {} /\ claim.symbol_cds = {}
          /\ st = [phase |-> "route", requested |-> requested, claim |-> claim, class |-> class,
                   catalog |-> {}, sel |-> {}, plan |-> {}, answer |-> "none"]

\* One call routes and plans with the catalog it has loaded.
RouteRequest(catalog) ==
    /\ subject = "plan" /\ st.phase = "route"
    /\ LET sel == Route(st.requested, st.claim, catalog)
       IN  Step("plan", [st EXCEPT !.catalog = {catalog}, !.sel = sel,
                                   !.phase = IF sel = {} THEN "done" ELSE "plan",
                                   !.answer = IF sel = {} THEN "CONTRACT_INVALID" ELSE "none"])

BuildPlan ==
    /\ subject = "plan" /\ st.phase = "plan"
    /\ \E sel \in st.sel :
          LET v == BuildPlanVerdict(sel, st.class)
          IN  Step("plan", [st EXCEPT !.phase = "done", !.answer = v,
                                      !.plan = IF v = "ok" THEN {PlanOf(sel, st.class)} ELSE {}])
-----------------------------------------------------------------------------
(***************************************************************************)
(* topological_order, node by node: the smallest ready node is placed and  *)
(* its dependents lose one open dependency each.                           *)
(***************************************************************************)
TopoInit ==
    /\ subject = "topo"
    /\ \E deps \in [TopoNodes -> SUBSET TopoNodes] :
          st = [deps |-> deps, indeg |-> [n \in TopoNodes |-> Cardinality(deps[n])],
                ready |-> {n \in TopoNodes : deps[n] = {}}, order |-> <<>>, answer |-> "none"]

\* Wrong variant: a node is ready once any dependency is placed.
PlaceNodeEager ==
    /\ subject = "topo" /\ st.answer = "none" /\ st.ready # {}
    /\ LET n == Min(st.ready)
           hit == {d \in TopoNodes : n \in st.deps[d]}
       IN  Step("topo", [st EXCEPT !.order = Append(@, n), !.ready = (@ \ {n}) \cup
               {d \in hit : d # n /\ \A i \in DOMAIN st.order : st.order[i] # d}])

PlaceNode ==
    /\ subject = "topo" /\ st.answer = "none" /\ st.ready # {}
    /\ LET n == Min(st.ready)
           hit == {d \in TopoNodes : n \in st.deps[d]}
           indeg == [d \in TopoNodes |-> IF d \in hit THEN st.indeg[d] - 1 ELSE st.indeg[d]]
       IN  Step("topo", [st EXCEPT !.order = Append(@, n), !.indeg = indeg,
                                   !.ready = (@ \ {n}) \cup {d \in hit : indeg[d] = 0}])

FinishOrder ==
    /\ subject = "topo" /\ st.answer = "none" /\ st.ready = {}
    /\ Step("topo", [st EXCEPT !.answer =
           IF Len(st.order) = Cardinality(TopoNodes) THEN "ok" ELSE "cycle_detected"])
-----------------------------------------------------------------------------
(***************************************************************************)
(* The conformance corpus: the gate's refusals come before routing.        *)
(***************************************************************************)
Tasks == [copyleft : BOOLEAN, marker : {"none", "path", "authority", "both"},
          ir : {"none", "valid", "unsupported"}, request : BOOLEAN, ownCatalog : BOOLEAN,
          requested : SUBSET {"pde_variational_model", "geometry_tda", "literature"}
                      \cup {{"dreal"}}]

AdmissionGate(t) ==
    IF t.copyleft THEN "REJECT_LICENSE"
    ELSE IF t.marker \in {"path", "both"} THEN "REJECT_CONTRACT"
    ELSE IF t.marker = "authority" THEN "REJECT_AUTHORITY"
    ELSE IF t.ir = "unsupported" THEN "REJECT_IR"
    ELSE "none"

\* A waiting profile is reported before anything that is selected.
SelectionOutcome(sel) == IF Waiting(sel) # {} THEN "WAIT_CAPABILITY" ELSE "PASS"

\* The plan is built, and its resources judged, only for a task that brings its
\* own catalog.
RouteOutcome(t, catalog) ==
    LET claim == [source |-> "experiment", class |-> "hypothesis", mentions |-> {},
                  symbol_cds |-> {}, condition_cds |-> {}]
        request == [class |-> "default", seedPolicy |-> t.request, schemas |-> TRUE,
                    requested |-> t.requested]
        sels == Route(t.requested, claim, catalog)
    IN  IF RequestVerdict(request) # "ok" \/ sels = {} THEN "REJECT_CONTRACT"
        ELSE LET sel == CHOOSE s \in sels : TRUE
             IN  IF t.ownCatalog /\ BuildPlanVerdict(sel, "default") # "ok"
                 THEN "REJECT_RESOURCE" ELSE SelectionOutcome(sel)

CorpusInit ==
    /\ subject = "corpus"
    /\ \E t \in Tasks : st = [task |-> t, catalog |-> {}, answer |-> "none"]

RunTask(catalog) ==
    /\ subject = "corpus" /\ st.answer = "none"
    /\ ~st.task.ownCatalog => \A p \in DOMAIN catalog : catalog[p].availability # "available"
    /\ Step("corpus", [st EXCEPT !.catalog = {catalog}, !.answer =
           IF AdmissionGate(st.task) # "none" THEN AdmissionGate(st.task)
           ELSE RouteOutcome(st.task, catalog)])
-----------------------------------------------------------------------------
\* Sets of selected profiles, judged under both resource classes.
AdmitInit ==
    /\ subject = "admit"
    /\ \E s \in SUBSET SCIENCE_LAB_PROFILES : st = [selected |-> s, over |-> <<>>]

AdmitBoth ==
    /\ subject = "admit" /\ st.over = <<>>
    /\ Step("admit", [st EXCEPT !.over = <<Over(st.selected, "default"),
                                           Over(st.selected, "exception")>>])

\* future_profiles.build_card and load_cards_from_doc never claim readiness.
FutureInit ==
    /\ subject = "future"
    /\ \E s \in {"registry_only", "bounded_experimental", "installed"}, shape \in BOOLEAN :
          st = [status |-> s, shape |-> shape, loaded |-> {}, done |-> FALSE]

LoadFutureCard ==
    /\ subject = "future" /\ ~st.done
    /\ Step("future", [st EXCEPT !.done = TRUE, !.loaded =
           IF st.shape /\ st.status \in {"registry_only", "bounded_experimental"}
           THEN {st.status} ELSE {}])

PlanningInit == PlanInit \/ TopoInit \/ CorpusInit \/ AdmitInit \/ FutureInit
PlanningNext ==
    \/ /\ subject = "plan"
       /\ BuildPlan \/ \E c \in [PlannedProfiles -> CatalogEntries] : RouteRequest(c)
    \/ PlaceNode \/ FinishOrder
    \/ /\ subject = "corpus"
       /\ \E a, b \in [availability : {"available", "future"}, adapter : {TRUE}] :
             RunTask([pde_variational_model |-> a, geometry_tda |-> b])
    \/ AdmitBoth
    \/ LoadFutureCard
-----------------------------------------------------------------------------
(* Properties *)

\* No plan holds a selected step whose capability the catalog it was routed by
\* does not offer: the router waits, and never falls back to something local.
NoLocalFallback ==
    subject = "plan" =>
        \A plan \in st.plan, c \in st.catalog, p \in SCIENCE_LAB_PROFILES :
            plan.sel[p] = "SELECTED" => IsAvailable(c, p) /\ Entry(c, p).adapter

\* In every plan a step comes after everything it depends on, and what it
\* depends on is itself a step that runs or waits, never an excluded one.
PlanOrdered ==
    subject = "plan" =>
        \A plan \in st.plan, p \in SCIENCE_LAB_PROFILES : \A d \in plan.depends[p] :
            plan.rank[d] < plan.rank[p] /\ plan.sel[d] \in {"SELECTED", "WAIT_CAPABILITY"}

\* The order of any dependency graph respects it and holds every node once; a
\* cycle, and nothing else, is an error.
TopoSound ==
    (subject = "topo" /\ st.answer # "none") =>
        LET cyclic == \E S \in SUBSET TopoNodes : S # {} /\ \A n \in S : st.deps[n] \cap S # {}
            position(n) == CHOOSE i \in DOMAIN st.order : st.order[i] = n
        IN  /\ (st.answer = "cycle_detected") = cyclic
            /\ st.answer = "ok" =>
                  \A n \in TopoNodes : /\ \E i \in DOMAIN st.order : st.order[i] = n
                                       /\ \A d \in st.deps[n] : position(d) < position(n)

\* What the default class admits the exception class admits too, although it
\* estimates every step higher.
ExceptionNeverStricter ==
    (subject = "admit" /\ st.over # <<>>) => (st.over[1] = {} => st.over[2] = {})

\* A corpus task passes only if its licence, packet and IR are clean, nothing
\* it needs is waiting and, with a catalog of its own, it fits the caps.
PassIsEarned ==
    (subject = "corpus" /\ st.answer = "PASS") =>
        /\ ~st.task.copyleft /\ st.task.marker = "none" /\ st.task.ir # "unsupported"
        /\ \A c \in st.catalog :
              /\ \A p \in st.task.requested : IsAvailable(c, p)
              /\ st.task.ownCatalog => Over(st.task.requested, "default") = {}

\* A plan can be carried out in its order with what the catalog offers.
PlansSound ==
    /\ NoLocalFallback
    /\ PlanOrdered
    /\ TopoSound
    /\ ExceptionNeverStricter
    /\ PassIsEarned
=============================================================================
