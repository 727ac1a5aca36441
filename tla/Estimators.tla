----------------------------- MODULE Estimators -----------------------------
(***************************************************************************)
(* The pack adapters around numerical libraries: the one-chain posterior   *)
(* (PyMC), persistent homology (ripser), convex optimisation (CVXPY) and   *)
(* covariance shrinkage (pyRiemann).  The libraries are external and may   *)
(* answer anything of their kind; the adapter validates what goes in,      *)
(* bounds it, and reads what comes out.                                    *)
(***************************************************************************)
EXTENDS Provers

CONSTANTS
    MaxDraws,         \* MAX_DRAWS and MAX_TUNE, scaled down
    EssFloor,         \* ESS_FLOOR, scaled down
    MaxWall,          \* max_wall of a fit
    MaxCloud,         \* MAX_POINTS, MAX_AMBIENT_DIM and MAX_HOMOLOGY_DIM, scaled down
    ClassTimes,       \* births and deaths of a persistence class
    PersistenceDigits,\* PERSISTENCE_SIG_DIGITS, scaled down
    MaxVariables,     \* MAX_VARIABLES, scaled down
    MaxConstraints,   \* MAX_CONSTRAINTS, scaled down
    AlphaUnit         \* the shrinkage coefficient is a number of 1/AlphaUnit

ASSUME EstimatorsAssumption ==
    /\ {MaxDraws, EssFloor, MaxWall, MaxCloud, MaxVariables, MaxConstraints} \subseteq Nat
    /\ ClassTimes \subseteq Nat /\ {PersistenceDigits, AlphaUnit} \subseteq Nat \ {0}
-----------------------------------------------------------------------------
(***************************************************************************)
(* pymc_adapter.  A statistic of 0 stands for one that is not finite.      *)
(***************************************************************************)
FitFaults == {"kind", "params", "data", "chains", "tune", "seed", "target", "design"}
Intervals == {90, 94, 95}

PosteriorInit ==
    /\ subject = "posterior"
    /\ \E fault \in SUBSET FitFaults, draws \in {0, 1, MaxDraws, MaxDraws + 1},
          interval \in Intervals \cup {0, 100} :
           /\ Cardinality(fault) <= 1
           /\ st = [fault |-> fault, draws |-> draws, interval |-> interval, spec |-> FALSE,
                    sampled |-> {}, refused |-> FALSE, result |-> {}]

PosteriorUnderWay == subject = "posterior" /\ ~st.refused /\ st.result = {}
PosteriorRefuse == Step("posterior", [st EXCEPT !.refused = TRUE])

\* build_model_spec
BuildModelSpec ==
    /\ PosteriorUnderWay /\ ~st.spec
    /\ IF st.fault \cap {"kind", "params"} # {} THEN PosteriorRefuse
       ELSE Step("posterior", [st EXCEPT !.spec = TRUE])

\* _validate_chains, _validate_budget and _validate_seed
BudgetHolds ==
    /\ st.fault \cap {"chains", "tune", "seed"} = {}
    /\ st.draws > 0 /\ st.draws <= MaxDraws

\* _as_1d_float_array, _as_2d_float_array and the checks of fit_posterior
FitInputHolds ==
    /\ st.fault \cap {"data", "target", "design"} = {}
    /\ 0 < st.interval /\ st.interval < 100

\* pm.sample and the posterior predictive draw: three parameters, and whether
\* each of two predictive means reaches the observed one.
Samples ==
    [ess : [1 .. 3 -> {0, EssFloor - 1, EssFloor}], rhat : {0, 1, 2}, divergences : {0, 1},
     finite : BOOLEAN, reaches : [1 .. 2 -> BOOLEAN], wall : {MaxWall, MaxWall + 1}]

\* fit_posterior, up to the sampler's return: the wall is looked at once the
\* draws are there.
SamplePosterior ==
    /\ PosteriorUnderWay /\ st.spec /\ st.sampled = {}
    /\ IF BudgetHolds /\ FitInputHolds
       THEN \E s \in Samples :
                IF s.wall > MaxWall THEN PosteriorRefuse
                ELSE Step("posterior", [st EXCEPT !.sampled = {s}])
       ELSE PosteriorRefuse

Finite(f) == {f[i] : i \in DOMAIN f} \ {0}

\* Wrong variant: the first value stands for all.
EssFirst(f) == IF f[1] = 0 THEN {} ELSE {f[1]}

\* _compute_ess_min: the least of the finite values, if there is one.
EssMin(f) == {v \in Finite(f) : \A w \in Finite(f) : v <= w}

\* _compute_rhat; 2 stands for a value above RHAT_FLOOR.
RhatHigh(s) == s.rhat = 2

\* _resolve_diagnostics_flag
DiagnosticsFlag(s) ==
    IF s.divergences > 0 \/ RhatHigh(s) \/ \E v \in EssMin(s.ess) : v < EssFloor
    THEN "warn" ELSE "ok"

\* _hdi_low_col and _hdi_high_col know the columns of two intervals.
IntervalKnown == st.interval \in {94, 95}

\* _build_ppc_check: the share of predictive means that reach the observed one.
PpcCheck(s) == Cardinality({i \in DOMAIN s.reaches : s.reaches[i]})

\* _build_summary_stats, the diagnostics and the result.
SummarisePosterior ==
    /\ PosteriorUnderWay
    /\ \E s \in st.sampled :
           IF IntervalKnown /\ s.finite
           THEN Step("posterior", [st EXCEPT !.result =
                    {[flag |-> DiagnosticsFlag(s), p |-> PpcCheck(s), draws |-> st.draws]}])
           ELSE PosteriorRefuse

\* A posterior is reported only for sound inputs, within the draws and the wall
\* allowed, and its flag is "ok" exactly when no divergence was seen and no finite
\* diagnostic of any parameter misses its floor (fit_posterior,
\* _resolve_diagnostics_flag).
PosteriorFlagIsHonest ==
    subject = "posterior" =>
        \A r \in st.result, s \in st.sampled :
            /\ st.fault = {} /\ r.draws \in 1 .. MaxDraws /\ s.wall <= MaxWall
            /\ r.flag = "ok" <=>
                   /\ s.divergences = 0 /\ s.rhat < 2
                   /\ \A i \in DOMAIN s.ess : s.ess[i] = 0 \/ s.ess[i] >= EssFloor
-----------------------------------------------------------------------------
(***************************************************************************)
(* ripser_adapter.  A class is a birth, a death and whether it is          *)
(* essential (its death is infinite).                                      *)
(***************************************************************************)
CloudFaults == {"maxdim", "metric", "seed", "center", "cloud", "thresh"}
Classes == {c \in [birth : ClassTimes, death : ClassTimes, essential : BOOLEAN] :
                c.birth < c.death /\ (c.essential => \A t \in ClassTimes : t <= c.death)}

PersistenceInit ==
    /\ subject = "persistence"
    /\ \E fault \in SUBSET CloudFaults, size \in [{"points", "ambient", "maxdim"} ->
                                                     {MaxCloud, MaxCloud + 1}],
          threshold \in ClassTimes :
           /\ Cardinality(fault) <= 1
           /\ st = [fault |-> fault, size |-> size, threshold |-> threshold, diagram |-> {},
                    rendered |-> {}, error |-> "none", counted |-> {}]

\* _enforce_limits
WithinLimits == \A k \in DOMAIN st.size : st.size[k] <= MaxCloud

\* compute_persistence up to ripser: the arguments and the cloud, then the
\* limits, then the radius.
CloudError ==
    IF st.fault \ {"thresh"} # {} THEN "CONTRACT_INVALID"
    ELSE IF ~WithinLimits THEN "RESOURCE_LIMIT"
    ELSE IF "thresh" \in st.fault THEN "CONTRACT_INVALID"
    ELSE "none"

ComputePersistence ==
    /\ subject = "persistence" /\ st.error = "none" /\ st.diagram = {}
    /\ IF CloudError # "none" THEN Step("persistence", [st EXCEPT !.error = CloudError])
       ELSE \E c, d \in Classes : Step("persistence", [st EXCEPT !.diagram = {<<c, d>>}])

\* _float_to_decimal_str and _quantise_to_sig_digits
RenderTime(t) == IF t = 0 THEN 0 ELSE HalfUp(t, PersistenceDigits)

\* _render_diagram
RenderDiagram ==
    /\ subject = "persistence" /\ st.rendered = {}
    /\ \E d \in st.diagram :
           Step("persistence", [st EXCEPT !.rendered =
               {[i \in DOMAIN d |->
                     [d[i] EXCEPT !.birth = RenderTime(@), !.death = RenderTime(@)]]}])

Persistence(c) == c.death - c.birth

\* long_lived_classes
LongLived(d) == {i \in DOMAIN d : d[i].essential \/ Persistence(d[i]) > st.threshold}

\* max_finite_persistence
MaxFinite(d) ==
    LET finite == {Persistence(d[i]) : i \in {i \in DOMAIN d : ~d[i].essential}}
    IN  {v \in finite : \A w \in finite : w <= v}

CountClasses ==
    /\ subject = "persistence" /\ st.counted = {}
    /\ \E d \in st.rendered :
           Step("persistence", [st EXCEPT !.counted =
               {[long |-> LongLived(d), max |-> MaxFinite(d)]}])

\* The count of long-lived classes, taken from the rounded diagram, agrees with
\* the exact one up to the rounding of a birth and a death, and with the largest
\* finite persistence: some finite class is counted exactly when that exceeds the
\* threshold (long_lived_classes, max_finite_persistence).
CountSurvivesRendering ==
    subject = "persistence" =>
        \A d \in st.diagram, c \in st.counted :
            /\ st.fault = {} /\ WithinLimits
            /\ \A i \in DOMAIN d :
                   LET slack == Place(d[i].death, PersistenceDigits)
                       exact == d[i].death - d[i].birth
                   IN  /\ d[i].essential \/ exact > st.threshold + slack => i \in c.long
                       /\ i \in c.long => d[i].essential \/ exact + slack > st.threshold
            /\ (\E m \in c.max : m > st.threshold)
                   <=> \E i \in c.long : ~d[i].essential
-----------------------------------------------------------------------------
(***************************************************************************)
(* cvxpy_adapter.  A constraint is a box with its bounds, or a matrix      *)
(* constraint with the rows of its matrix and the length of its right-hand *)
(* side.                                                                   *)
(***************************************************************************)
Constraints ==
    [kind : {"box"}, bounds : SUBSET {"lower", "upper"}, rows : {0}, rhs : {0}]
    \cup [kind : {"leq"}, bounds : {{}}, rows : 1 .. 2, rhs : 1 .. 2]
    \cup [kind : {"bogus"}, bounds : {{}}, rows : {0}, rhs : {0}]

SolverAnswers == {"raises", "none", "optimal", "optimal_inaccurate", "infeasible", "unbounded",
                  "infeasible_inaccurate"}

OptimiseInit ==
    /\ subject = "optimise"
    /\ \E solver \in {"clarabel", "glpk", "other"}, type \in {"lp", "ridge", "bogus"},
          n \in {0, 1, MaxVariables, MaxVariables + 1}, lambda \in {-1, 0},
          constraints \in UNION {[1 .. k -> Constraints] : k \in 0 .. 2} :
           /\ lambda = -1 => type = "ridge"
           /\ Len(constraints) = 2 => n > 1 /\ solver = "clarabel"
           /\ st = [solver |-> solver, type |-> type, n |-> n, lambda |-> lambda,
                    constraints |-> constraints, counted |-> {}, built |-> {}, error |-> "none",
                    result |-> {}]

OptimiseUnderWay == subject = "optimise" /\ st.error = "none" /\ st.result = {}
OptimiseFail(e) == Step("optimise", [st EXCEPT !.error = e])

\* is_solver_allowed
SolverAllowed == st.solver \in {"clarabel", "osqp"}

\* _validate_problem_type and _variable_count
ProblemHolds == st.type # "bogus" /\ st.n > 0

CountOf(f(_)) ==
    LET c == [i \in 1 .. 2 |-> IF i \in DOMAIN st.constraints THEN f(st.constraints[i]) ELSE 0]
    IN  c[1] + c[2]

\* _count_scalar_constraints
CountScalarConstraints ==
    CountOf(LAMBDA c : IF c.kind = "box" THEN st.n * Cardinality(c.bounds) ELSE c.rhs)

KindsHold == \A i \in DOMAIN st.constraints : st.constraints[i].kind \in {"box", "leq"}

\* The first refusal of solve before the problem is built.
CapsError ==
    IF ~SolverAllowed THEN "LICENSE_INCOMPATIBLE"
    ELSE IF ~ProblemHolds THEN "CONTRACT_INVALID"
    ELSE IF st.n > MaxVariables THEN "RESOURCE_LIMIT"
    ELSE IF ~KindsHold THEN "CONTRACT_INVALID"
    ELSE IF CountScalarConstraints > MaxConstraints THEN "RESOURCE_LIMIT"
    ELSE "none"

\* solve, up to the caps.
CheckCaps ==
    /\ OptimiseUnderWay /\ st.counted = {}
    /\ IF CapsError # "none" THEN OptimiseFail(CapsError)
       ELSE Step("optimise", [st EXCEPT !.counted = {CountScalarConstraints}])

\* _build_box_constraints and _build_matrix_constraint
ConstraintBuilds(c) == IF c.kind = "box" THEN c.bounds # {} ELSE c.rows = c.rhs
ScalarsOf(c) == IF c.kind = "box" THEN st.n * Cardinality(c.bounds) ELSE c.rows

\* _build_objective with _regularization_parameter, and _build_constraints
BuildProblem ==
    /\ OptimiseUnderWay /\ st.counted # {} /\ st.built = {}
    /\ IF st.lambda < 0 \/ \E i \in DOMAIN st.constraints : ~ConstraintBuilds(st.constraints[i])
       THEN OptimiseFail("CONTRACT_INVALID")
       ELSE Step("optimise", [st EXCEPT !.built = {CountOf(ScalarsOf)}])

\* _map_cvxpy_status
MappedStatus(a) ==
    IF a \in {"optimal", "optimal_inaccurate", "infeasible", "unbounded"} THEN a
    ELSE "solver_error"

\* The rest of solve: a status without a finite objective is an error.
SolveProblem ==
    /\ OptimiseUnderWay /\ st.built # {}
    /\ \E a \in SolverAnswers, finite \in BOOLEAN :
           LET optimal == MappedStatus(a) \in {"optimal", "optimal_inaccurate"}
           IN  Step("optimise", [st EXCEPT !.result =
                   {[status   |-> IF optimal /\ ~finite THEN "solver_error" ELSE MappedStatus(a),
                     solution |-> optimal /\ finite]}])

\* Whatever reaches the solver is within the caps as it was counted before it was
\* built, under an allowed solver; and a status says optimal exactly when a
\* solution comes with it (_count_scalar_constraints, _build_constraints, solve).
SolvedWithinCaps ==
    subject = "optimise" =>
        /\ \A b \in st.built : /\ b <= MaxConstraints /\ st.n \in 1 .. MaxVariables
                               /\ SolverAllowed /\ st.counted = {b}
        /\ \A r \in st.result :
               r.solution <=> r.status \in {"optimal", "optimal_inaccurate"}
-----------------------------------------------------------------------------
(***************************************************************************)
(* pyriemann_adapter: fit_transform, and transform with the state as it    *)
(* comes back from JSON.  A 2 x 2 matrix is its four entries.              *)
(***************************************************************************)
Matrices == [a : 0 .. 2, b : 0 .. 1, c : 0 .. 1, d : 1 .. 2]
\* _assert_spd: symmetric, and both eigenvalues positive.
IsSpd(m) == m.b = m.c /\ m.a + m.d > 0 /\ m.a * m.d > m.b * m.c

CovarianceInit ==
    /\ subject = "covariance"
    /\ \E train \in UNION {[1 .. k -> Matrices] : k \in 0 .. 2},
          alpha \in -1 .. AlphaUnit + 1 :
           st = [train |-> train, alpha |-> alpha, state |-> {}, fitted |-> <<>>, touched |-> FALSE,
                 refused |-> FALSE, new |-> {}, out |-> {}]

CovarianceUnderWay == subject = "covariance" /\ ~st.refused
CovarianceRefuse == Step("covariance", [st EXCEPT !.refused = TRUE])

\* _shrink_toward a target of t / over on the diagonal, over AlphaUnit * over.
ShrinkToward(m, alpha, t, over) ==
    LET entry(x, y) == (AlphaUnit - alpha) * over * x + alpha * y
    IN  [a |-> entry(m.a, t), b |-> entry(m.b, 0), c |-> entry(m.c, 0), d |-> entry(m.d, t)]
AlphaHolds(alpha) == 0 <= alpha /\ alpha <= AlphaUnit

\* The mean over the stack of trace / 2, as a sum over its count.
TraceSum(s) == IF Len(s) = 2 THEN s[1].a + s[1].d + s[2].a + s[2].d ELSE s[1].a + s[1].d

FitTransform ==
    /\ CovarianceUnderWay /\ st.state = {}
    /\ IF \/ \E i \in DOMAIN st.train : ~IsSpd(st.train[i])
          \/ st.train = <<>> \/ ~AlphaHolds(st.alpha)
       THEN CovarianceRefuse
       ELSE LET t == TraceSum(st.train)
                k == 2 * Len(st.train)
            IN  Step("covariance", [st EXCEPT
                    !.state = {[alpha |-> st.alpha, n |-> 2, target |-> t, over |-> k,
                                keys |-> TRUE]},
                    !.fitted = [i \in DOMAIN st.train |->
                                   ShrinkToward(st.train[i], st.alpha, t, k)]])

\* The state dict is the caller's: it may come back with a field changed.
TouchState ==
    /\ CovarianceUnderWay /\ st.out = {} /\ ~st.touched
    /\ \E s \in st.state : \E t \in {[s EXCEPT !.alpha = AlphaUnit + 1], [s EXCEPT !.n = 3],
                                     [s EXCEPT !.keys = FALSE], [s EXCEPT !.alpha = 0]} :
           Step("covariance", [st EXCEPT !.state = {t}, !.touched = TRUE])

\* _validate_state, and the shape of the target against n_features
StateHolds(s) == s.keys /\ s.n = 2

\* The target transform uses: the one of the state.
TargetUsed(s, m) == <<s.target, s.over>>

Transform ==
    /\ CovarianceUnderWay /\ st.out = {}
    /\ \E s \in st.state, m \in Matrices :
           IF StateHolds(s) /\ IsSpd(m) /\ AlphaHolds(s.alpha)
           THEN LET t == TargetUsed(s, m)
                IN  Step("covariance", [st EXCEPT !.new = {m},
                        !.out = {ShrinkToward(m, s.alpha, t[1], t[2])}])
           ELSE CovarianceRefuse

\* A new matrix is shrunk with what was learnt from the training set alone: a
\* training matrix given again comes out as it did in the fit, and everything that
\* comes out is symmetric positive definite (fit_transform, transform).
NothingLeaksFromNew ==
    subject = "covariance" =>
        /\ \A i \in DOMAIN st.fitted : IsSpd(st.fitted[i])
        /\ \A m \in st.new, x \in st.out :
               /\ IsSpd(x)
               /\ ~st.touched => \A i \in DOMAIN st.train : st.train[i] = m => st.fitted[i] = x
-----------------------------------------------------------------------------
EstimatorsInit == PosteriorInit \/ PersistenceInit \/ OptimiseInit \/ CovarianceInit
EstimatorsNext ==
    \/ BuildModelSpec \/ SamplePosterior \/ SummarisePosterior
    \/ ComputePersistence \/ RenderDiagram \/ CountClasses
    \/ CheckCaps \/ BuildProblem \/ SolveProblem
    \/ FitTransform \/ TouchState \/ Transform

\* No adapter reports a verdict, a number or a flag its tool did not produce:
\* the provers and solvers, the units core and the statistical estimators.
AdaptersHonest ==
    /\ SmtVerdictIsMeant
    /\ CheckedSourceWasChecked
    /\ ValidatedIsPinned
    /\ GapIsShown
    /\ ConversionErrorBounded
    /\ CoherentIsComplete
    /\ ActiveToolAnswered
    /\ PosteriorFlagIsHonest
    /\ CountSurvivesRendering
    /\ SolvedWithinCaps
    /\ NothingLeaksFromNew
=============================================================================
