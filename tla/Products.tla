------------------------------ MODULE Products ------------------------------
(***************************************************************************)
(* The scientific products: the law miner's fit against a permuted null,   *)
(* the linear solver of the causal workload, the activation smokes of the  *)
(* stages A12, A13 and A14, and the A16 product receipts built from the    *)
(* stage receipts.  The scientific libraries are external: a workload      *)
(* passes or fails one of its checks.                                      *)
(***************************************************************************)
EXTENDS Procedures, Integers, Sequences, FiniteSets

CONSTANTS
    LawPoints,      \* observations of one law
    LawValues,      \* values of an observation
    MatrixBound,    \* largest entry of the normal matrix of the causal fit
    PivotScale,     \* _SINGULAR_MATRIX_TOLERANCE is 1 / PivotScale
    MaxDelta,       \* largest error of a terminal value
    OdeTolerance    \* _ODE_ABS_TOLERANCE, scaled

ASSUME ProductsAssumption ==
    /\ LawPoints \in Nat /\ LawValues \subseteq Int
    /\ {MatrixBound, MaxDelta, OdeTolerance} \subseteq Nat /\ PivotScale \in Nat \ {0}

\* The sets of at most two things that are wrong.
AtMostTwo(S) == {{}} \cup UNION {{{a, b} : b \in S} : a \in S}
-----------------------------------------------------------------------------
(***************************************************************************)
(* lawminer.fit_linear_law.  A line is kept as a slope and an intercept    *)
(* over one common positive denominator.                                   *)
(***************************************************************************)
Indices == 1 .. LawPoints
AddUp(f) == LET sum[i \in 0 .. LawPoints] == IF i = 0 THEN 0 ELSE sum[i - 1] + f[i] IN sum[LawPoints]
SumOver(S, F(_)) == AddUp([i \in Indices |-> IF i \in S THEN F(i) ELSE 0])

LawInit ==
    /\ subject = "law"
    /\ \E x \in {x \in [Indices -> LawValues] : \A i, j \in Indices : i < j => x[i] <= x[j]},
          y \in [Indices -> {0, 1}], train \in SUBSET (0 .. LawPoints),
          validation \in AtMostTwo(Indices) :
           /\ Cardinality(train) <= 3
           /\ Cardinality(validation) <= 1
           /\ st = [x |-> x, y |-> y, train |-> train, validation |-> validation,
                    line |-> {}, receipt |-> {}, error |-> FALSE]

\* _validate_split
SplitHolds ==
    /\ st.train # {} /\ st.validation # {}
    /\ st.train \cup st.validation \subseteq Indices
    /\ st.train \cap st.validation = {}

Denominator(x, T) ==
    Cardinality(T) * SumOver(T, LAMBDA i : x[i] * x[i])
        - SumOver(T, LAMBDA i : x[i]) * SumOver(T, LAMBDA i : x[i])

SlopeNumerator(x, y, T) ==
    Cardinality(T) * SumOver(T, LAMBDA i : x[i] * y[i])
        - SumOver(T, LAMBDA i : x[i]) * SumOver(T, LAMBDA i : y[i])

\* _linear_fit
LinearFit(x, y, T) ==
    [slope     |-> Cardinality(T) * SlopeNumerator(x, y, T),
     intercept |-> SumOver(T, LAMBDA i : y[i]) * Denominator(x, T)
                       - SlopeNumerator(x, y, T) * SumOver(T, LAMBDA i : x[i]),
     over      |-> Cardinality(T) * Denominator(x, T)]

\* The sum of squares of _rmse, times the square of the line's denominator.
Squares(line, x, y, T) ==
    SumOver(T, LAMBDA i : LET e == line.slope * x[i] + line.intercept - line.over * y[i]
                          IN  e * e)

\* fit_linear_law, up to the fit.
FitLaw ==
    /\ subject = "law" /\ st.line = {} /\ ~st.error
    /\ IF SplitHolds /\ Cardinality(st.train) >= 2 /\ Denominator(st.x, st.train) # 0
       THEN Step("law", [st EXCEPT !.line = {LinearFit(st.x, st.y, st.train)}])
       ELSE Step("law", [st EXCEPT !.error = TRUE])

\* The null fit: the same training points with their values shuffled.
Shuffles(y, T) == {[i \in Indices |-> IF i \in T THEN y[p[i]] ELSE y[i]] :
                       p \in {p \in [T -> T] : \A i, j \in T : p[i] = p[j] => i = j}}

\* _validation_receipt: better than the null on the validation points.
CompareWithNull ==
    /\ subject = "law" /\ st.receipt = {}
    /\ \E line \in st.line : \E shuffled \in Shuffles(st.y, st.train) :
           LET null == LinearFit(st.x, shuffled, st.train)
               beats == Squares(line, st.x, st.y, st.validation)
                            < Squares(null, st.x, st.y, st.validation)
           IN  Step("law", [st EXCEPT !.receipt =
                   {[status |-> IF beats THEN "candidate_observation" ELSE "null_or_inconclusive",
                     null |-> null]}])

\* The fitted line is a least-squares line: no line with a whole slope and a
\* whole intercept fits the training points better, so data on such a line is
\* fitted exactly; and a candidate is never reported when the shuffled null
\* gives the same line (_linear_fit, fit_linear_law).
FitIsLeastSquares ==
    subject = "law" =>
        \A line \in st.line :
            LET own == Squares(line, st.x, st.y, st.train)
            IN  /\ line.over > 0
                /\ \A s, c \in -2 .. 2 :
                       own <= Squares([slope |-> s * line.over, intercept |-> c * line.over,
                                       over |-> line.over], st.x, st.y, st.train)
                /\ \A r \in st.receipt :
                       r.null = line => r.status = "null_or_inconclusive"
-----------------------------------------------------------------------------
(***************************************************************************)
(* applied._solve_3x3: elimination with the largest pivot, on fractions,   *)
(* for the symmetric matrices of normal equations.  The fractions are      *)
(* exact: the rounding of the code's floats is not modelled.               *)
(***************************************************************************)
Three == 1 .. 3
Zero == <<0, 1>>
Abs(n) == IF n < 0 THEN -n ELSE n
Frac(n, d) == IF d < 0 THEN <<-n, -d>> ELSE <<n, d>>
Minus(a, b) == Frac(a[1] * b[2] - b[1] * a[2], a[2] * b[2])
Times(a, b) == Frac(a[1] * b[1], a[2] * b[2])
Quotient(a, b) == Frac(a[1] * b[2], a[2] * b[1])
Equal(a, b) == a[1] * b[2] = b[1] * a[2]
Larger(a, b) == Abs(a[1]) * b[2] > Abs(b[1]) * a[2]
\* abs(divisor) < _SINGULAR_MATRIX_TOLERANCE
TooSmall(a) == Abs(a[1]) * PivotScale < a[2]

SolveInit ==
    /\ subject = "solve"
    /\ \E e \in [1 .. 6 -> -1 .. MatrixBound], v \in [Three -> {0, 1}] :
       LET m == <<<<e[1], e[2], e[3]>>, <<e[2], e[4], e[5]>>, <<e[3], e[5], e[6]>>>>
       IN  st = [matrix |-> m, vector |-> v, pivot |-> 1, singular |-> FALSE,
                 rows |-> [i \in Three |-> [j \in 1 .. 4 |->
                              <<IF j = 4 THEN v[i] ELSE m[i][j], 1>>]]]

\* Wrong variant: no row is exchanged.
NoPivoting(p) == p
\* The first of the rows from p on with the largest entry in column p.
BestRow(p) ==
    CHOOSE r \in p .. 3 : /\ \A q \in p .. 3 : ~Larger(st.rows[q][p], st.rows[r][p])
                          /\ \A q \in p .. r - 1 : Larger(st.rows[r][p], st.rows[q][p])

\* One round of _solve_3x3.
Eliminate ==
    /\ subject = "solve" /\ st.pivot \in Three /\ ~st.singular
    /\ LET p == st.pivot
           b == BestRow(p)
           swapped == [st.rows EXCEPT ![p] = st.rows[b], ![b] = st.rows[p]]
           scaled == [j \in 1 .. 4 |-> Quotient(swapped[p][j], swapped[p][p])]
       IN  IF TooSmall(swapped[p][p])
           THEN Step("solve", [st EXCEPT !.singular = TRUE])
           ELSE Step("solve", [st EXCEPT !.pivot = p + 1, !.rows =
                    [i \in Three |-> IF i = p THEN scaled
                        ELSE [j \in 1 .. 4 |->
                                 Minus(swapped[i][j], Times(swapped[i][p], scaled[j]))]]])

Determinant(m) ==
    m[1][1] * (m[2][2] * m[3][3] - m[2][3] * m[3][2])
    - m[1][2] * (m[2][1] * m[3][3] - m[2][3] * m[3][1])
    + m[1][3] * (m[2][1] * m[3][2] - m[2][2] * m[3][1])

\* The elimination gives up only when no row left has a pivot of the tolerance
\* or more in its column, and then the matrix is singular unless one of those
\* entries is small and not zero: a regular system with such a pivot is called
\* singular too.  An answer it gives solves a regular system (_solve_3x3).
SolutionSolves ==
    subject = "solve" =>
        /\ st.singular =>
               /\ \A q \in st.pivot .. 3 : TooSmall(st.rows[q][st.pivot])
               /\ (\A q \in st.pivot .. 3 : Equal(st.rows[q][st.pivot], Zero))
                      => Determinant(st.matrix) = 0
        /\ st.pivot = 4 =>
               /\ Determinant(st.matrix) # 0
               /\ \A i \in Three :
                      LET t(j) == Times(<<st.matrix[i][j], 1>>, st.rows[j][4])
                      IN  Equal(Minus(<<st.vector[i], 1>>, t(1)),
                                Minus(Zero, Minus(Minus(Zero, t(2)), t(3))))
-----------------------------------------------------------------------------
(***************************************************************************)
(* The activation smokes of the stages: the workloads in their order, each *)
(* with the checks it makes, then the checks over all of them.             *)
(***************************************************************************)
A12Checks == [pysr    |-> {"import", "rmse", "beats_null"},
              pysindy |-> {"import", "coefficient", "rmse", "beats_null"},
              pydmd   |-> {"import", "eigenvalues", "rmse", "beats_null"}]

A12Benchmark == [benchmark |-> {"import", "beats_null"}]

A13Checks == [ripser                    |-> {"import", "circle", "control"},
              pyriemann                 |-> {"import", "mean", "symmetry", "triangle"},
              cvxpy                     |-> {"import", "status", "license"},
              native_bayesian_conjugate |-> {"tail"},
              native_causal_backdoor    |-> {"effect", "falsification"}]

A14OdeChecks == [julia_sciml_ode    |-> {"import", "exit", "terminal"},
                 python_diffrax_ode |-> {"import", "terminal"}]

A14DomainChecks == [python_qutip_quantum           |-> {"import", "transfer"},
                    python_astropy_astronomy       |-> {"import", "range"},
                    python_cantera_combustion      |-> {"import", "ignition"},
                    native_battery_rc              |-> {"soc", "monotone"},
                    python_quimb_many_body         |-> {"import", "ground"},
                    python_cotengra_tensor_network |-> {"import", "cost"}]

A12Packs == <<"pysr", "pysindy", "pydmd", "benchmark">>
A13Packs == <<"ripser", "pyriemann", "cvxpy", "native_bayesian_conjugate",
              "native_causal_backdoor">>
A14Packs == <<"julia_sciml_ode", "python_diffrax_ode", "python_qutip_quantum",
              "python_astropy_astronomy", "python_cantera_combustion", "native_battery_rc",
              "python_quimb_many_body", "python_cotengra_tensor_network">>

StagePacks == [A12 |-> A12Packs, A13 |-> A13Packs, A14 |-> A14Packs]
MergedChecks(f, g) == [p \in DOMAIN f \cup DOMAIN g |-> IF p \in DOMAIN f THEN f[p] ELSE g[p]]
StageChecks == [A12 |-> MergedChecks(A12Checks, A12Benchmark), A13 |-> A13Checks,
                A14 |-> MergedChecks(A14OdeChecks, A14DomainChecks)]
StageFaults(s) == UNION {{<<p, c>> : c \in StageChecks[s][p]} : p \in DOMAIN StageChecks[s]}

StageInit ==
    /\ subject = "stage"
    /\ \E s \in DOMAIN StagePacks :
       \E broken \in AtMostTwo(StageFaults(s)), julia \in {"absent", "broken", "ready"},
          project \in {"none", "half", "prepared"},
          terminal \in [{"julia", "python"} -> -MaxDelta .. MaxDelta] :
           /\ s # "A14" => project = "none" /\ terminal = [l \in {"julia", "python"} |-> 0]
           /\ s = "A13" => julia = "absent"
           /\ s # "A13" /\ broken # {} => julia = "ready"
           /\ st = [stage |-> s, broken |-> broken, julia |-> julia, project |-> project,
                    terminal |-> terminal, ran |-> <<>>, resolved |-> FALSE, receipt |-> FALSE,
                    raised |-> FALSE]

StageRaise == Step("stage", [st EXCEPT !.raised = TRUE])
StageUnderWay == subject = "stage" /\ ~st.raised /\ ~st.receipt

\* resolve_a12_runtime: Julia is there and answers its version probe.
JuliaResolves == st.julia = "ready"

\* resolve_a14_julia_runtime, for A14; a project whose preparation failed after
\* its two files were written passes for prepared.
ResolveRuntime ==
    /\ StageUnderWay /\ ~st.resolved
    /\ IF \/ st.stage \in {"A12", "A14"} /\ ~JuliaResolves
          \/ st.stage = "A14" /\ st.project = "none"
       THEN StageRaise
       ELSE Step("stage", [st EXCEPT !.resolved = TRUE])

\* The admission bundle of A13: a pack that cannot be imported waits.
BundleWaits == {p \in DOMAIN A13Checks : st.stage = "A13" /\ <<p, "import">> \in st.broken}

\* A terminal value further than the tolerance from the exact one fails its
\* workload's own check.
TerminalOff(p) ==
    \/ p = "julia_sciml_ode" /\ Abs(st.terminal["julia"]) > OdeTolerance
    \/ p = "python_diffrax_ode" /\ Abs(st.terminal["python"]) > OdeTolerance

\* What each workload computes is left open; the first of its checks that fails
\* raises (_run_pysr to _run_pydmd, _run_topology_workload to
\* _run_optimization_workload, _run_julia_sciml_ode to _run_cotengra_tensor_network).
A12WorkloadPasses(p) ==
    st.stage = "A12" => \A c \in StageChecks["A12"][p] : <<p, c>> \notin st.broken
A13WorkloadPasses(p) ==
    st.stage = "A13" => \A c \in StageChecks["A13"][p] : <<p, c>> \notin st.broken
A14WorkloadPasses(p) ==
    st.stage = "A14" => \A c \in StageChecks["A14"][p] : <<p, c>> \notin st.broken
WorkloadPasses(p) == A12WorkloadPasses(p) /\ A13WorkloadPasses(p) /\ A14WorkloadPasses(p)

\* _run_timed, for the next workload.
RunWorkload ==
    /\ StageUnderWay /\ st.resolved /\ Len(st.ran) < Len(StagePacks[st.stage])
    /\ LET p == StagePacks[st.stage][Len(st.ran) + 1]
       IN  IF WorkloadPasses(p) /\ ~TerminalOff(p)
           THEN Step("stage", [st EXCEPT !.ran = Append(@, p)])
           ELSE StageRaise

\* _build_cross_language_ode_receipt
CrossLanguageAgrees == Abs(st.terminal["julia"] - st.terminal["python"]) <= OdeTolerance

\* The receipt is assembled and validated (_validate_a13_receipt,
\* _validate_a14_receipt).
ValidateStage ==
    /\ StageUnderWay /\ st.resolved /\ Len(st.ran) = Len(StagePacks[st.stage])
    /\ IF BundleWaits = {} /\ CrossLanguageAgrees
       THEN Step("stage", [st EXCEPT !.receipt = TRUE])
       ELSE StageRaise

\* An activation receipt exists only when every workload of the stage ran and
\* passed all of its checks, the null surrogate's included, and the two ODE
\* solvers agree with each other and with the exact value.  That the Julia
\* project was prepared to the end is not asked: its two files are enough
\* (run_a12_discovery_dynamics_smoke, run_a13_applied_science_smoke,
\* run_a14_sciml_domain_smoke).
StageReceiptIsEarned ==
    subject = "stage" /\ st.receipt =>
        /\ st.broken = {} /\ st.ran = StagePacks[st.stage]
        /\ st.stage = "A14" =>
               /\ Abs(st.terminal["julia"] - st.terminal["python"]) <= OdeTolerance
               /\ \A l \in {"julia", "python"} : Abs(st.terminal[l]) <= OdeTolerance
               /\ st.project # "none"
-----------------------------------------------------------------------------
(***************************************************************************)
(* build_a16_products_receipt over the stage receipts found on disk, and   *)
(* validate_a16_products_receipt on the receipt as it comes back.          *)
(***************************************************************************)
A16Products == <<"lawminer", "formal_verification_lab", "geometry_physics_compiler",
                 "causal_economy_lab", "literature_to_knowledge_graph">>

RequiredChecks == [A09 |-> <<"accept_reject", "mathlib">>,
                   A10 |-> <<"rocq", "isabelle", "hol4", "gaps">>,
                   A11 |-> <<"probes", "graph">>,
                   A12 |-> <<"smoke">>, A13 |-> <<"workloads">>, A14 |-> <<"workloads">>]
A16Stages == DOMAIN RequiredChecks
RequiredPacks(s) ==
    IF s = "A12" THEN SubSeq(A12Packs, 1, 3) ELSE IF s \in DOMAIN StagePacks THEN StagePacks[s]
    ELSE <<>>

\* What may be odd about a stage receipt: its head, one of its checks, one of its
\* pack receipts, or what its proofs and sources say.
HeadOddities == {"file_missing", "bad_json", "schema", "stage_id", "not_pass", "authority"}
CheckOddities == {"failed", "dropped", "failed_later"}
PackOddities == {"unbounded", "authority", "dropped", "first_is_last", "superseded"}
Oddities(s) ==
    {<<s, "head", o>> : o \in HeadOddities}
    \cup {<<s, "check", o>> : o \in CheckOddities}
    \cup (IF RequiredPacks(s) = <<>> THEN {} ELSE {<<s, "pack", o>> : o \in PackOddities})
    \cup (CASE s \in {"A09", "A10"} -> {<<s, "proof", "unchecked">>, <<s, "claim", "equivalence">>}
            [] s = "A11" -> {<<s, "sources", "one">>}
            [] s = "A13" -> {<<s, "effect", "unidentified">>}
            [] OTHER -> {})

PackEntry(p) == [id |-> p, bounded |-> TRUE, negative |-> TRUE]

OddChecks(s, odd) ==
    LET good == [i \in DOMAIN RequiredChecks[s] |->
                     [id |-> RequiredChecks[s][i], status |-> "PASS"]]
    IN  IF <<s, "check", "failed">> \in odd THEN [good EXCEPT ![1].status = "FAIL"]
        ELSE IF <<s, "check", "dropped">> \in odd THEN Tail(good)
        ELSE IF <<s, "check", "failed_later">> \in odd
        THEN Append(good, [good[1] EXCEPT !.status = "FAIL"])
        ELSE good

OddPacks(s, odd) ==
    LET good == [i \in DOMAIN RequiredPacks(s) |-> PackEntry(RequiredPacks(s)[i])]
    IN  IF <<s, "pack", "unbounded">> \in odd THEN [good EXCEPT ![1].bounded = FALSE]
        ELSE IF <<s, "pack", "authority">> \in odd THEN [good EXCEPT ![1].negative = FALSE]
        ELSE IF <<s, "pack", "dropped">> \in odd THEN Tail(good)
        ELSE IF <<s, "pack", "first_is_last">> \in odd THEN Append(Tail(good), Head(good))
        ELSE IF <<s, "pack", "superseded">> \in odd
        THEN <<[good[1] EXCEPT !.bounded = FALSE]>> \o good
        ELSE good

StageReceipt(s, odd) ==
    [head       |-> {o[3] : o \in {o \in odd : o[1] = s /\ o[2] = "head"}},
     checks     |-> OddChecks(s, odd),
     packs      |-> OddPacks(s, odd),
     checked    |-> <<s, "proof", "unchecked">> \notin odd,
     claims     |-> <<s, "claim", "equivalence">> \in odd,
     identified |-> <<s, "effect", "unidentified">> \notin odd,
     sources    |-> IF <<s, "sources", "one">> \in odd THEN 1 ELSE 2]

A16Init ==
    /\ subject = "a16"
    /\ \E odd \in AtMostTwo(UNION {Oddities(s) : s \in A16Stages}) :
           st = [receipts |-> [s \in A16Stages |-> StageReceipt(s, odd)], built |-> <<>>,
                 loaded |-> FALSE, refused |-> FALSE, receipt |-> {}, altered |-> {}, valid |-> {}]

A16Refuse == Step("a16", [st EXCEPT !.refused = TRUE])
A16UnderWay == subject = "a16" /\ ~st.refused /\ st.receipt = {}

\* load_stage_receipts and _validate_stage_receipts
LoadStages ==
    /\ A16UnderWay /\ ~st.loaded
    /\ IF \E s \in A16Stages : st.receipts[s].head # {}
       THEN A16Refuse
       ELSE Step("a16", [st EXCEPT !.loaded = TRUE])

\* _check: the first entry with the id decides.
StageCheckPasses(s, id) ==
    LET c == st.receipts[s].checks
        at == {i \in DOMAIN c : c[i].id = id}
    IN  at # {} /\ c[CHOOSE i \in at : \A j \in at : i <= j].status = "PASS"

\* _require_pack_ids
PackIdsAre(s, ids) ==
    LET p == st.receipts[s].packs IN [i \in DOMAIN p |-> p[i].id] = ids

\* _select: the last entry with the id is taken.
Select(s, id) ==
    LET p == st.receipts[s].packs
        at == {i \in DOMAIN p : p[i].id = id}
    IN  IF at = {} THEN {} ELSE {p[CHOOSE i \in at : \A j \in at : i >= j]}

\* _pack_result
PackHolds(entry) == entry.negative /\ entry.bounded
Selected16(s, ids) ==
    \A i \in DOMAIN ids : Select(s, ids[i]) # {} /\ \A e \in Select(s, ids[i]) : PackHolds(e)

Lawminer ==
    /\ StageCheckPasses("A12", "smoke") /\ PackIdsAre("A12", RequiredPacks("A12"))
    /\ \A i \in DOMAIN st.receipts["A12"].packs : PackHolds(st.receipts["A12"].packs[i])

\* _formal_verification_lab and _proof_result
FormalVerificationLab ==
    /\ \A s \in {"A09", "A10"} :
           /\ \A i \in DOMAIN RequiredChecks[s] : StageCheckPasses(s, RequiredChecks[s][i])
           /\ st.receipts[s].checked
    /\ ~st.receipts["A10"].claims

GeometryPhysicsCompiler ==
    /\ StageCheckPasses("A13", "workloads") /\ StageCheckPasses("A14", "workloads")
    /\ Selected16("A13", SubSeq(A13Packs, 1, 3)) /\ Selected16("A14", A14Packs)

CausalEconomyLab ==
    /\ StageCheckPasses("A13", "workloads") /\ Selected16("A13", SubSeq(A13Packs, 3, 5))
    /\ st.receipts["A13"].identified

LiteratureToKnowledgeGraph ==
    /\ StageCheckPasses("A11", "probes") /\ StageCheckPasses("A11", "graph")
    /\ st.receipts["A11"].sources >= 2

ProductHolds(p) ==
    CASE p = "lawminer"                  -> Lawminer
      [] p = "formal_verification_lab"   -> FormalVerificationLab
      [] p = "geometry_physics_compiler" -> GeometryPhysicsCompiler
      [] p = "causal_economy_lab"        -> CausalEconomyLab
      [] OTHER                           -> LiteratureToKnowledgeGraph

\* _product_receipt, for the next product.
BuildProduct ==
    /\ A16UnderWay /\ st.loaded /\ Len(st.built) < Len(A16Products)
    /\ LET p == A16Products[Len(st.built) + 1]
       IN  IF ProductHolds(p) THEN Step("a16", [st EXCEPT !.built = Append(@, p)])
           ELSE A16Refuse

\* The places of a product's receipt and of the whole: what is in them is 0 as
\* built and 1 once altered; an id is the content of what it names.  "negative"
\* stands for the flags that must deny authority, promotion and a second ledger.
ProductFields == {"request", "request_id", "result", "result_id", "preserved", "negative",
                  "product_id", "stage_refs", "backend_ids", "receipt_id"}
TopFields == {"creates_second_ledger", "canonical_writes", "promotion_allowed", "a16_receipt_id"}

\* Each product binds its request and its result by their ids.
IssueReceipt ==
    /\ A16UnderWay /\ st.built = A16Products
    /\ Step("a16", [st EXCEPT !.receipt =
           {[ids |-> st.built, top |-> [f \in TopFields |-> 0],
             products |-> [i \in DOMAIN A16Products |-> [f \in ProductFields |-> 0]]]}])

\* On its way a receipt may be altered, in one place or in two.
AlterReceipt ==
    /\ subject = "a16" /\ st.valid = {} /\ Cardinality(st.altered) < 2
    /\ \E r \in st.receipt, f \in ({"ids"} \cup TopFields \cup ProductFields) \ st.altered :
           Step("a16", [st EXCEPT !.altered = @ \cup {f}, !.receipt =
               {CASE f = "ids"         -> [r EXCEPT !.ids = Tail(@)]
                  [] f \in TopFields  -> [r EXCEPT !.top[f] = 1]
                  [] OTHER            -> [r EXCEPT !.products[2][f] = 1]}])

\* _validate_product: an id is recomputed from what it names.
ValidateProduct(q) ==
    /\ q.request = q.request_id /\ q.result = q.result_id
    /\ q.negative = 0 /\ q.preserved = 0

\* validate_a16_products_receipt
ValidateA16 ==
    /\ subject = "a16" /\ st.valid = {}
    /\ \E r \in st.receipt :
           Step("a16", [st EXCEPT !.valid =
               {/\ r.ids = A16Products
                /\ r.top["creates_second_ledger"] = 0 /\ r.top["canonical_writes"] = 0
                /\ \A i \in DOMAIN r.products : ValidateProduct(r.products[i])}])

\* A product receipt is built only from stage receipts that passed, with every
\* check and every pack receipt the products use present and sound, so that an
\* unidentified effect, an unchecked proof or an unbounded run never reaches a
\* product (build_a16_products_receipt).
ProductsAreBacked ==
    subject = "a16" /\ st.receipt # {} =>
        /\ \A s \in A16Stages : LET r == st.receipts[s] IN
               /\ r.head = {} /\ r.checked /\ r.identified /\ r.sources >= 2
               /\ \A i \in DOMAIN RequiredChecks[s] :
                      \E j \in DOMAIN r.checks :
                          r.checks[j] = [id |-> RequiredChecks[s][i], status |-> "PASS"]
               /\ \A i \in DOMAIN RequiredPacks(s) :
                      \E j \in DOMAIN r.packs : r.packs[j] = PackEntry(RequiredPacks(s)[i])
        /\ ~st.receipts["A10"].claims

\* What is left of a validated receipt as it was built: the products listed, the
\* flags that deny authority and a second ledger, and requests and results that
\* are rewritten only together with their ids.  A product's own id, its stages,
\* the names of its backends, the receipt ids and the promotion flag of the whole
\* are not compared with anything and validate altered
\* (validate_a16_products_receipt, _validate_product).
UncheckedFields == {"product_id", "stage_refs", "backend_ids", "receipt_id",
                    "promotion_allowed", "a16_receipt_id"}
ValidatedIsAsBuilt ==
    subject = "a16" /\ TRUE \in st.valid =>
        /\ st.altered \subseteq UncheckedFields \cup {"request", "request_id", "result", "result_id"}
        /\ "request" \in st.altered <=> "request_id" \in st.altered
        /\ "result" \in st.altered <=> "result_id" \in st.altered
-----------------------------------------------------------------------------
ProductsInit == LawInit \/ SolveInit \/ StageInit \/ A16Init
ProductsNext ==
    \/ FitLaw \/ CompareWithNull \/ Eliminate
    \/ ResolveRuntime \/ RunWorkload \/ ValidateStage
    \/ LoadStages \/ BuildProduct \/ IssueReceipt \/ AlterReceipt \/ ValidateA16

\* A product's receipt is earned by the computation it reports.
ProductsEarned ==
    /\ FitIsLeastSquares
    /\ SolutionSolves
    /\ StageReceiptIsEarned
    /\ ProductsAreBacked
    /\ ValidatedIsAsBuilt
=============================================================================
