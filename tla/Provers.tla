------------------------------ MODULE Provers ------------------------------
(***************************************************************************)
(* The pack adapters that ask a solver, a proof assistant, a unit library  *)
(* or a native algebra tool: the SMT check, the Lean check with its pinned *)
(* mathlib project, the cross-prover manifests, the unit conversion and    *)
(* dimension check, and the smoke of the native algebra tools.  The tools  *)
(* themselves are external; a tool may be absent, fail, or take too long.  *)
(***************************************************************************)
EXTENDS Procedures, Integers, Sequences, FiniteSets

CONSTANTS
    MaxFormulaNodes,  \* MAX_FORMULA_NODES, scaled down
    LeanCheckers,     \* callers of check_lean_source
    MaxLakeSteps,     \* steps on one mathlib project
    SigDigits,        \* CONVERSION_SIG_DIGITS, scaled down
    ContextDigits,    \* precision of the default decimal context, scaled down
    MaxCoefficient    \* largest coefficient of a value to convert

ASSUME ProversAssumption ==
    /\ {MaxFormulaNodes, MaxLakeSteps, MaxCoefficient} \subseteq Nat
    /\ SigDigits \in Nat \ {0} /\ ContextDigits \in 1 .. SigDigits
-----------------------------------------------------------------------------
(***************************************************************************)
(* smt.check on comparisons, negations and conjunctions of comparisons.    *)
(* Variables range over a small interval.                                  *)
(***************************************************************************)
Leaf(op, atom) == [op |-> op, atom |-> atom]
Leaves == {Leaf("int-const", "1"), Leaf("int-var", "x"), Leaf("int-var", "y")}
\* Leaves to refuse; "nameless" is the empty name.
OddLeaves ==
    {Leaf("int-const", "true"), Leaf("int-var", "nameless"), Leaf("atom", "1"), Leaf("mod", "1")}
Interval == 0 .. 2

Comparisons == {"<", "<=", ">", ">=", "=", "distinct"}
SmtOps == Comparisons \cup {"and", "not", "implies", "xor"}

Chains == [op : Comparisons, args : UNION {[1 .. n -> Leaves] : n \in 1 .. 3}]
Pairs  == [op : {"<", "="}, args : {<<Leaf("int-var", "x"), c>> : c \in Leaves}]

Formulas ==
    Chains \cup [op : {"<"}, args : {<<Leaf("int-var", "x"), c>> : c \in OddLeaves}]
    \cup [op : {"and", "not", "implies", "xor"}, args : UNION {[1 .. n -> Pairs] : n \in 1 .. 3}]

\* _is_atom, and what is not an atom
IsLeaf(f) == "atom" \in DOMAIN f

\* _count_nodes: one for every list of the S-expression.
CountNodes(f) ==
    LET nodes(g) == IF ~IsLeaf(g) THEN 1 + Len(g.args) ELSE IF g.op = "atom" THEN 0 ELSE 1
        children[i \in 0 .. Len(f.args)] ==
            IF i = 0 THEN 0 ELSE children[i - 1] + nodes(f.args[i])
    IN  1 + children[Len(f.args)]

\* _validate_arity
ArityHolds(op, n) ==
    CASE op = "not"     -> n = 1
      [] op = "implies" -> n = 2
      [] OTHER          -> n >= 2

\* _validate_leaf
LeafHolds(l) ==
    \/ l.op = "atom"   \* passes here, and is refused by the term builder
    \/ l.op = "int-const" /\ l.atom # "true"
    \/ l.op = "int-var" /\ l.atom # "nameless"

\* _validate_spec_rec
SpecHolds(f) ==
    LET holds(g) == /\ g.op \in SmtOps \ {"xor"} /\ ArityHolds(g.op, Len(g.args))
                    /\ \A i \in DOMAIN g.args : IsLeaf(g.args[i]) => LeafHolds(g.args[i])
    IN  holds(f) /\ \A i \in DOMAIN f.args : ~IsLeaf(f.args[i]) => holds(f.args[i])

\* _validate_spec: the size is checked before the shape.
ValidateSpec(f) == CountNodes(f) <= MaxFormulaNodes /\ SpecHolds(f)

\* _build_term refuses a bare atom.
BareAtom(f) == \E i \in DOMAIN f.args : IsLeaf(f.args[i]) /\ f.args[i].op = "atom"

LeafValue(l, e) == IF l.op = "int-const" THEN 1 ELSE e[l.atom]

Compare(op, a, b) ==
    CASE op = "<" -> a < b [] op = "<=" -> a <= b [] op = ">" -> a > b
      [] op = ">=" -> a >= b [] op = "=" -> a = b

\* _chain_compare: every neighbouring pair.
ChainCompare(op, v) == \A i \in 1 .. Len(v) - 1 : Compare(op, v[i], v[i + 1])

\* _OPERATOR_BUILDERS, on comparisons
TermHolds(f, e) ==
    LET v == [i \in DOMAIN f.args |-> LeafValue(f.args[i], e)]
    IN  IF f.op = "distinct"
        THEN \A i, j \in DOMAIN v : i # j => v[i] # v[j]
        ELSE ChainCompare(f.op, v)

\* _apply_operator
FormulaHolds(f, e) ==
    CASE f.op = "and"     -> \A i \in DOMAIN f.args : TermHolds(f.args[i], e)
      [] f.op = "not"     -> ~TermHolds(f.args[1], e)
      [] f.op = "implies" -> TermHolds(f.args[1], e) => TermHolds(f.args[2], e)
      [] OTHER            -> TermHolds(f, e)

Environments == [{"x", "y"} -> Interval]

\* z3: it finds a model, refutes, or gives up.
Z3Answers(f) ==
    {[result |-> "sat", model |-> {e}] : e \in {e \in Environments : FormulaHolds(f, e)}}
    \cup (IF \A e \in Environments : ~FormulaHolds(f, e)
          THEN {[result |-> "unsat", model |-> {}]} ELSE {})
    \cup {[result |-> "unknown", model |-> {}]}

\* cvc5 is never run: its license is not cleared.
Cvc5Answer == [result |-> "unknown", model |-> {}, available |-> FALSE]

SmtInit ==
    /\ subject = "smt"
    /\ \E f \in Formulas, s \in {"z3", "cvc5", "both", "yices"} :
           st = [formula |-> f, solver |-> s, outcome |-> {}]

\* check with both solvers: a decided answer needs both to decide alike.
BothOutcome(z3) ==
    LET agreement == /\ Cvc5Answer.available
                     /\ "unknown" \notin {z3.result, Cvc5Answer.result}
                     /\ z3.result = Cvc5Answer.result
    IN  IF agreement THEN z3 ELSE [result |-> "unknown", model |-> {}]

SmtCheck ==
    /\ subject = "smt"
    /\ st.outcome = {}
    /\ \/ /\ st.solver \in {"yices", "cvc5"} \/ ~ValidateSpec(st.formula) \/ BareAtom(st.formula)
          /\ Step("smt", [st EXCEPT !.outcome = {[result |-> "SmtError", model |-> {}]}])
       \/ /\ st.solver \in {"z3", "both"} /\ ValidateSpec(st.formula) /\ ~BareAtom(st.formula)
          /\ \E z3 \in Z3Answers(st.formula) :
                 Step("smt", [st EXCEPT !.outcome =
                                  {IF st.solver = "z3" THEN z3 ELSE BothOutcome(z3)}])

\* What a comparison of more than two operands means in SMT-LIB: the relation
\* holds between every earlier and every later operand.
MeantTerm(f, e) ==
    \A i, j \in DOMAIN f.args :
        i < j => LET a == LeafValue(f.args[i], e)
                     b == LeafValue(f.args[j], e)
                 IN  IF f.op = "distinct" THEN a # b ELSE Compare(f.op, a, b)

Meant(f, e) ==
    CASE f.op = "and"     -> \A i \in DOMAIN f.args : MeantTerm(f.args[i], e)
      [] f.op = "not"     -> ~MeantTerm(f.args[1], e)
      [] f.op = "implies" -> MeantTerm(f.args[1], e) => MeantTerm(f.args[2], e)
      [] OTHER            -> MeantTerm(f, e)

\* A sat answer comes with a model of the formula as SMT-LIB means it, an unsat
\* answer only when there is none, and two solvers never decide while one of
\* them was not run (smt.check, _chain_compare).
SmtVerdictIsMeant ==
    subject = "smt" =>
        \A o \in st.outcome :
            /\ o.result = "sat" => o.model # {} /\ \A e \in o.model : Meant(st.formula, e)
            /\ o.result = "unsat" => \A e \in Environments : ~Meant(st.formula, e)
            /\ st.solver = "both" => o.result \in {"unknown", "SmtError"}
-----------------------------------------------------------------------------
(***************************************************************************)
(* check_lean_source, for several callers at once.  A caller without a     *)
(* project writes its source into a directory of its own; callers with a   *)
(* project all write SrlProofCheck.lean in it, and nothing keeps one from  *)
(* writing while another's check is still to run.                          *)
(***************************************************************************)
LeanToolchains == {"missing", "silent", "other_version", "other_commit", "pinned"}
Sources == {"valid", "wrong"}

LeanInit ==
    /\ subject = "lean"
    /\ \E t \in LeanToolchains, place \in [LeanCheckers -> {"tmp", "project"}],
          src \in [LeanCheckers -> Sources], asks \in BOOLEAN :
           st = [toolchain |-> t, place |-> place, source |-> src, asks |-> asks,
                 pc |-> [c \in LeanCheckers |-> "start"],
                 file |-> [p \in {<<c>> : c \in LeanCheckers} \cup {<<>>} |-> "none"],
                 over |-> [c \in LeanCheckers |-> {}],
                 receipt |-> [c \in LeanCheckers |-> {}]]

\* discover_lean_environment
LeanActive == st.toolchain = "pinned"

\* The file a caller's source is written to and checked from.
LeanFile(c) == IF st.place[c] = "tmp" THEN <<c>> ELSE <<>>

\* Whose source is still unchecked in the file when c writes there; kept for the
\* property only.
WrittenOver(c) ==
    [d \in LeanCheckers |->
        IF d # c /\ st.pc[d] = "written" /\ LeanFile(d) = LeanFile(c)
        THEN st.over[d] \cup {c} ELSE st.over[d]]

\* check_lean_source, up to the run of lean.
LeanWrite ==
    \E c \in LeanCheckers :
        /\ subject = "lean" /\ st.pc[c] = "start"
        /\ IF LeanActive
           THEN Step("lean", [st EXCEPT !.pc[c] = "written", !.file[LeanFile(c)] = st.source[c],
                                        !.over = WrittenOver(c)])
           ELSE Step("lean", [st EXCEPT !.pc[c] = "done",
                    !.receipt[c] = {[status |-> "WAIT_TOOLCHAIN", source |-> st.source[c],
                                     axioms |-> {}, report |-> <<>>]}])

\* _extract_axioms: the first report decides, and "does not depend" anywhere wins.
ExtractAxioms(lines) ==
    IF \E i \in DOMAIN lines : lines[i] = "none" THEN "no axioms"
    ELSE IF \E i \in DOMAIN lines : lines[i] = "some" THEN "listed"
    ELSE IF lines # <<>> THEN "UNPARSED_AXIOM_OUTPUT" ELSE "no axioms"

\* _proof_receipt
ProofReceipt(c, status, lines) ==
    [status |-> status, source |-> st.source[c], report |-> lines,
     axioms |-> IF st.asks THEN {ExtractAxioms(lines)} ELSE {}]

\* The lines lean prints: a report for each theorem whose axioms the source asks
\* for, if any, among other lines; at most two lines are tried.
LeanLines == UNION {[1 .. n -> {"none", "some", "other"}] : n \in 0 .. 2}

\* _run_lean_file: lean checks what is in the file when it runs.
LeanRun ==
    \E c \in LeanCheckers :
        /\ subject = "lean" /\ st.pc[c] = "written"
        /\ \/ Step("lean", [st EXCEPT !.pc[c] = "done",
                                !.receipt[c] = {ProofReceipt(c, "TIMEOUT", <<>>)}])
           \/ \E lines \in LeanLines :
                  LET status == IF st.file[LeanFile(c)] = "valid" THEN "CHECKED" ELSE "REJECTED"
                  IN  Step("lean", [st EXCEPT !.pc[c] = "done",
                                        !.receipt[c] = {ProofReceipt(c, status, lines)}])

\* A CHECKED receipt comes from the pinned toolchain, and its source was checked:
\* always when the caller has a directory of its own, and in a shared project
\* unless another caller wrote a valid source over it before lean ran.  Axioms
\* lean reported are missing from the inventory only when another theorem's
\* report says that it depends on none (check_lean_source, _extract_axioms).
CheckedSourceWasChecked ==
    subject = "lean" =>
        \A c \in LeanCheckers : \A r \in st.receipt[c] :
            r.status = "CHECKED" =>
                /\ r.source = "valid" \/ \E d \in st.over[c] : st.source[d] = "valid"
                /\ st.place[c] = "tmp" => r.source = "valid"
                /\ st.toolchain = "pinned"
                /\ "no axioms" \in r.axioms =>
                       \A i \in DOMAIN r.report : r.report[i] = "some" =>
                           \E j \in DOMAIN r.report : r.report[j] = "none"
-----------------------------------------------------------------------------
(***************************************************************************)
(* The pinned mathlib project: prepared for one set of pins or another,    *)
(* with a remote whose tag may move, and validated before it is used.      *)
(***************************************************************************)
PinSets == {"p", "q"}
Revision(pins) == <<pins, "pinned">>
TagTargets(pins) == {<<pins, "pinned">>, <<pins, "moved">>}

LakeInit ==
    /\ subject = "lake"
    /\ st = [toolchain |-> {}, lakefile |-> {}, manifest |-> {}, package |-> FALSE,
             preparing |-> {}, prepared |-> {}, validated |-> {}, steps |-> 0]

LakeStep(new) ==
    /\ subject = "lake" /\ st.steps < MaxLakeSteps
    /\ Step("lake", [new EXCEPT !.steps = st.steps + 1])

\* prepare_mathlib_project: the two text files first.
PrepareWrite ==
    \E p \in PinSets :
        /\ subject = "lake" /\ st.preparing = {}
        /\ LakeStep([st EXCEPT !.toolchain = {p}, !.lakefile = {p}, !.validated = {},
                               !.preparing = {[pins |-> p, next |-> "update"]}])

\* lake update mathlib: the lakefile names the tag, the manifest gets the
\* revision the tag stands for today.
LakeUpdate ==
    \E p \in st.preparing :
        /\ p.next = "update"
        /\ \/ \E r \in TagTargets(p.pins) :
                  LakeStep([st EXCEPT !.manifest = {r}, !.package = TRUE,
                                      !.preparing = {[p EXCEPT !.next = "cache"]}])
           \/ LakeStep([st EXCEPT !.preparing = {}, !.prepared = {<<p.pins, "FAIL">>}])

\* lake exe cache get
LakeCacheGet ==
    \E p \in st.preparing, status \in {"PASS", "FAIL"} :
        /\ p.next = "cache"
        /\ LakeStep([st EXCEPT !.preparing = {}, !.prepared = {<<p.pins, status>>}])

\* _manifest_binds_mathlib: revision, tag and url of the first mathlib entry.
ManifestBindsMathlib(p) == st.manifest = {Revision(p)}

\* validate_mathlib_project
ValidateMathlib(p) ==
    /\ st.toolchain = {p} /\ st.lakefile = {p}
    /\ ManifestBindsMathlib(p) /\ st.package

LakeValidate ==
    \E p \in PinSets :
        /\ subject = "lake" /\ st.preparing = {}
        /\ LakeStep([st EXCEPT !.validated = {<<p, ValidateMathlib(p), st.manifest>>}])

\* The project cache is cleaned between sessions, whole or in part.
LakeClean ==
    /\ subject = "lake" /\ st.preparing = {}
    /\ \/ LakeStep([st EXCEPT !.manifest = {}, !.validated = {}])
       \/ LakeStep([st EXCEPT !.package = FALSE, !.validated = {}])

LakeNext ==
    /\ subject = "lake"
    /\ PrepareWrite \/ LakeUpdate \/ LakeCacheGet \/ LakeValidate \/ LakeClean

\* A validated project is the one its pins name, to the revision, even when the
\* last preparation failed, was for other pins, or met a tag that had moved
\* (validate_mathlib_project).
ValidatedIsPinned ==
    subject = "lake" =>
        \A v \in st.validated :
            v[2] => v[3] = {Revision(v[1])} /\ st.lakefile = {v[1]} /\ st.package
-----------------------------------------------------------------------------
(***************************************************************************)
(* The cross-prover contours, the manifests of theorem translations and    *)
(* the admission bundle over them.                                         *)
(***************************************************************************)
ContourIds == {"lean.primary", "rocq.primary", "isabelle.hol", "hol4.primary"}
Assumptions == {"kernel", "imports"}
Logics == {"cic", "hol"}

ContoursInit ==
    /\ subject = "contours"
    /\ \E found \in SUBSET ContourIds, claim \in BOOLEAN, forged \in BOOLEAN,
          assume \in [{"source", "target"} -> SUBSET Assumptions],
          logic \in [{"source", "target"} -> Logics] :
           st = [found |-> found, claim |-> claim, forged |-> forged, assume |-> assume,
                 logic |-> logic, manifest |-> {}, bundle |-> {}, error |-> FALSE]

\* semantic_gap.assumption_delta: the symmetric difference.
AssumptionDelta ==
    (st.assume["source"] \ st.assume["target"]) \cup (st.assume["target"] \ st.assume["source"])

\* build_translation_manifest
BuildTranslation ==
    /\ subject = "contours" /\ st.manifest = {} /\ ~st.error
    /\ IF st.claim
       THEN Step("contours", [st EXCEPT !.error = TRUE])
       ELSE Step("contours", [st EXCEPT !.manifest =
                {[equivalence |-> FALSE, logicDelta |-> st.logic["source"] # st.logic["target"],
                  delta |-> AssumptionDelta]}])

\* discover_cross_prover_contours: an executable on the path is enough.
ContourStatus(c) == IF c \in st.found THEN "ACTIVE" ELSE "WAIT_TOOLCHAIN"

\* build_cross_prover_admission_bundle, on the manifest as built or as altered on
\* its way here to claim equivalence.
BuildProverBundle ==
    /\ subject = "contours" /\ st.bundle = {} /\ ~st.error
    /\ \E manifest \in st.manifest :
           LET given == [manifest EXCEPT !.equivalence = st.forged]
           IN  IF given.equivalence
               THEN Step("contours", [st EXCEPT !.error = TRUE])
               ELSE Step("contours", [st EXCEPT !.bundle =
                        {[manifest |-> given,
                          active |-> {c \in ContourIds : ContourStatus(c) = "ACTIVE"},
                          wait |-> {c \in ContourIds : ContourStatus(c) = "WAIT_TOOLCHAIN"}]}])

\* A bundle that shows no semantic gap is about two statements with the same
\* assumptions and logic; a claimed equivalence never gets into one, and every
\* contour is either active or waiting (build_translation_manifest and
\* build_cross_prover_admission_bundle).
GapIsShown ==
    subject = "contours" =>
        \A b \in st.bundle :
            /\ (b.manifest.delta = {} /\ ~b.manifest.logicDelta) =>
                   <<st.assume["source"], st.logic["source"]>> =
                       <<st.assume["target"], st.logic["target"]>>
            /\ ~b.manifest.equivalence /\ ~st.claim
            /\ b.active \cup b.wait = ContourIds /\ b.active \cap b.wait = {}
-----------------------------------------------------------------------------
(***************************************************************************)
(* units.convert: same dimension, then a product with the factor (one for  *)
(* the coherent units of the pinned subset) rounded to a number of         *)
(* significant digits.  A value is a coefficient; its exponent does not    *)
(* matter to the rounding.                                                 *)
(***************************************************************************)
UnitNames == {"N", "J", "kg*m/s^2", "km", "none"}
PinnedSubset == {"N", "J", "kg*m/s^2"}
DimensionOf == [u \in PinnedSubset |-> IF u = "J" THEN "energy" ELSE "force"]

Power10(n) == LET p[i \in 0 .. n] == IF i = 0 THEN 1 ELSE 10 * p[i - 1]
              IN  p[n]

\* The number of digits of a positive coefficient.
DigitCount(c) == CHOOSE n \in 1 .. c : Power10(n - 1) <= c /\ c < Power10(n)

\* One unit of the last of the first `digits' digits of c.
Place(c, digits) == IF DigitCount(c) <= digits THEN 1 ELSE Power10(DigitCount(c) - digits)

HalfUp(c, digits) ==
    LET u == Place(c, digits) IN ((2 * c + u) \div (2 * u)) * u

HalfEven(c, digits) ==
    LET u == Place(c, digits)
        q == c \div u
        twice == 2 * (c % u)
    IN  u * (IF twice > u \/ (twice = u /\ q % 2 = 1) THEN q + 1 ELSE q)

\* _quantise_to_sig_digits: half up to the significant digits, then normalize,
\* which rounds again to the precision of the default context.
QuantiseToSigDigits(c) ==
    IF c = 0 THEN 0 ELSE HalfEven(HalfUp(c, SigDigits), ContextDigits)

ConvertInit ==
    /\ subject = "convert"
    /\ \E c \in 0 .. MaxCoefficient, wellFormed \in BOOLEAN, from, to \in UnitNames :
           st = [value |-> c, wellFormed |-> wellFormed, from |-> from, to |-> to,
                 refused |-> FALSE, answer |-> {}]

\* convert: value, units, dimensions, then the arithmetic.
Convert ==
    /\ subject = "convert" /\ st.answer = {} /\ ~st.refused
    /\ LET refused == \/ ~st.wellFormed
                      \/ {st.from, st.to} \ PinnedSubset # {}
                      \/ DimensionOf[st.from] # DimensionOf[st.to]
       IN  IF refused THEN Step("convert", [st EXCEPT !.refused = TRUE])
           ELSE Step("convert", [st EXCEPT !.answer = {QuantiseToSigDigits(st.value)}])

Distance(a, b) == IF a >= b THEN a - b ELSE b - a

\* An answered conversion is between units of one dimension.  It is exact for a
\* value of no more digits than the default decimal context has, and otherwise off
\* by at most half a unit of the last digit of each of two roundings: the one to
\* the significant digits, and the one of normalize, which the code takes to keep
\* the value and which rounds to the context's fewer digits
\* (_quantise_to_sig_digits).
ConversionErrorBounded ==
    subject = "convert" =>
        \A r \in st.answer :
            /\ DimensionOf[st.from] = DimensionOf[st.to]
            /\ st.value = 0 => r = 0
            /\ st.value > 0 =>
                   /\ DigitCount(st.value) <= ContextDigits => r = st.value
                   /\ 2 * Distance(r, st.value) <=
                          Place(st.value, SigDigits)
                          + Place(HalfUp(st.value, SigDigits), ContextDigits)

-----------------------------------------------------------------------------
(***************************************************************************)
(* units.validate_dimensions over a symbol table and the constants it      *)
(* refers to, with the dimension of a constant computed once.              *)
(***************************************************************************)
ConstantIds == {"c", "d"}
ConstantUnits == {"absent", "empty", "N", "J", "km"}
SymbolRefs == {"none", "c", "d"}

DimensionInit ==
    /\ subject = "dimension"
    /\ \E symbols \in UNION {[1 .. n -> SymbolRefs] : n \in 0 .. 3},
          units \in [ConstantIds -> ConstantUnits] :
           st = [symbols |-> symbols, units |-> units, at |-> 1, memo |-> {}, checked |-> 0,
                 dimensions |-> {}, mismatches |-> {}, error |-> FALSE, status |-> {}]

Running == subject = "dimension" /\ ~st.error /\ st.status = {}

MemoHit(ref) == {m \in st.memo : m.ref = ref}
NextSymbol == [st EXCEPT !.at = @ + 1]
\* The symbol is listed with the dimension of its constant, which is remembered.
WithDimension(ref, dim) ==
    [st EXCEPT !.at = @ + 1, !.checked = @ + 1, !.memo = @ \cup {[ref |-> ref, dim |-> dim]},
               !.dimensions = @ \cup {<<st.at, dim>>}]

\* The unit of a constant that is looked up for the first time.
LookUp(ref) ==
    \/ /\ st.units[ref] = "absent"
       /\ Step("dimension", [NextSymbol EXCEPT !.mismatches = @ \cup {st.at}])
    \/ /\ st.units[ref] \in {"empty", "km"}
       /\ Step("dimension", [st EXCEPT !.error = TRUE])
    \/ /\ st.units[ref] \in PinnedSubset
       /\ Step("dimension", WithDimension(ref, DimensionOf[st.units[ref]]))

\* _check_symbol_constant, for the next symbol of the table.
CheckSymbol ==
    /\ Running /\ st.at <= Len(st.symbols)
    /\ LET ref == st.symbols[st.at]
       IN  \/ ref = "none" /\ Step("dimension", NextSymbol)
           \/ /\ ref # "none"
              /\ \E m \in MemoHit(ref) : Step("dimension", WithDimension(ref, m.dim))
           \/ ref # "none" /\ MemoHit(ref) = {} /\ LookUp(ref)

\* The end of validate_dimensions.
DimensionStatus ==
    /\ Running /\ st.at > Len(st.symbols)
    /\ Step("dimension", [st EXCEPT !.status =
                              {IF st.mismatches = {} THEN "coherent" ELSE "incoherent"}])

\* A coherent table is one in which every reference resolves, and every symbol
\* that has one is listed with the dimension of its own constant, even though
\* dimensions are remembered between symbols (validate_dimensions).
CoherentIsComplete ==
    subject = "dimension" /\ "coherent" \in st.status =>
        \A i \in DOMAIN st.symbols :
            LET ref == st.symbols[i]
            IN  ref # "none" =>
                    /\ st.units[ref] \in PinnedSubset
                    /\ {d \in st.dimensions : d[1] = i} = {<<i, DimensionOf[st.units[ref]]>>}
-----------------------------------------------------------------------------
(***************************************************************************)
(* run_a08_native_smoke: one probe after the other.  A tool is missing, or *)
(* only in the project's virtual environment, or it answers, wrongly or    *)
(* not, or it does not come back in time, and then nothing is reported.    *)
(***************************************************************************)
NativeTools == <<"pari-gp", "maxima", "gap", "singular", "z3-native", "cvc5-native">>
ToolStates == {"missing", "in_venv", "right", "wrong", "exits", "hangs"}

NativeInit ==
    /\ subject = "native"
    /\ \E tools \in [DOMAIN NativeTools -> ToolStates] :
           /\ Cardinality({i \in DOMAIN tools : tools[i] # "right"}) <= 3
           /\ st = [tools |-> tools, probes |-> <<>>, raised |-> FALSE]

\* _which
Which(state) == state \notin {"missing", "in_venv"}

\* One probe: _probe_pari_gp, _probe_maxima, _probe_gap, _probe_singular,
\* _probe_z3_native, _probe_cvc5_native.
ProbeTool(state) == IF Which(state) /\ state = "right" THEN "ACTIVE" ELSE "WAIT_TOOLCHAIN"

NativeProbe ==
    /\ subject = "native" /\ ~st.raised /\ Len(st.probes) < Len(NativeTools)
    /\ LET state == st.tools[Len(st.probes) + 1]
       IN  IF state = "hangs"
           THEN Step("native", [st EXCEPT !.raised = TRUE, !.probes = <<>>])
           ELSE Step("native", [st EXCEPT !.probes = Append(@, ProbeTool(state))])

\* A tool reported active is on the path outside the virtual environment and gave
\* the right answers; a complete smoke has one entry per tool
\* (run_a08_native_smoke).
ActiveToolAnswered ==
    subject = "native" =>
        \A i \in DOMAIN st.probes : st.probes[i] = "ACTIVE" <=> st.tools[i] = "right"
-----------------------------------------------------------------------------
ProversInit ==
    \/ SmtInit \/ LeanInit \/ LakeInit \/ ContoursInit \/ ConvertInit \/ DimensionInit
    \/ NativeInit
ProversNext ==
    \/ SmtCheck \/ LeanWrite \/ LeanRun \/ LakeNext \/ BuildTranslation \/ BuildProverBundle
    \/ Convert \/ CheckSymbol \/ DimensionStatus \/ NativeProbe
=============================================================================
