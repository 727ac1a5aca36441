---------------------------- MODULE AdapterProofs ----------------------------
(***************************************************************************)
(* What the pack adapters and the products compute, and their invariants:  *)
(* chains of comparisons, rounding, thresholds, shrinkage, least squares,  *)
(* elimination, and the receipts that report them.  ServicesProofs makes   *)
(* theorems of the whole system of it.                                     *)
(***************************************************************************)
EXTENDS AlgorithmProofs, Estimators, Products
-----------------------------------------------------------------------------
(***************************************************************************)
(* Provers: the SMT check.                                                 *)
(***************************************************************************)
\* Leaves have numbers for values.
LEMMA LeafValues ==
    ASSUME NEW l \in Leaves, NEW e \in Environments
    PROVE  LeafValue(l, e) \in Int
<1>1. e["x"] \in Int /\ e["y"] \in Int
  BY DEF Environments, Interval
<1>2. l.op = "int-const" \/ l.atom = "x" \/ l.atom = "y"
  BY DEF Leaves, Leaf
<1> QED BY <1>1, <1>2 DEF LeafValue

\* One operand after the other, or every earlier with every later one.
PairsCompare(op, v, n) == \A i, j \in 1 .. n : i < j => Compare(op, v[i], v[j])

\* The comparisons are transitive.
LEMMA ComparesAlong ==
    ASSUME NEW op \in {"<", "<=", ">", ">=", "="}, NEW a \in Int, NEW b \in Int, NEW c \in Int,
           Compare(op, a, b), Compare(op, b, c)
    PROVE  Compare(op, a, c)
<1>1. CASE op = "<"
  BY <1>1 DEF Compare
<1>2. CASE op = "<="
  BY <1>2 DEF Compare
<1>3. CASE op = ">"
  BY <1>3 DEF Compare
<1>4. CASE op = ">="
  BY <1>4 DEF Compare
<1>5. CASE op = "="
  BY <1>5 DEF Compare
<1> QED BY <1>1, <1>2, <1>3, <1>4, <1>5

\* So a chain of neighbours compared is every pair compared.
LEMMA ChainIsMeant ==
    ASSUME NEW op \in {"<", "<=", ">", ">=", "="}, NEW n \in 1 .. 3, NEW v \in [1 .. n -> Int]
    PROVE  ChainCompare(op, v) <=> PairsCompare(op, v, n)
<1>1. Len(v) = n
  OBVIOUS
<1>2. ChainCompare(op, v) <=> \A i \in 1 .. n - 1 : Compare(op, v[i], v[i + 1])
  BY <1>1, Zenon DEF ChainCompare
<1>3. CASE n = 1
  <2>1. PairsCompare(op, v, n)
    BY <1>3 DEF PairsCompare
  <2>2. \A i \in 1 .. n - 1 : Compare(op, v[i], v[i + 1])
    BY <1>3
  <2> QED BY <1>2, <2>1, <2>2
<1>4. CASE n = 2
  <2>1. PairsCompare(op, v, n) <=> Compare(op, v[1], v[2])
    <3>1. \A i, j \in 1 .. 2 : i < j => i = 1 /\ j = 2
      OBVIOUS
    <3>2. 1 \in 1 .. 2 /\ 2 \in 1 .. 2 /\ 1 < 2
      OBVIOUS
    <3> QED BY <1>4, <3>1, <3>2, Zenon DEF PairsCompare
  <2>2. (\A i \in 1 .. n - 1 : Compare(op, v[i], v[i + 1])) <=> Compare(op, v[1], v[2])
    <3>1. \A i \in 1 .. n - 1 : i = 1
      BY <1>4
    <3>2. 1 \in 1 .. n - 1 /\ 1 + 1 = 2
      BY <1>4
    <3> QED BY <3>1, <3>2
  <2> QED BY <1>2, <2>1, <2>2
<1>5. CASE n = 3
  <2>1. PairsCompare(op, v, n) <=> Compare(op, v[1], v[2]) /\ Compare(op, v[2], v[3]) /\ Compare(op, v[1], v[3])
    <3>1. \A i, j \in 1 .. 3 : i < j => (i = 1 /\ j = 2) \/ (i = 2 /\ j = 3) \/ (i = 1 /\ j = 3)
      OBVIOUS
    <3>2. 1 \in 1 .. 3 /\ 2 \in 1 .. 3 /\ 3 \in 1 .. 3 /\ 1 < 2 /\ 2 < 3 /\ 1 < 3
      OBVIOUS
    <3> QED BY <1>5, <3>1, <3>2, Zenon DEF PairsCompare
  <2>2. (\A i \in 1 .. n - 1 : Compare(op, v[i], v[i + 1])) <=> Compare(op, v[1], v[2]) /\ Compare(op, v[2], v[3])
    <3>1. \A i \in 1 .. n - 1 : i = 1 \/ i = 2
      BY <1>5
    <3>2. 1 \in 1 .. n - 1 /\ 1 + 1 = 2 /\ 2 \in 1 .. n - 1 /\ 2 + 1 = 3
      BY <1>5
    <3> QED BY <3>1, <3>2
  <2>3. v[1] \in Int /\ v[2] \in Int /\ v[3] \in Int
    BY <1>5
  <2>4. Compare(op, v[1], v[2]) /\ Compare(op, v[2], v[3]) => Compare(op, v[1], v[3])
    BY <2>3, ComparesAlong
  <2> QED BY <1>2, <2>1, <2>2, <2>4, Zenon
<1> QED BY <1>3, <1>4, <1>5

\* A comparison of one to three leaves.
TermIs(f) == f.op \in Comparisons /\ \E n \in 1 .. 3 : f.args \in [1 .. n -> Leaves]

\* A term evaluates to what it means.
LEMMA TermIsMeant ==
    ASSUME NEW f, TermIs(f), NEW e \in Environments
    PROVE  TermHolds(f, e) <=> MeantTerm(f, e)
<1>1. PICK n \in 1 .. 3 : f.args \in [1 .. n -> Leaves]
  BY Zenon DEF TermIs
<1> PICK v : v = [i \in DOMAIN f.args |-> LeafValue(f.args[i], e)]
  OBVIOUS
<1>2. DOMAIN f.args = 1 .. n /\ \A i \in 1 .. n : f.args[i] \in Leaves
  BY <1>1
<1>3. v = [i \in 1 .. n |-> LeafValue(f.args[i], e)]
  BY <1>2, Zenon
<1>4. DOMAIN v = 1 .. n /\ \A i \in 1 .. n : v[i] = LeafValue(f.args[i], e)
  BY <1>3
<1>5. v \in [1 .. n -> Int]
  BY <1>2, <1>3, LeafValues
<1>6. TermHolds(f, e) <=> IF f.op = "distinct" THEN \A i, j \in DOMAIN v : i # j => v[i] # v[j] ELSE ChainCompare(f.op, v)
  BY Zenon DEF TermHolds
<1>7. CASE f.op = "distinct"
  <2>1. MeantTerm(f, e) <=> \A i, j \in 1 .. n : i < j => v[i] # v[j]
    BY <1>2, <1>4, <1>7, Zenon DEF MeantTerm
  <2>2. TermHolds(f, e) <=> \A i, j \in 1 .. n : i # j => v[i] # v[j]
    BY <1>4, <1>6, <1>7, Zenon
  <2>3. (\A i, j \in 1 .. n : i < j => v[i] # v[j]) <=> \A i, j \in 1 .. n : i # j => v[i] # v[j]
    <3>1. \A i, j \in 1 .. n : i # j <=> (i < j \/ j < i)
      OBVIOUS
    <3> QED BY <3>1, Zenon
  <2> QED BY <2>1, <2>2, <2>3, Zenon
<1>8. CASE f.op # "distinct"
  <2>1. f.op \in {"<", "<=", ">", ">=", "="}
    BY <1>8 DEF TermIs, Comparisons
  <2>2. MeantTerm(f, e) <=> PairsCompare(f.op, v, n)
    BY <1>2, <1>4, <1>8, Zenon DEF MeantTerm, PairsCompare
  <2>3. TermHolds(f, e) <=> ChainCompare(f.op, v)
    BY <1>6, <1>8, Zenon
  <2>4. ChainCompare(f.op, v) <=> PairsCompare(f.op, v, n)
    BY <1>5, <2>1, ChainIsMeant
  <2> QED BY <2>2, <2>3, <2>4
<1> QED BY <1>7, <1>8

\* The atoms of two operands are such terms.
LEMMA PairIsTerm == ASSUME NEW f \in Pairs PROVE TermIs(f)
<1>1. f.op \in Comparisons
  BY DEF Pairs, Comparisons
<1>2. f.args \in {<<Leaf("int-var", "x"), c>> : c \in Leaves}
  BY DEF Pairs
<1>3. PICK c \in Leaves : f.args = <<Leaf("int-var", "x"), c>>
  BY <1>2, Zenon
<1>4. Leaf("int-var", "x") \in Leaves
  BY Zenon DEF Leaves
<1>5. f.args \in [1 .. 2 -> Leaves]
  BY <1>3, <1>4
<1> QED BY <1>1, <1>5 DEF TermIs

\* So are the chains.
LEMMA ChainIsTerm == ASSUME NEW f \in Chains PROVE TermIs(f)
<1>1. f.op \in Comparisons /\ f.args \in UNION {[1 .. n -> Leaves] : n \in 1 .. 3}
  BY DEF Chains
<1> QED BY <1>1, Zenon DEF TermIs

\* The formulas that pass the checks are comparisons of leaves, or join them.
LEMMA AcceptedIs ==
    ASSUME NEW f \in Formulas, ValidateSpec(f), ~BareAtom(f)
    PROVE  \/ f \in Chains
           \/ f.op \in {"and", "not", "implies"} /\ \E n \in 1 .. 3 : f.args \in [1 .. n -> Pairs] /\ ArityHolds(f.op, n)
<1>1. /\ f.op \in SmtOps \ {"xor"} /\ ArityHolds(f.op, Len(f.args))
      /\ \A i \in DOMAIN f.args : IsLeaf(f.args[i]) => LeafHolds(f.args[i])
  BY Zenon DEF ValidateSpec, SpecHolds
<1>2. CASE f \in [op : {"<"}, args : {<<Leaf("int-var", "x"), c>> : c \in OddLeaves}]
  <2>1. f.args \in {<<Leaf("int-var", "x"), c>> : c \in OddLeaves}
    BY <1>2
  <2>2. PICK c \in OddLeaves : f.args = <<Leaf("int-var", "x"), c>>
    BY <2>1, Zenon
  <2>3. 2 \in DOMAIN f.args /\ f.args[2] = c
    BY <2>2
  <2>4. IsLeaf(c)
    BY DEF OddLeaves, Leaf, IsLeaf
  <2>5. LeafHolds(c) /\ c.op # "atom"
    BY <1>1, <2>3, <2>4, Zenon DEF BareAtom
  <2> QED BY <2>5 DEF OddLeaves, Leaf, LeafHolds
<1>3. CASE f \in [op : {"and", "not", "implies", "xor"}, args : UNION {[1 .. n -> Pairs] : n \in 1 .. 3}]
  <2>1. f.op \in {"and", "not", "implies", "xor"} /\ f.args \in UNION {[1 .. n -> Pairs] : n \in 1 .. 3}
    BY <1>3
  <2>2. PICK n \in 1 .. 3 : f.args \in [1 .. n -> Pairs]
    BY <2>1, Zenon
  <2>3. Len(f.args) = n
    BY <2>2
  <2>4. f.op # "xor"
    BY <1>1
  <2> QED BY <1>1, <2>1, <2>2, <2>3, <2>4
<1> QED BY <1>2, <1>3 DEF Formulas

\* What the solver is asked is what the formula means.
LEMMA FormulaIsMeant ==
    ASSUME NEW f \in Formulas, ValidateSpec(f), ~BareAtom(f), NEW e \in Environments
    PROVE  FormulaHolds(f, e) <=> Meant(f, e)
<1>1. CASE f \in Chains
  <2>1. f.op # "and" /\ f.op # "not" /\ f.op # "implies"
    BY <1>1 DEF Chains, Comparisons
  <2>2. FormulaHolds(f, e) <=> TermHolds(f, e)
    BY <2>1 DEF FormulaHolds
  <2>3. Meant(f, e) <=> MeantTerm(f, e)
    BY <2>1 DEF Meant
  <2>4. TermIs(f)
    BY <1>1, ChainIsTerm
  <2> QED BY <2>2, <2>3, <2>4, TermIsMeant
<1>2. CASE f.op \in {"and", "not", "implies"} /\ \E n \in 1 .. 3 : f.args \in [1 .. n -> Pairs] /\ ArityHolds(f.op, n)
  <2>1. PICK n \in 1 .. 3 : f.args \in [1 .. n -> Pairs] /\ ArityHolds(f.op, n)
    BY <1>2
  <2>2. DOMAIN f.args = 1 .. n /\ \A i \in 1 .. n : f.args[i] \in Pairs
    BY <2>1
  <2>3. \A i \in 1 .. n : TermHolds(f.args[i], e) <=> MeantTerm(f.args[i], e)
    BY <2>2, PairIsTerm, TermIsMeant
  <2>4. CASE f.op = "and"
    <3>1. FormulaHolds(f, e) <=> \A i \in 1 .. n : TermHolds(f.args[i], e)
      BY <2>2, <2>4 DEF FormulaHolds
    <3>2. Meant(f, e) <=> \A i \in 1 .. n : MeantTerm(f.args[i], e)
      BY <2>2, <2>4 DEF Meant
    <3> QED BY <2>3, <3>1, <3>2, Zenon
  <2>5. CASE f.op = "not"
    <3>1. (FormulaHolds(f, e) <=> ~TermHolds(f.args[1], e)) /\ (Meant(f, e) <=> ~MeantTerm(f.args[1], e))
      BY <2>5 DEF FormulaHolds, Meant
    <3>2. 1 \in 1 .. n
      OBVIOUS
    <3> QED BY <2>3, <3>1, <3>2, Zenon
  <2>6. CASE f.op = "implies"
    <3>1. /\ FormulaHolds(f, e) <=> (TermHolds(f.args[1], e) => TermHolds(f.args[2], e))
          /\ Meant(f, e) <=> (MeantTerm(f.args[1], e) => MeantTerm(f.args[2], e))
      BY <2>6 DEF FormulaHolds, Meant
    <3>2. n = 2
      BY <2>1, <2>6 DEF ArityHolds
    <3>3. 1 \in 1 .. n /\ 2 \in 1 .. n
      BY <3>2
    <3> QED BY <2>3, <3>1, <3>3, Zenon
  <2> QED BY <1>2, <2>4, <2>5, <2>6
<1> QED BY <1>1, <1>2, AcceptedIs

\* What is known of an outcome.
OutcomeFacts(f, solver, o) ==
    /\ o.result = "sat" => o.model # {} /\ \A e \in o.model : Meant(f, e)
    /\ o.result = "unsat" => \A e \in Environments : ~Meant(f, e)
    /\ solver = "both" => o.result \in {"unknown", "SmtError"}

SmtInv ==
    subject = "smt" =>
        \E f \in Formulas : \E solver, outcome :
            /\ st = [formula |-> f, solver |-> solver, outcome |-> outcome]
            /\ \A o \in outcome : OutcomeFacts(f, solver, o)

\* The initial states satisfy the SMT invariant.
LEMMA SmtInits == SmtInit => SmtInv
<1> SUFFICES ASSUME SmtInit PROVE SmtInv
  OBVIOUS
<1>1. PICK f \in Formulas, s \in {"z3", "cvc5", "both", "yices"} : st = [formula |-> f, solver |-> s, outcome |-> {}]
  BY Zenon DEF SmtInit
<1> PICK outcome : outcome = {}
  OBVIOUS
<1>2. \A o \in outcome : OutcomeFacts(f, s, o)
  OBVIOUS
<1>3. st = [formula |-> f, solver |-> s, outcome |-> outcome]
  BY <1>1
<1> QED BY <1>2, <1>3, Zenon DEF SmtInv

\* What an answer of the solver says of a formula that was let through.
LEMMA Z3Is ==
    ASSUME NEW f \in Formulas, ValidateSpec(f), ~BareAtom(f), NEW z \in Z3Answers(f)
    PROVE  OutcomeFacts(f, "z3", z)
<1>1. CASE z \in {[result |-> "sat", model |-> {e}] : e \in {e \in Environments : FormulaHolds(f, e)}}
  <2>1. PICK e \in Environments : FormulaHolds(f, e) /\ z = [result |-> "sat", model |-> {e}]
    BY <1>1, Zenon
  <2>2. Meant(f, e)
    BY <2>1, FormulaIsMeant
  <2>3. z.result = "sat" /\ z.model = {e}
    BY <2>1
  <2> QED BY <2>2, <2>3 DEF OutcomeFacts
<1>2. CASE z = [result |-> "unsat", model |-> {}] /\ \A e \in Environments : ~FormulaHolds(f, e)
  <2>1. \A e \in Environments : ~Meant(f, e)
    BY <1>2, FormulaIsMeant
  <2>2. z.result = "unsat"
    BY <1>2
  <2> QED BY <2>1, <2>2 DEF OutcomeFacts
<1>3. CASE z = [result |-> "unknown", model |-> {}]
  BY <1>3 DEF OutcomeFacts
<1> QED BY <1>1, <1>2, <1>3, Zenon DEF Z3Answers

\* Every step of such a call keeps the SMT invariant.
LEMMA SmtSteps == ASSUME SmtInv, SmtCheck PROVE SmtInv'
<1>0. subject = "smt" /\ subject' = "smt"
  BY Zenon DEF SmtCheck, Step
<1>1. PICK f \in Formulas : \E solver, outcome : st = [formula |-> f, solver |-> solver, outcome |-> outcome]
  BY <1>0, Zenon DEF SmtInv
<1>2. PICK solver, outcome : st = [formula |-> f, solver |-> solver, outcome |-> outcome]
  BY <1>1
<1>3. st.formula = f /\ st.solver = solver
  BY <1>2
<1>4. \E o : st' = [st EXCEPT !.outcome = {o}] /\ OutcomeFacts(f, solver, o)
  <2>1. CASE st' = [st EXCEPT !.outcome = {[result |-> "SmtError", model |-> {}]}]
    <3> PICK o : o = [result |-> "SmtError", model |-> {}]
      OBVIOUS
    <3>1. OutcomeFacts(f, solver, o)
      BY DEF OutcomeFacts
    <3> QED BY <2>1, <3>1, Zenon
  <2>2. CASE /\ st.solver \in {"z3", "both"} /\ ValidateSpec(st.formula) /\ ~BareAtom(st.formula)
             /\ \E z3 \in Z3Answers(st.formula) :
                    st' = [st EXCEPT !.outcome = {IF st.solver = "z3" THEN z3 ELSE BothOutcome(z3)}]
    <3>1. PICK z3 \in Z3Answers(f) : st' = [st EXCEPT !.outcome = {IF solver = "z3" THEN z3 ELSE BothOutcome(z3)}]
      BY <1>3, <2>2, Zenon
    <3>2. CASE solver = "z3"
      <4>1. OutcomeFacts(f, "z3", z3)
        BY <1>3, <2>2, Z3Is
      <4> QED BY <3>1, <3>2, <4>1, Zenon
    <3>3. CASE solver # "z3"
      <4>1. BothOutcome(z3) = [result |-> "unknown", model |-> {}]
        BY DEF BothOutcome, Cvc5Answer
      <4>2. OutcomeFacts(f, solver, BothOutcome(z3))
        BY <4>1 DEF OutcomeFacts
      <4> QED BY <3>1, <3>3, <4>2, Zenon
    <3> QED BY <3>2, <3>3
  <2> QED BY <2>1, <2>2, Zenon DEF SmtCheck, Step
<1>5. PICK o : st' = [st EXCEPT !.outcome = {o}] /\ OutcomeFacts(f, solver, o)
  BY <1>4
<1>6. st' = [formula |-> f, solver |-> solver, outcome |-> {o}]
  BY <1>2, <1>5
<1>7. \A p \in {o} : OutcomeFacts(f, solver, p)
  BY <1>5
<1> QED BY <1>6, <1>7, Zenon DEF SmtInv

\* The SMT invariant gives the property its calls are checked for.
LEMMA SmtInvHolds == SmtInv => SmtVerdictIsMeant
<1> SUFFICES ASSUME SmtInv, subject = "smt", NEW o \in st.outcome PROVE OutcomeFacts(st.formula, st.solver, o)
  BY Zenon DEF SmtVerdictIsMeant, OutcomeFacts
<1>1. PICK f \in Formulas : \E solver, outcome :
            /\ st = [formula |-> f, solver |-> solver, outcome |-> outcome]
            /\ \A p \in outcome : OutcomeFacts(f, solver, p)
  BY Zenon DEF SmtInv
<1>2. PICK solver, outcome :
            /\ st = [formula |-> f, solver |-> solver, outcome |-> outcome]
            /\ \A p \in outcome : OutcomeFacts(f, solver, p)
  BY <1>1
<1>3. st.formula = f /\ st.solver = solver /\ st.outcome = outcome
  BY <1>2
<1> QED BY <1>2, <1>3
-----------------------------------------------------------------------------
(***************************************************************************)
(* Provers: the Lean check.  What is in a caller's file when it is checked *)
(* is what the caller wrote, or what another wrote over it meanwhile; and  *)
(* nobody writes over the file of a caller with a directory of its own.    *)
(***************************************************************************)
FileOf(place, c) == IF place[c] = "tmp" THEN <<c>> ELSE <<>>
LeanFiles == {<<c>> : c \in LeanCheckers} \cup {<<>>}

ReceiptHolds(t, tmp, src, over, r) ==
    r.status = "CHECKED" =>
        /\ r.source = "valid" \/ \E d \in over : src[d] = "valid"
        /\ tmp => r.source = "valid"
        /\ t = "pinned"
        /\ "no axioms" \in r.axioms =>
               \A i \in DOMAIN r.report : r.report[i] = "some" =>
                   \E j \in DOMAIN r.report : r.report[j] = "none"

LeanFacts(t, place, src, asks, pc, file, over, receipt) ==
    /\ asks \in BOOLEAN
    /\ pc \in [LeanCheckers -> {"start", "written", "done"}] /\ DOMAIN file = LeanFiles
    /\ DOMAIN over = LeanCheckers /\ DOMAIN receipt = LeanCheckers
    /\ \A c \in LeanCheckers : pc[c] = "start" => receipt[c] = {}
    /\ \A c \in LeanCheckers : pc[c] = "written" =>
           /\ t = "pinned" /\ receipt[c] = {}
           /\ file[FileOf(place, c)] = src[c] \/ \E d \in over[c] : file[FileOf(place, c)] = src[d]
    /\ \A c \in LeanCheckers : place[c] = "tmp" => over[c] = {}
    /\ \A c \in LeanCheckers : \A r \in receipt[c] : ReceiptHolds(t, place[c] = "tmp", src, over[c], r)

LeanRecord(t, place, src, asks, pc, file, over, receipt) ==
    [toolchain |-> t, place |-> place, source |-> src, asks |-> asks, pc |-> pc, file |-> file,
     over |-> over, receipt |-> receipt]

LeanInv ==
    subject = "lean" =>
        \E t, place, src, asks, pc, file, over, receipt :
            /\ st = LeanRecord(t, place, src, asks, pc, file, over, receipt)
            /\ LeanFacts(t, place, src, asks, pc, file, over, receipt)

\* The initial states satisfy the Lean invariant.
LEMMA LeanInits == LeanInit => LeanInv
<1> SUFFICES ASSUME LeanInit PROVE LeanInv
  OBVIOUS
<1>1. PICK t \in LeanToolchains, place \in [LeanCheckers -> {"tmp", "project"}],
          src \in [LeanCheckers -> Sources], asks \in BOOLEAN :
           st = [toolchain |-> t, place |-> place, source |-> src, asks |-> asks,
                 pc |-> [c \in LeanCheckers |-> "start"],
                 file |-> [p \in {<<c>> : c \in LeanCheckers} \cup {<<>>} |-> "none"],
                 over |-> [c \in LeanCheckers |-> {}],
                 receipt |-> [c \in LeanCheckers |-> {}]]
  BY Zenon DEF LeanInit
<1> PICK pc : pc = [c \in LeanCheckers |-> "start"]
  OBVIOUS
<1> PICK file : file = [p \in LeanFiles |-> "none"]
  OBVIOUS
<1> PICK none : none = [c \in LeanCheckers |-> {}]
  OBVIOUS
<1>2. st = LeanRecord(t, place, src, asks, pc, file, none, none)
  BY <1>1, Zenon DEF LeanRecord, LeanFiles
<1>3. pc \in [LeanCheckers -> {"start", "written", "done"}] /\ \A c \in LeanCheckers : pc[c] = "start"
  OBVIOUS
<1>4. DOMAIN file = LeanFiles
  OBVIOUS
<1>5. DOMAIN none = LeanCheckers /\ \A c \in LeanCheckers : none[c] = {}
  OBVIOUS
<1>6. LeanFacts(t, place, src, asks, pc, file, none, none)
  BY <1>3, <1>4, <1>5 DEF LeanFacts
<1> QED BY <1>2, <1>6, Zenon DEF LeanInv

\* Two checkers write the same file only when neither has a temporary directory of its own.
LEMMA FilesDiffer ==
    ASSUME NEW place, NEW c \in LeanCheckers, NEW d \in LeanCheckers, c # d,
           ~(place[c] # "tmp" /\ place[d] # "tmp")
    PROVE  FileOf(place, c) # FileOf(place, d)
BY DEF FileOf

\* Every checker's file is one of the files.
LEMMA FileIs == ASSUME NEW place, NEW c \in LeanCheckers PROVE FileOf(place, c) \in LeanFiles
<1>1. <<c>> \in LeanFiles /\ <<>> \in LeanFiles
  BY Zenon DEF LeanFiles
<1> QED BY <1>1, Zenon DEF FileOf

\* A caller's receipt comes with the end of its check.
LEMMA LeanDone ==
    ASSUME NEW t, NEW place, NEW src, NEW asks, NEW pc, NEW file, NEW over, NEW receipt,
           LeanFacts(t, place, src, asks, pc, file, over, receipt), NEW c \in LeanCheckers, NEW r,
           ReceiptHolds(t, place[c] = "tmp", src, over[c], r)
    PROVE  LeanFacts(t, place, src, asks, [pc EXCEPT ![c] = "done"], file, over, [receipt EXCEPT ![c] = {r}])
<1> PICK pc2 : pc2 = [pc EXCEPT ![c] = "done"]
  OBVIOUS
<1> PICK receipt2 : receipt2 = [receipt EXCEPT ![c] = {r}]
  OBVIOUS
<1>1. /\ pc \in [LeanCheckers -> {"start", "written", "done"}] /\ DOMAIN receipt = LeanCheckers
      /\ \A d \in LeanCheckers : \A q \in receipt[d] : ReceiptHolds(t, place[d] = "tmp", src, over[d], q)
  BY Zenon DEF LeanFacts
<1>2. \A d \in LeanCheckers : pc2[d] = IF d = c THEN "done" ELSE pc[d]
  BY <1>1
<1>3. pc2 \in [LeanCheckers -> {"start", "written", "done"}]
  BY <1>1
<1>4. DOMAIN receipt2 = LeanCheckers /\ \A d \in LeanCheckers : receipt2[d] = IF d = c THEN {r} ELSE receipt[d]
  BY <1>1
<1>5. \A d \in LeanCheckers : \A q \in receipt2[d] : ReceiptHolds(t, place[d] = "tmp", src, over[d], q)
  <2>1. \A q \in {r} : q = r
    OBVIOUS
  <2> QED BY <1>1, <1>4, <2>1, Zenon
<1>6. "done" # "start" /\ "done" # "written"
  OBVIOUS
<1>7. \A d \in LeanCheckers : (pc2[d] = "start" \/ pc2[d] = "written") => pc2[d] = pc[d] /\ receipt2[d] = receipt[d]
  BY <1>2, <1>4, <1>6, Zenon
<1> QED BY <1>3, <1>4, <1>5, <1>7, Zenon DEF LeanFacts

\* A source is written into its file, over what others wait to have checked there.
LEMMA LeanWritten ==
    ASSUME NEW place, NEW src, NEW asks, NEW pc, NEW file, NEW over, NEW receipt,
           LeanFacts("pinned", place, src, asks, pc, file, over, receipt), NEW c \in LeanCheckers, pc[c] = "start",
           NEW over2,
           over2 = [d \in LeanCheckers |->
                       IF d # c /\ pc[d] = "written" /\ FileOf(place, d) = FileOf(place, c)
                       THEN over[d] \cup {c} ELSE over[d]]
    PROVE  LeanFacts("pinned", place, src, asks, [pc EXCEPT ![c] = "written"],
                     [file EXCEPT ![FileOf(place, c)] = src[c]], over2, receipt)
<1> PICK pc2 : pc2 = [pc EXCEPT ![c] = "written"]
  OBVIOUS
<1> PICK file2 : file2 = [file EXCEPT ![FileOf(place, c)] = src[c]]
  OBVIOUS
<1>1. /\ asks \in BOOLEAN /\ pc \in [LeanCheckers -> {"start", "written", "done"}] /\ DOMAIN file = LeanFiles
      /\ DOMAIN receipt = LeanCheckers
      /\ \A d \in LeanCheckers : \A q \in receipt[d] : ReceiptHolds("pinned", place[d] = "tmp", src, over[d], q)
      /\ \A d \in LeanCheckers : pc[d] = "start" => receipt[d] = {}
      /\ \A d \in LeanCheckers : place[d] = "tmp" => over[d] = {}
  BY Zenon DEF LeanFacts
<1>2. \A d \in LeanCheckers : pc[d] = "written" =>
          /\ receipt[d] = {}
          /\ file[FileOf(place, d)] = src[d] \/ \E e \in over[d] : file[FileOf(place, d)] = src[e]
  BY Zenon DEF LeanFacts
<1>4. pc2 \in [LeanCheckers -> {"start", "written", "done"}] /\ \A d \in LeanCheckers : pc2[d] = IF d = c THEN "written" ELSE pc[d]
  BY <1>1
<1>5. DOMAIN file2 = LeanFiles /\ \A p \in LeanFiles : file2[p] = IF p = FileOf(place, c) THEN src[c] ELSE file[p]
  BY <1>1
<1>6. DOMAIN over2 = LeanCheckers /\ \A d \in LeanCheckers : over2[d] =
          IF d # c /\ pc[d] = "written" /\ FileOf(place, d) = FileOf(place, c) THEN over[d] \cup {c} ELSE over[d]
  BY Zenon
<1>7. ASSUME NEW d \in LeanCheckers, pc2[d] = "written"
      PROVE  /\ receipt[d] = {}
             /\ file2[FileOf(place, d)] = src[d] \/ \E e \in over2[d] : file2[FileOf(place, d)] = src[e]
  <2>0. FileOf(place, c) \in LeanFiles /\ FileOf(place, d) \in LeanFiles
    BY FileIs, Zenon
  <2>1. CASE d = c
    BY <1>1, <1>5, <2>0, <2>1, Zenon
  <2>2. CASE d # c /\ FileOf(place, d) = FileOf(place, c)
    <3>1. pc[d] = "written"
      BY <1>4, <1>7, <2>2, Zenon
    <3>2. c \in over2[d]
      BY <1>6, <2>2, <3>1
    <3>3. file2[FileOf(place, d)] = src[c]
      BY <1>5, <2>0, <2>2, Zenon
    <3> QED BY <1>2, <3>1, <3>2, <3>3, Zenon
  <2>3. CASE d # c /\ FileOf(place, d) # FileOf(place, c)
    <3>1. pc[d] = "written"
      BY <1>4, <1>7, <2>3, Zenon
    <3>2. over2[d] = over[d] /\ file2[FileOf(place, d)] = file[FileOf(place, d)]
      BY <1>5, <1>6, <2>0, <2>3, Zenon
    <3> QED BY <1>2, <3>1, <3>2, Zenon
  <2> QED BY <2>1, <2>2, <2>3
<1>8. ASSUME NEW d \in LeanCheckers, pc2[d] = "start" PROVE receipt[d] = {}
  <2>1. "written" # "start"
    OBVIOUS
  <2> QED BY <1>1, <1>4, <1>8, <2>1, Zenon
<1>9. ASSUME NEW d \in LeanCheckers, place[d] = "tmp" PROVE over2[d] = {}
  <2>1. CASE d # c
    <3>1. FileOf(place, c) # FileOf(place, d)
      BY <1>9, <2>1, FilesDiffer
    <3> QED BY <1>1, <1>6, <1>9, <3>1, Zenon
  <2>2. CASE d = c
    BY <1>1, <1>6, <1>9, <2>2, Zenon
  <2> QED BY <2>1, <2>2
<1>10. ASSUME NEW d \in LeanCheckers, NEW q \in receipt[d]
       PROVE  ReceiptHolds("pinned", place[d] = "tmp", src, over2[d], q)
  <2>1. receipt[d] # {}
    OBVIOUS
  <2>2. over2[d] = over[d]
    BY <1>2, <1>6, <2>1, Zenon
  <2> QED BY <1>1, <2>2, Zenon
<1>11. LeanFacts("pinned", place, src, asks, pc2, file2, over2, receipt)
  BY <1>1, <1>4, <1>5, <1>6, <1>7, <1>8, <1>9, <1>10 DEF LeanFacts
<1> QED BY <1>11, Zenon

\* Reported axioms are dropped only for a report of none.
LEMMA AxiomsAreRead ==
    ASSUME NEW lines, ExtractAxioms(lines) = "no axioms", NEW i \in DOMAIN lines, lines[i] = "some"
    PROVE  \E j \in DOMAIN lines : lines[j] = "none"
<1> SUFFICES ASSUME ~\E j \in DOMAIN lines : lines[j] = "none" PROVE FALSE
  OBVIOUS
<1>1. ExtractAxioms(lines) = "listed"
  BY Zenon DEF ExtractAxioms
<1> QED BY <1>1

\* Every step of such a call keeps the Lean invariant.
LEMMA LeanSteps == ASSUME LeanInv, LeanWrite \/ LeanRun PROVE LeanInv'
<1>0. subject = "lean" /\ subject' = "lean"
  BY Zenon DEF LeanWrite, LeanRun, Step
<1>1. PICK t, place, src, asks, pc, file, over, receipt :
            /\ st = LeanRecord(t, place, src, asks, pc, file, over, receipt)
            /\ LeanFacts(t, place, src, asks, pc, file, over, receipt)
  BY <1>0, Zenon DEF LeanInv
<1>2. st.toolchain = t /\ st.place = place /\ st.source = src /\ st.asks = asks /\ st.pc = pc /\ st.file = file
      /\ st.over = over /\ st.receipt = receipt
  BY <1>1 DEF LeanRecord
<1>3. \A c : LeanFile(c) = FileOf(place, c)
  BY <1>2, Zenon DEF LeanFile, FileOf
<1>4. ASSUME NEW c \in LeanCheckers, NEW r, ReceiptHolds(t, place[c] = "tmp", src, over[c], r), st' = [st EXCEPT !.pc[c] = "done", !.receipt[c] = {r}]
      PROVE  LeanInv'
  <2>1. LeanFacts(t, place, src, asks, [pc EXCEPT ![c] = "done"], file, over, [receipt EXCEPT ![c] = {r}])
    BY <1>1, <1>4, LeanDone
  <2>2. st' = LeanRecord(t, place, src, asks, [pc EXCEPT ![c] = "done"], file, over, [receipt EXCEPT ![c] = {r}])
    BY <1>1, <1>4 DEF LeanRecord
  <2> QED BY <2>1, <2>2, Zenon DEF LeanInv
<1>5. CASE LeanWrite
  <2>1. PICK c \in LeanCheckers :
           /\ st.pc[c] = "start"
           /\ IF LeanActive
              THEN st' = [st EXCEPT !.pc[c] = "written", !.file[LeanFile(c)] = st.source[c], !.over = WrittenOver(c)]
              ELSE st' = [st EXCEPT !.pc[c] = "done",
                             !.receipt[c] = {[status |-> "WAIT_TOOLCHAIN", source |-> st.source[c], axioms |-> {}, report |-> <<>>]}]
    BY <1>5, Zenon DEF LeanWrite, Step
  <2>2. CASE LeanActive
    <3>1. t = "pinned"
      BY <1>2, <2>2 DEF LeanActive
    <3> PICK over2 : over2 = WrittenOver(c)
      OBVIOUS
    <3>2. over2 = [d \in LeanCheckers |->
                       IF d # c /\ pc[d] = "written" /\ FileOf(place, d) = FileOf(place, c)
                       THEN over[d] \cup {c} ELSE over[d]]
      BY <1>2, <1>3, Zenon DEF WrittenOver
    <3>3. LeanFacts("pinned", place, src, asks, pc, file, over, receipt) /\ pc[c] = "start"
      BY <1>1, <1>2, <2>1, <3>1, Zenon
    <3>4. LeanFacts("pinned", place, src, asks, [pc EXCEPT ![c] = "written"], [file EXCEPT ![FileOf(place, c)] = src[c]], over2, receipt)
      BY <3>2, <3>3, LeanWritten
    <3>5. st' = [st EXCEPT !.pc[c] = "written", !.file[FileOf(place, c)] = src[c], !.over = over2]
      BY <1>2, <1>3, <2>1, <2>2, Zenon
    <3>6. st' = LeanRecord("pinned", place, src, asks, [pc EXCEPT ![c] = "written"], [file EXCEPT ![FileOf(place, c)] = src[c]], over2, receipt)
      BY <1>1, <3>1, <3>5 DEF LeanRecord
    <3> QED BY <3>4, <3>6, Zenon DEF LeanInv
  <2>3. CASE ~LeanActive
    <3> PICK r : r = [status |-> "WAIT_TOOLCHAIN", source |-> st.source[c], axioms |-> {}, report |-> <<>>]
      OBVIOUS
    <3>1. ReceiptHolds(t, place[c] = "tmp", src, over[c], r)
      <4>1. r.status # "CHECKED"
        OBVIOUS
      <4> QED BY <4>1 DEF ReceiptHolds
    <3>2. st' = [st EXCEPT !.pc[c] = "done", !.receipt[c] = {r}]
      BY <2>1, <2>3, Zenon
    <3> QED BY <1>4, <3>1, <3>2
  <2> QED BY <2>2, <2>3
<1>6. CASE LeanRun
  <2>1. PICK c \in LeanCheckers :
           /\ st.pc[c] = "written"
           /\ \/ st' = [st EXCEPT !.pc[c] = "done", !.receipt[c] = {ProofReceipt(c, "TIMEOUT", <<>>)}]
              \/ \E lines \in LeanLines :
                     st' = [st EXCEPT !.pc[c] = "done", !.receipt[c] =
                               {ProofReceipt(c, IF st.file[LeanFile(c)] = "valid" THEN "CHECKED" ELSE "REJECTED", lines)}]
    BY <1>6, Zenon DEF LeanRun, Step
  <2>2. CASE st' = [st EXCEPT !.pc[c] = "done", !.receipt[c] = {ProofReceipt(c, "TIMEOUT", <<>>)}]
    <3> PICK r : r = ProofReceipt(c, "TIMEOUT", <<>>)
      OBVIOUS
    <3>1. r.status = "TIMEOUT"
      BY DEF ProofReceipt
    <3>2. ReceiptHolds(t, place[c] = "tmp", src, over[c], r)
      BY <3>1 DEF ReceiptHolds
    <3> QED BY <1>4, <2>2, <3>2
  <2>3. ASSUME NEW lines \in LeanLines, NEW status, status = IF st.file[LeanFile(c)] = "valid" THEN "CHECKED" ELSE "REJECTED",
               st' = [st EXCEPT !.pc[c] = "done", !.receipt[c] = {ProofReceipt(c, status, lines)}]
        PROVE  LeanInv'
    <3> PICK r : r = ProofReceipt(c, status, lines)
      OBVIOUS
    <3>1. /\ r.status = status /\ r.source = src[c] /\ r.report = lines
          /\ r.axioms = IF asks THEN {ExtractAxioms(lines)} ELSE {}
      BY <1>2 DEF ProofReceipt
    <3>2. ASSUME status = "CHECKED"
          PROVE  /\ r.source = "valid" \/ \E d \in over[c] : src[d] = "valid"
                 /\ place[c] = "tmp" => r.source = "valid"
                 /\ t = "pinned"
      <4>1. file[FileOf(place, c)] = "valid"
        BY <1>2, <1>3, <2>3, <3>2
      <4>2. /\ t = "pinned" /\ (place[c] = "tmp" => over[c] = {})
            /\ file[FileOf(place, c)] = src[c] \/ \E d \in over[c] : file[FileOf(place, c)] = src[d]
        BY <1>1, <1>2, <2>1, Zenon DEF LeanFacts
      <4> QED BY <3>1, <4>1, <4>2
    <3>3. ASSUME "no axioms" \in r.axioms
          PROVE  \A i \in DOMAIN r.report : r.report[i] = "some" => \E j \in DOMAIN r.report : r.report[j] = "none"
      <4>1. ExtractAxioms(lines) = "no axioms"
        <5>1. CASE asks
          BY <3>1, <3>3, <5>1
        <5>2. CASE ~asks
          BY <3>1, <3>3, <5>2
        <5> QED BY <5>1, <5>2
      <4> QED BY <3>1, <4>1, AxiomsAreRead, Zenon
    <3>4. ReceiptHolds(t, place[c] = "tmp", src, over[c], r)
      BY <3>1, <3>2, <3>3, Zenon DEF ReceiptHolds
    <3> QED BY <1>4, <2>3, <3>4
  <2> QED BY <2>1, <2>2, <2>3
<1> QED BY <1>5, <1>6

\* The Lean invariant gives the property its calls are checked for.
LEMMA LeanInvHolds == LeanInv => CheckedSourceWasChecked
<1> SUFFICES ASSUME LeanInv, subject = "lean", NEW c \in LeanCheckers, NEW r \in st.receipt[c]
             PROVE  ReceiptHolds(st.toolchain, st.place[c] = "tmp", st.source, st.over[c], r)
  BY Zenon DEF CheckedSourceWasChecked, ReceiptHolds
<1>1. PICK t, place, src, asks, pc, file, over, receipt :
            /\ st = LeanRecord(t, place, src, asks, pc, file, over, receipt)
            /\ LeanFacts(t, place, src, asks, pc, file, over, receipt)
  BY Zenon DEF LeanInv
<1>2. st.toolchain = t /\ st.place = place /\ st.source = src /\ st.over = over /\ st.receipt = receipt
  BY <1>1 DEF LeanRecord
<1>3. \A d \in LeanCheckers : \A q \in receipt[d] : ReceiptHolds(t, place[d] = "tmp", src, over[d], q)
  BY <1>1, Zenon DEF LeanFacts
<1> QED BY <1>2, <1>3, Zenon
-----------------------------------------------------------------------------
(***************************************************************************)
(* Provers: the mathlib project, the contours and the native tools.        *)
(***************************************************************************)
\* What a validation found is what the project is while nothing prepares it.
LakeFacts(lakefile, package, preparing, validated) ==
    /\ preparing # {} => validated = {}
    /\ \A v \in validated : v[2] => v[3] = {Revision(v[1])} /\ lakefile = {v[1]} /\ package

LakeRecord(toolchain, lakefile, manifest, package, preparing, prepared, validated, steps) ==
    [toolchain |-> toolchain, lakefile |-> lakefile, manifest |-> manifest, package |-> package,
     preparing |-> preparing, prepared |-> prepared, validated |-> validated, steps |-> steps]

LakeInv ==
    subject = "lake" =>
        \E toolchain, lakefile, manifest, package, preparing, prepared, validated, steps :
            /\ st = LakeRecord(toolchain, lakefile, manifest, package, preparing, prepared, validated, steps)
            /\ LakeFacts(lakefile, package, preparing, validated)

\* Nothing is owed while nothing is validated.
LEMMA NothingValidated ==
    ASSUME NEW lakefile, NEW package, NEW preparing PROVE LakeFacts(lakefile, package, preparing, {})
BY DEF LakeFacts

\* The initial states satisfy the Lake build invariant.
LEMMA LakeInits == LakeInit => LakeInv
<1> SUFFICES ASSUME LakeInit PROVE LakeInv
  OBVIOUS
<1>1. st = LakeRecord({}, {}, {}, FALSE, {}, {}, {}, 0)
  BY Zenon DEF LakeInit, LakeRecord
<1> QED BY <1>1, NothingValidated, Zenon DEF LakeInv

\* Every step of such a call keeps the Lake build invariant.
LEMMA LakeSteps == ASSUME LakeInv, LakeNext PROVE LakeInv'
<1>0. subject = "lake" /\ subject' = "lake"
  BY Zenon DEF LakeNext, PrepareWrite, LakeUpdate, LakeCacheGet, LakeValidate, LakeClean, LakeStep, Step
<1>1. PICK t, f, m, k, p, q, v, n : st = LakeRecord(t, f, m, k, p, q, v, n) /\ LakeFacts(f, k, p, v)
  BY <1>0, Zenon DEF LakeInv
<1>2. st.toolchain = t /\ st.lakefile = f /\ st.manifest = m /\ st.package = k /\ st.preparing = p /\ st.validated = v
  BY <1>1 DEF LakeRecord
<1>3. ASSUME NEW t2, NEW f2, NEW m2, NEW k2, NEW p2, NEW q2, NEW v2, LakeFacts(f2, k2, p2, v2),
             st' = [[st EXCEPT !.toolchain = t2, !.lakefile = f2, !.manifest = m2, !.package = k2, !.preparing = p2,
                               !.prepared = q2, !.validated = v2] EXCEPT !.steps = st.steps + 1]
      PROVE  LakeInv'
  <2>1. st' = LakeRecord(t2, f2, m2, k2, p2, q2, v2, st.steps + 1)
    BY <1>1, <1>3 DEF LakeRecord
  <2> QED BY <1>3, <2>1, Zenon DEF LakeInv
<1>4. CASE PrepareWrite
  <2>1. PICK pins \in PinSets :
          st' = [[st EXCEPT !.toolchain = {pins}, !.lakefile = {pins}, !.validated = {},
                            !.preparing = {[pins |-> pins, next |-> "update"]}] EXCEPT !.steps = st.steps + 1]
    BY <1>4, Zenon DEF PrepareWrite, LakeStep, Step
  <2> PICK p2 : p2 = {[pins |-> pins, next |-> "update"]}
    OBVIOUS
  <2>2. st' = LakeRecord({pins}, {pins}, m, k, p2, q, {}, st.steps + 1)
    BY <1>1, <2>1 DEF LakeRecord
  <2> QED BY <2>2, NothingValidated, Zenon DEF LakeInv
<1>5. CASE LakeUpdate
  <2>1. PICK x \in st.preparing :
          \/ \E r \in TagTargets(x.pins) :
                  st' = [[st EXCEPT !.manifest = {r}, !.package = TRUE,
                                    !.preparing = {[x EXCEPT !.next = "cache"]}] EXCEPT !.steps = st.steps + 1]
          \/ st' = [[st EXCEPT !.preparing = {}, !.prepared = {<<x.pins, "FAIL">>}] EXCEPT !.steps = st.steps + 1]
    BY <1>5, Zenon DEF LakeUpdate, LakeStep, Step
  <2>2. v = {}
    BY <1>1, <1>2 DEF LakeFacts
  <2>3. ASSUME NEW r \in TagTargets(x.pins), NEW p2, p2 = {[x EXCEPT !.next = "cache"]},
               st' = [[st EXCEPT !.manifest = {r}, !.package = TRUE, !.preparing = p2] EXCEPT !.steps = st.steps + 1]
        PROVE  LakeInv'
    <3>1. st' = LakeRecord(t, f, {r}, TRUE, p2, q, {}, st.steps + 1)
      BY <1>1, <2>2, <2>3 DEF LakeRecord
    <3> QED BY <3>1, NothingValidated, Zenon DEF LakeInv
  <2>4. ASSUME NEW q2, st' = [[st EXCEPT !.preparing = {}, !.prepared = q2] EXCEPT !.steps = st.steps + 1]
        PROVE  LakeInv'
    <3>1. st' = LakeRecord(t, f, m, k, {}, q2, {}, st.steps + 1)
      BY <1>1, <2>2, <2>4 DEF LakeRecord
    <3> QED BY <3>1, NothingValidated, Zenon DEF LakeInv
  <2> QED BY <2>1, <2>3, <2>4
<1>6. CASE LakeCacheGet
  <2>1. PICK x, q2 :
          x \in st.preparing /\ st' = [[st EXCEPT !.preparing = {}, !.prepared = q2] EXCEPT !.steps = st.steps + 1]
    <3>1. PICK x \in st.preparing, status \in {"PASS", "FAIL"} :
            st' = [[st EXCEPT !.preparing = {}, !.prepared = {<<x.pins, status>>}] EXCEPT !.steps = st.steps + 1]
      BY <1>6, Zenon DEF LakeCacheGet, LakeStep, Step
    <3> QED BY <3>1, Zenon
  <2>2. v = {}
    BY <1>1, <1>2, <2>1 DEF LakeFacts
  <2>3. st' = LakeRecord(t, f, m, k, {}, q2, {}, st.steps + 1)
    BY <1>1, <2>1, <2>2 DEF LakeRecord
  <2> QED BY <2>3, NothingValidated, Zenon DEF LakeInv
<1>7. CASE LakeValidate
  <2>1. PICK pins \in PinSets :
          /\ st.preparing = {}
          /\ st' = [[st EXCEPT !.validated = {<<pins, ValidateMathlib(pins), st.manifest>>}] EXCEPT !.steps = st.steps + 1]
    BY <1>7, Zenon DEF LakeValidate, LakeStep, Step
  <2> PICK x : x = <<pins, ValidateMathlib(pins), st.manifest>>
    OBVIOUS
  <2>2. x[1] = pins /\ x[3] = m /\ (x[2] <=> ValidateMathlib(pins))
    BY <1>2, Zenon
  <2>3. ASSUME x[2] PROVE x[3] = {Revision(x[1])} /\ f = {x[1]} /\ k
    <3>1. ValidateMathlib(pins)
      BY <2>2, <2>3, Zenon
    <3>2. f = {pins} /\ m = {Revision(pins)} /\ k
      BY <1>2, <3>1, Zenon DEF ValidateMathlib, ManifestBindsMathlib
    <3> QED BY <2>2, <3>2, Zenon
  <2>4. p = {}
    BY <1>2, <2>1
  <2>5. LakeFacts(f, k, p, {x})
    BY <2>3, <2>4, Zenon DEF LakeFacts
  <2>6. st' = [[st EXCEPT !.validated = {x}] EXCEPT !.steps = st.steps + 1]
    BY <2>1, Zenon
  <2>7. ASSUME NEW y, st' = [[st EXCEPT !.validated = y] EXCEPT !.steps = st.steps + 1]
        PROVE  st' = LakeRecord(t, f, m, k, p, q, y, st.steps + 1)
    BY <1>1, <2>7 DEF LakeRecord
  <2>8. st' = LakeRecord(t, f, m, k, p, q, {x}, st.steps + 1)
    BY <2>6, <2>7, Zenon
  <2> QED BY <2>5, <2>8, Zenon DEF LakeInv
<1>8. CASE LakeClean
  <2>1. CASE st' = [[st EXCEPT !.manifest = {}, !.validated = {}] EXCEPT !.steps = st.steps + 1]
    <3>1. st' = LakeRecord(t, f, {}, k, p, q, {}, st.steps + 1)
      BY <1>1, <2>1 DEF LakeRecord
    <3> QED BY <3>1, NothingValidated, Zenon DEF LakeInv
  <2>2. CASE st' = [[st EXCEPT !.package = FALSE, !.validated = {}] EXCEPT !.steps = st.steps + 1]
    <3>1. st' = LakeRecord(t, f, m, FALSE, p, q, {}, st.steps + 1)
      BY <1>1, <2>2 DEF LakeRecord
    <3> QED BY <3>1, NothingValidated, Zenon DEF LakeInv
  <2> QED BY <1>8, <2>1, <2>2, Zenon DEF LakeClean, LakeStep, Step
<1> QED BY <1>4, <1>5, <1>6, <1>7, <1>8, Zenon DEF LakeNext

\* The Lake build invariant gives the property its calls are checked for.
LEMMA LakeInvHolds == LakeInv => ValidatedIsPinned
<1> SUFFICES ASSUME LakeInv, subject = "lake" PROVE ValidatedIsPinned
  BY Zenon DEF ValidatedIsPinned
<1>1. PICK t, f, m, k, p, q, v, n : st = LakeRecord(t, f, m, k, p, q, v, n) /\ LakeFacts(f, k, p, v)
  BY Zenon DEF LakeInv
<1>2. st.lakefile = f /\ st.package = k /\ st.validated = v
  BY <1>1 DEF LakeRecord
<1> QED BY <1>1, <1>2, Zenon DEF ValidatedIsPinned, LakeFacts

\* A manifest says what differs, and only one that claims nothing is bundled.
ManifestIs(manifest, claim, assume, logic) ==
    /\ manifest = [equivalence |-> FALSE, logicDelta |-> manifest.logicDelta, delta |-> manifest.delta] /\ ~claim
    /\ manifest.logicDelta <=> logic["source"] # logic["target"]
    /\ manifest.delta = (assume["source"] \ assume["target"]) \cup (assume["target"] \ assume["source"])

BundleIs(b, claim, assume, logic) ==
    /\ (b.manifest.delta = {} /\ ~b.manifest.logicDelta) =>
           assume["source"] = assume["target"] /\ logic["source"] = logic["target"]
    /\ ~b.manifest.equivalence /\ ~claim
    /\ b.active \cup b.wait = ContourIds /\ b.active \cap b.wait = {}

ContoursRecord(found, claim, forged, assume, logic, manifest, bundle, error) ==
    [found |-> found, claim |-> claim, forged |-> forged, assume |-> assume,
     logic |-> logic, manifest |-> manifest, bundle |-> bundle, error |-> error]

ContoursInv ==
    subject = "contours" =>
        \E found, claim, forged, assume, logic, manifest, bundle, error :
            /\ st = ContoursRecord(found, claim, forged, assume, logic, manifest, bundle, error)
            /\ \A m \in manifest : ManifestIs(m, claim, assume, logic)
            /\ \A b \in bundle : BundleIs(b, claim, assume, logic)

\* The initial states satisfy the translation invariant.
LEMMA ContoursInits == ContoursInit => ContoursInv
<1> SUFFICES ASSUME ContoursInit PROVE ContoursInv
  OBVIOUS
<1>1. PICK found \in SUBSET ContourIds, claim \in BOOLEAN, forged \in BOOLEAN,
          assume \in [{"source", "target"} -> SUBSET Assumptions],
          logic \in [{"source", "target"} -> Logics] :
           st = ContoursRecord(found, claim, forged, assume, logic, {}, {}, FALSE)
  BY Zenon DEF ContoursInit, ContoursRecord
<1> PICK none : none = {}
  OBVIOUS
<1>2. (\A m \in none : ManifestIs(m, claim, assume, logic)) /\ \A b \in none : BundleIs(b, claim, assume, logic)
  OBVIOUS
<1>3. st = ContoursRecord(found, claim, forged, assume, logic, none, none, FALSE)
  BY <1>1
<1> QED BY <1>2, <1>3, Zenon DEF ContoursInv

\* Every step of such a call keeps the translation invariant.
LEMMA ContoursSteps == ASSUME ContoursInv, BuildTranslation \/ BuildProverBundle PROVE ContoursInv'
<1>0. subject = "contours" /\ subject' = "contours"
  BY Zenon DEF BuildTranslation, BuildProverBundle, Step
<1>1. PICK found, claim, forged, assume, logic, manifest, bundle, error :
            /\ st = ContoursRecord(found, claim, forged, assume, logic, manifest, bundle, error)
            /\ \A m \in manifest : ManifestIs(m, claim, assume, logic)
            /\ \A b \in bundle : BundleIs(b, claim, assume, logic)
  BY <1>0, Zenon DEF ContoursInv
<1>2. /\ st.found = found /\ st.claim = claim /\ st.forged = forged /\ st.assume = assume /\ st.logic = logic
      /\ st.manifest = manifest
  BY <1>1 DEF ContoursRecord
<1>3. CASE st' = [st EXCEPT !.error = TRUE]
  <2>1. st' = ContoursRecord(found, claim, forged, assume, logic, manifest, bundle, TRUE)
    BY <1>1, <1>3 DEF ContoursRecord
  <2> QED BY <1>1, <2>1, Zenon DEF ContoursInv
<1>4. ASSUME NEW m, ManifestIs(m, claim, assume, logic), st' = [st EXCEPT !.manifest = {m}] PROVE ContoursInv'
  <2>1. st' = ContoursRecord(found, claim, forged, assume, logic, {m}, bundle, error)
    <3>1. ASSUME NEW y, st' = [st EXCEPT !.manifest = y] PROVE st' = ContoursRecord(found, claim, forged, assume, logic, y, bundle, error)
      BY <1>1, <3>1 DEF ContoursRecord
    <3> QED BY <1>4, <3>1, Zenon
  <2>2. \A x \in {m} : ManifestIs(x, claim, assume, logic)
    BY <1>4
  <2> QED BY <1>1, <2>1, <2>2, Zenon DEF ContoursInv
<1>5. ASSUME NEW b, BundleIs(b, claim, assume, logic), st' = [st EXCEPT !.bundle = {b}] PROVE ContoursInv'
  <2>1. st' = ContoursRecord(found, claim, forged, assume, logic, manifest, {b}, error)
    <3>1. ASSUME NEW y, st' = [st EXCEPT !.bundle = y] PROVE st' = ContoursRecord(found, claim, forged, assume, logic, manifest, y, error)
      BY <1>1, <3>1 DEF ContoursRecord
    <3> QED BY <1>5, <3>1, Zenon
  <2>2. \A x \in {b} : BundleIs(x, claim, assume, logic)
    BY <1>5
  <2> QED BY <1>1, <2>1, <2>2, Zenon DEF ContoursInv
<1>6. CASE BuildTranslation
  <2>1. CASE st.claim
    BY <1>3, <1>6, <2>1, Zenon DEF BuildTranslation, Step
  <2>2. CASE ~st.claim
    <3> PICK d : d = (logic["source"] # logic["target"])
      OBVIOUS
    <3> PICK a : a = (assume["source"] \ assume["target"]) \cup (assume["target"] \ assume["source"])
      OBVIOUS
    <3> PICK m : m = [equivalence |-> FALSE, logicDelta |-> d, delta |-> a]
      OBVIOUS
    <3>1. st' = [st EXCEPT !.manifest = {m}]
      BY <1>2, <1>6, <2>2, Zenon DEF BuildTranslation, Step, AssumptionDelta
    <3>2. m.logicDelta = d /\ m.delta = a
      BY Zenon
    <3>3. ManifestIs(m, claim, assume, logic)
      BY <1>2, <2>2, <3>2, Zenon DEF ManifestIs
    <3> QED BY <1>4, <3>1, <3>3, Zenon
  <2> QED BY <2>1, <2>2
<1>7. CASE BuildProverBundle
  <2>1. PICK m \in manifest :
          IF [m EXCEPT !.equivalence = forged].equivalence
          THEN st' = [st EXCEPT !.error = TRUE]
          ELSE st' = [st EXCEPT !.bundle =
                        {[manifest |-> [m EXCEPT !.equivalence = forged],
                          active |-> {c \in ContourIds : ContourStatus(c) = "ACTIVE"},
                          wait |-> {c \in ContourIds : ContourStatus(c) = "WAIT_TOOLCHAIN"}]}]
    BY <1>2, <1>7, Zenon DEF BuildProverBundle, Step
  <2> PICK g : g = [m EXCEPT !.equivalence = forged]
    OBVIOUS
  <2>2. CASE g.equivalence
    BY <1>3, <2>1, <2>2, Zenon
  <2>3. CASE ~g.equivalence
    <3> PICK active : active = {c \in ContourIds : ContourStatus(c) = "ACTIVE"}
      OBVIOUS
    <3> PICK wait : wait = {c \in ContourIds : ContourStatus(c) = "WAIT_TOOLCHAIN"}
      OBVIOUS
    <3> PICK b : b = [manifest |-> g, active |-> active, wait |-> wait]
      OBVIOUS
    <3>1. st' = [st EXCEPT !.bundle = {b}]
      BY <2>1, <2>3, Zenon
    <3>2. active \cup wait = ContourIds /\ active \cap wait = {}
      BY DEF ContourStatus
    <3>3. ManifestIs(m, claim, assume, logic)
      BY <1>1, <2>1
    <3>4. g.delta = m.delta /\ g.logicDelta = m.logicDelta
      <4>1. m = [equivalence |-> FALSE, logicDelta |-> m.logicDelta, delta |-> m.delta]
        BY <3>3, Zenon DEF ManifestIs
      <4> QED BY <4>1
    <3>5. b.manifest = g /\ b.active = active /\ b.wait = wait
      BY Zenon
    <3>6. ASSUME g.delta = {}, ~g.logicDelta PROVE assume["source"] = assume["target"] /\ logic["source"] = logic["target"]
      <4>1. logic["source"] = logic["target"]
        BY <3>3, <3>4, <3>6, Zenon DEF ManifestIs
      <4>2. (assume["source"] \ assume["target"]) \cup (assume["target"] \ assume["source"]) = {}
        BY <3>3, <3>4, <3>6, Zenon DEF ManifestIs
      <4>3. assume["source"] = assume["target"]
        BY <4>2
      <4> QED BY <4>1, <4>3
    <3>7. ~claim
      BY <3>3, Zenon DEF ManifestIs
    <3>8. BundleIs(b, claim, assume, logic)
      BY <2>3, <3>2, <3>5, <3>6, <3>7, Zenon DEF BundleIs
    <3> QED BY <1>5, <3>1, <3>8, Zenon
  <2> QED BY <2>2, <2>3
<1> QED BY <1>6, <1>7

\* The translation invariant gives the property its calls are checked for.
LEMMA ContoursInvHolds == ContoursInv => GapIsShown
<1> SUFFICES ASSUME ContoursInv, subject = "contours", NEW b \in st.bundle PROVE BundleIs(b, st.claim, st.assume, st.logic)
  BY Zenon DEF GapIsShown, BundleIs
<1>1. PICK found, claim, forged, assume, logic, manifest, bundle, error :
            /\ st = ContoursRecord(found, claim, forged, assume, logic, manifest, bundle, error)
            /\ \A c \in bundle : BundleIs(c, claim, assume, logic)
  BY Zenon DEF ContoursInv
<1>2. st.claim = claim /\ st.assume = assume /\ st.logic = logic /\ st.bundle = bundle
  BY <1>1 DEF ContoursRecord
<1> QED BY <1>1, <1>2

\* The probes that came back agree with the tools.
ProbesAgree(tools, probes) ==
    /\ probes \in Seq({"ACTIVE", "WAIT_TOOLCHAIN"})
    /\ \A i \in 1 .. Len(probes) : probes[i] = "ACTIVE" <=> tools[i] = "right"

NativeInv ==
    subject = "native" =>
        \E tools, probes, raised :
            /\ st = [tools |-> tools, probes |-> probes, raised |-> raised]
            /\ ProbesAgree(tools, probes)

\* The initial states satisfy the native probe invariant.
LEMMA NativeInits == NativeInit => NativeInv
<1> SUFFICES ASSUME NativeInit PROVE NativeInv
  OBVIOUS
<1>1. PICK tools : st = [tools |-> tools, probes |-> <<>>, raised |-> FALSE]
  BY Zenon DEF NativeInit
<1> PICK probes : probes = <<>>
  OBVIOUS
<1>2. ProbesAgree(tools, probes)
  BY DEF ProbesAgree
<1>3. st = [tools |-> tools, probes |-> probes, raised |-> FALSE]
  BY <1>1
<1> QED BY <1>2, <1>3, Zenon DEF NativeInv

\* Every step of such a call keeps the native probe invariant.
LEMMA NativeSteps == ASSUME NativeInv, NativeProbe PROVE NativeInv'
<1>0. subject = "native" /\ subject' = "native"
  BY Zenon DEF NativeProbe, Step
<1>1. PICK tools, probes, raised :
            /\ st = [tools |-> tools, probes |-> probes, raised |-> raised]
            /\ ProbesAgree(tools, probes)
  BY <1>0, Zenon DEF NativeInv
<1>2. st.tools = tools /\ st.probes = probes
  BY <1>1
<1>5. probes \in Seq({"ACTIVE", "WAIT_TOOLCHAIN"}) /\ \A i \in 1 .. Len(probes) : probes[i] = "ACTIVE" <=> tools[i] = "right"
  BY <1>1, Zenon DEF ProbesAgree
<1>3. CASE st' = [st EXCEPT !.raised = TRUE, !.probes = <<>>]
  <2> PICK none : none = <<>>
    OBVIOUS
  <2>1. st' = [tools |-> tools, probes |-> none, raised |-> TRUE]
    BY <1>1, <1>3
  <2>2. ProbesAgree(tools, none)
    BY DEF ProbesAgree
  <2> QED BY <2>1, <2>2, Zenon DEF NativeInv
<1>4. CASE st' = [st EXCEPT !.probes = Append(@, ProbeTool(st.tools[Len(st.probes) + 1]))]
  <2> PICK x : x = ProbeTool(tools[Len(probes) + 1])
    OBVIOUS
  <2>1. x \in {"ACTIVE", "WAIT_TOOLCHAIN"} /\ (x = "ACTIVE" <=> tools[Len(probes) + 1] = "right")
    BY DEF ProbeTool, Which
  <2> PICK new : new = Append(probes, x)
    OBVIOUS
  <2>2. st' = [tools |-> tools, probes |-> new, raised |-> raised]
    BY <1>1, <1>2, <1>4
  <2>3. new \in Seq({"ACTIVE", "WAIT_TOOLCHAIN"}) /\ Len(new) = Len(probes) + 1 /\ new[Len(probes) + 1] = x
        /\ \A i \in 1 .. Len(probes) : new[i] = probes[i]
    BY <1>5, <2>1
  <2>4. \A i \in 1 .. Len(new) : new[i] = "ACTIVE" <=> tools[i] = "right"
    <3> SUFFICES ASSUME NEW i \in 1 .. Len(new) PROVE new[i] = "ACTIVE" <=> tools[i] = "right"
      OBVIOUS
    <3>1. i \in 1 .. Len(probes) \/ i = Len(probes) + 1
      BY <1>5, <2>3
    <3> QED BY <1>5, <2>1, <2>3, <3>1
  <2>5. ProbesAgree(tools, new)
    BY <2>3, <2>4, Zenon DEF ProbesAgree
  <2> QED BY <2>2, <2>5, Zenon DEF NativeInv
<1> QED BY <1>3, <1>4, Zenon DEF NativeProbe, Step

\* The native probe invariant gives the property its calls are checked for.
LEMMA NativeInvHolds == NativeInv => ActiveToolAnswered
<1> SUFFICES ASSUME NativeInv, subject = "native", NEW i \in DOMAIN st.probes PROVE st.probes[i] = "ACTIVE" <=> st.tools[i] = "right"
  BY Zenon DEF ActiveToolAnswered
<1>1. PICK tools, probes, raised :
            /\ st = [tools |-> tools, probes |-> probes, raised |-> raised]
            /\ ProbesAgree(tools, probes)
  BY Zenon DEF NativeInv
<1>2. st.tools = tools /\ st.probes = probes /\ probes \in Seq({"ACTIVE", "WAIT_TOOLCHAIN"})
  BY <1>1 DEF ProbesAgree
<1>3. DOMAIN probes = 1 .. Len(probes)
  BY <1>2
<1>4. \A j \in 1 .. Len(probes) : probes[j] = "ACTIVE" <=> tools[j] = "right"
  BY <1>1, Zenon DEF ProbesAgree
<1> QED BY <1>2, <1>3, <1>4
-----------------------------------------------------------------------------
(***************************************************************************)
(* Rounding to a number of digits.                                         *)
(***************************************************************************)
LEMMA PowerStep == ASSUME NEW e \in Nat PROVE PowerOfTen(e + 1) = 10 * PowerOfTen(e) /\ PowerOfTen(e) \in Nat
<1>1. PICK p : Powers(p, e) /\ PowerOfTen(e) = p[e]
  BY PowerIs
<1>2. e + 1 \in Nat
  OBVIOUS
<1>3. PICK q : Powers(q, e + 1) /\ PowerOfTen(e + 1) = q[e + 1]
  BY <1>2, PowerIs
<1>4. p \in [0 .. e -> Nat] /\ p[0] = 1 /\ \A i \in 1 .. e : p[i] = 10 * p[i - 1]
  BY <1>1 DEF Powers
<1>5. q \in [0 .. e + 1 -> Nat] /\ q[0] = 1 /\ \A i \in 1 .. e + 1 : q[i] = 10 * q[i - 1]
  BY <1>3 DEF Powers
<1> DEFINE S == {i \in 0 .. e : p[i] = q[i]}
<1>6. 0 \in S
  BY <1>4, <1>5
<1>7. ASSUME NEW i \in 0 .. e - 1, i \in S PROVE i + 1 \in S
  <2>1. i + 1 \in 1 .. e /\ i + 1 \in 1 .. e + 1 /\ (i + 1) - 1 = i /\ i + 1 \in 0 .. e
    OBVIOUS
  <2>2. p[i + 1] = 10 * p[(i + 1) - 1] /\ q[i + 1] = 10 * q[(i + 1) - 1]
    BY <1>4, <1>5, <2>1
  <2>3. p[i] = q[i]
    BY <1>7
  <2> QED BY <2>1, <2>2, <2>3
<1>8. \A i \in 0 .. e : i \in S
  <2> HIDE DEF S
  <2> QED BY <1>6, <1>7, InductionUpTo
<1>9. p[e] = q[e] /\ p[e] \in Nat
  BY <1>4, <1>8
<1>10. q[e + 1] = 10 * q[e]
  <2>1. e + 1 \in 1 .. e + 1 /\ (e + 1) - 1 = e
    OBVIOUS
  <2> QED BY <1>5, <2>1
<1> QED BY <1>1, <1>3, <1>9, <1>10

\* The powers of ten, one from the one before.
LEMMA Power10Is == ASSUME NEW n \in Nat PROVE Power10(n) \in Nat /\ Power10(n + 1) = 10 * Power10(n) /\ Power10(0) = 1
<1>1. \A k : Power10(k) = PowerOfTen(k)
  BY Zenon DEF Power10, PowerOfTen
<1>2. PICK p : Powers(p, 0) /\ PowerOfTen(0) = p[0]
  BY PowerIs
<1>3. PowerOfTen(0) = 1
  BY <1>2 DEF Powers
<1> QED BY <1>1, <1>3, PowerStep

\* They outgrow every number.
LEMMA Power10Grows == \A n \in Nat : n < Power10(n)
<1> DEFINE S == {n \in Nat : n < Power10(n)}
<1>1. S \in SUBSET Nat /\ 0 \in S
  BY Power10Is
<1>2. ASSUME NEW n \in S PROVE n + 1 \in S
  BY <1>2, Power10Is
<1>3. S = Nat
  <2> HIDE DEF S
  <2> QED BY <1>1, <1>2, Induction
<1> QED BY <1>3

\* They are in order.
LEMMA Power10Rises == ASSUME NEW m \in Nat, NEW n \in Nat, m <= n PROVE Power10(m) <= Power10(n)
<1> DEFINE S == {k \in Nat : Power10(m) <= Power10(m + k)}
<1>1. S \in SUBSET Nat /\ 0 \in S
  <2>1. m + 0 = m /\ Power10(m) \in Nat
    BY Power10Is
  <2> QED BY <2>1
<1>2. ASSUME NEW k \in S PROVE k + 1 \in S
  <2>1. m + k \in Nat /\ m + (k + 1) = (m + k) + 1 /\ Power10(m) <= Power10(m + k)
    BY <1>2
  <2>2. Power10((m + k) + 1) = 10 * Power10(m + k) /\ Power10(m + k) \in Nat /\ Power10(m) \in Nat
    BY <2>1, Power10Is
  <2>3. Power10(m) <= Power10((m + k) + 1)
    BY <2>1, <2>2
  <2> QED BY <2>1, <2>3
<1>3. S = Nat
  <2> HIDE DEF S
  <2> QED BY <1>1, <1>2, Induction
<1>4. n - m \in Nat /\ m + (n - m) = n
  OBVIOUS
<1>5. \A k \in Nat : Power10(m) <= Power10(m + k)
  BY <1>3
<1> QED BY <1>4, <1>5

\* A number of so many digits.
LEMMA DigitCountIs ==
    ASSUME NEW c \in Nat \ {0}
    PROVE  DigitCount(c) \in Nat \ {0} /\ Power10(DigitCount(c) - 1) <= c /\ c < Power10(DigitCount(c))
<1> DEFINE S == {n \in Nat : c < Power10(n)}
<1>1. S \in SUBSET Nat /\ c \in S
  BY Power10Grows
<1>2. PICK n \in S : \A j \in S : n <= j
  <2> HIDE DEF S
  <2> QED BY <1>1, LeastOfNat
<1>3. n # 0
  BY <1>2, Power10Is
<1>4. n - 1 \in Nat /\ n - 1 \notin S
  BY <1>2, <1>3
<1>5. Power10(n - 1) <= c /\ c < Power10(n)
  <2>1. Power10(n - 1) \in Nat
    BY <1>4, Power10Is
  <2> QED BY <1>2, <1>4, <2>1
<1>6. n \in 1 .. c
  BY <1>1, <1>2, <1>3
<1>7. DigitCount(c) \in 1 .. c /\ Power10(DigitCount(c) - 1) <= c /\ c < Power10(DigitCount(c))
  BY <1>5, <1>6, Zenon DEF DigitCount
<1> QED BY <1>7

\* A larger number has no fewer digits.
LEMMA DigitCountRises ==
    ASSUME NEW a \in Nat \ {0}, NEW b \in Nat \ {0}, a <= b
    PROVE  DigitCount(a) <= DigitCount(b)
<1> PICK m : m = DigitCount(a)
  OBVIOUS
<1> PICK n : n = DigitCount(b)
  OBVIOUS
<1>1. m \in Nat \ {0} /\ Power10(m - 1) <= a /\ n \in Nat \ {0} /\ b < Power10(n)
  BY DigitCountIs
<1>2. ASSUME n < m PROVE FALSE
  <2>1. n \in Nat /\ m - 1 \in Nat /\ n <= m - 1
    BY <1>1, <1>2
  <2>2. Power10(n) <= Power10(m - 1)
    BY <2>1, Power10Rises
  <2>3. Power10(n) \in Nat /\ Power10(m - 1) \in Nat
    BY <2>1, Power10Is
  <2> QED BY <1>1, <2>2, <2>3
<1> QED BY <1>1, <1>2

\* The place of the last digit that is kept.
LEMMA PlaceIs ==
    ASSUME NEW c \in Nat \ {0}, NEW k \in Nat \ {0}
    PROVE  Place(c, k) \in Nat \ {0} /\ Place(c, k) <= c /\ (DigitCount(c) <= k => Place(c, k) = 1)
<1> PICK n : n = DigitCount(c)
  OBVIOUS
<1>1. n \in Nat \ {0} /\ Power10(n - 1) <= c
  BY DigitCountIs
<1>2. Place(c, k) = IF n <= k THEN 1 ELSE Power10(n - k)
  BY Zenon DEF Place
<1>3. CASE n <= k
  BY <1>2, <1>3
<1>4. CASE ~(n <= k)
  <2>1. n - k \in Nat /\ n - 1 \in Nat /\ n - k <= n - 1 /\ n - k # 0
    BY <1>1, <1>4
  <2>2. Power10(n - k) <= Power10(n - 1) /\ Power10(n - k) \in Nat /\ Power10(n - 1) \in Nat
    BY <2>1, Power10Rises, Power10Is
  <2>3. n - k < Power10(n - k)
    BY <2>1, Power10Grows
  <2>4. Place(c, k) = Power10(n - k)
    BY <1>2, <1>4
  <2> QED BY <1>1, <1>4, <2>1, <2>2, <2>3, <2>4
<1> QED BY <1>3, <1>4

\* Nor a smaller last place.
LEMMA PlaceRises ==
    ASSUME NEW a \in Nat \ {0}, NEW b \in Nat \ {0}, a <= b, NEW k \in Nat \ {0}
    PROVE  Place(a, k) <= Place(b, k)
<1> PICK m : m = DigitCount(a)
  OBVIOUS
<1> PICK n : n = DigitCount(b)
  OBVIOUS
<1>1. m \in Nat \ {0} /\ n \in Nat \ {0} /\ m <= n
  BY DigitCountIs, DigitCountRises
<1>2. Place(a, k) = (IF m <= k THEN 1 ELSE Power10(m - k)) /\ Place(b, k) = IF n <= k THEN 1 ELSE Power10(n - k)
  BY Zenon DEF Place
<1>3. Place(b, k) \in Nat \ {0}
  BY PlaceIs
<1>4. CASE m <= k
  BY <1>2, <1>3, <1>4
<1>5. CASE ~(m <= k)
  <2>1. m - k \in Nat /\ n - k \in Nat /\ m - k <= n - k /\ ~(n <= k)
    BY <1>1, <1>5
  <2>2. Power10(m - k) <= Power10(n - k)
    BY <2>1, Power10Rises
  <2> QED BY <1>2, <1>5, <2>1, <2>2
<1> QED BY <1>4, <1>5

\* Division with its rest.
LEMMA Divides ==
    ASSUME NEW a \in Nat, NEW b \in Nat \ {0}
    PROVE  a \div b \in Nat /\ a % b \in 0 .. b - 1 /\ a = b * (a \div b) + (a % b)
OBVIOUS

\* The rounded value is within half a place.
Near(r, c, u) == r \in Nat /\ 2 * r <= 2 * c + u /\ 2 * c <= 2 * r + u

\* A remainder of at most half a unit leaves a multiple that is near.
LEMMA NearByRest ==
    ASSUME NEW c \in Nat, NEW u \in Nat \ {0}, NEW w \in Nat, NEW r \in Nat
    PROVE  /\ r < 2 * u /\ 2 * c + u = 2 * w + r => Near(w, c, u)
           /\ r < u /\ 2 * r <= u /\ c = w + r => Near(w, c, u)
           /\ r < u /\ u <= 2 * r /\ c = w + r => Near(w + u, c, u)
BY DEF Near

\* Rounding half up moves a number by at most half a unit of the last place kept.
LEMMA HalfUpIsNear ==
    ASSUME NEW c \in Nat \ {0}, NEW k \in Nat \ {0}
    PROVE  Near(HalfUp(c, k), c, Place(c, k)) /\ HalfUp(c, k) # 0 /\ (Place(c, k) = 1 => HalfUp(c, k) = c)
<1> PICK u : u = Place(c, k)
  OBVIOUS
<1>1. u \in Nat \ {0} /\ u <= c
  BY PlaceIs
<1> PICK q : q = (2 * c + u) \div (2 * u)
  OBVIOUS
<1> PICK r : r = (2 * c + u) % (2 * u)
  OBVIOUS
<1>2. 2 * c + u \in Nat /\ 2 * u \in Nat \ {0}
  BY <1>1
<1>3. q \in Nat /\ r \in 0 .. (2 * u) - 1 /\ 2 * c + u = (2 * u) * q + r
  BY <1>2, Divides
<1> PICK w : w = q * u
  OBVIOUS
<1>4. HalfUp(c, k) = w
  BY Zenon DEF HalfUp
<1>5. w \in Nat /\ (2 * u) * q = 2 * w
  <2>1. \A x, y \in Nat : x * y \in Nat /\ (2 * x) * y = 2 * (y * x)
    OBVIOUS
  <2> QED BY <1>1, <1>3, <2>1
<1>6. Near(w, c, u)
  <2>1. r \in Nat /\ r < 2 * u /\ 2 * c + u = 2 * w + r
    BY <1>1, <1>3, <1>5
  <2> QED BY <1>1, <1>5, <2>1, NearByRest
<1>7. w # 0
  BY <1>1, <1>3, <1>5
<1>8. u = 1 => w = c
  BY <1>1, <1>3, <1>5
<1> QED BY <1>4, <1>6, <1>7, <1>8

\* So does rounding half to even.
LEMMA HalfEvenIsNear ==
    ASSUME NEW c \in Nat \ {0}, NEW k \in Nat \ {0}
    PROVE  Near(HalfEven(c, k), c, Place(c, k)) /\ (Place(c, k) = 1 => HalfEven(c, k) = c)
<1> PICK u : u = Place(c, k)
  OBVIOUS
<1>1. u \in Nat \ {0} /\ u <= c
  BY PlaceIs
<1> PICK q : q = c \div u
  OBVIOUS
<1> PICK r : r = c % u
  OBVIOUS
<1>2. q \in Nat /\ r \in 0 .. u - 1 /\ c = u * q + r
  BY <1>1, Divides
<1> PICK w : w = u * q
  OBVIOUS
<1>3. w \in Nat /\ c = w + r /\ u * (q + 1) = w + u
  <2>1. \A x, y \in Nat : x * y \in Nat /\ x * (y + 1) = x * y + x
    OBVIOUS
  <2> QED BY <1>1, <1>2, <2>1
<1>4. HalfEven(c, k) = u * (IF 2 * r > u \/ (2 * r = u /\ q % 2 = 1) THEN q + 1 ELSE q)
  BY Zenon DEF HalfEven
<1>5. CASE 2 * r > u \/ (2 * r = u /\ q % 2 = 1)
  <2>1. HalfEven(c, k) = w + u
    BY <1>3, <1>4, <1>5
  <2>2. r \in Nat /\ r < u /\ u <= 2 * r
    <3>1. r \in Nat /\ r < u
      BY <1>1, <1>2
    <3>2. \A x, y \in Nat : 2 * x > y \/ 2 * x = y => y <= 2 * x
      OBVIOUS
    <3> QED BY <1>1, <1>5, <3>1, <3>2
  <2>3. Near(w + u, c, u)
    BY <1>1, <1>3, <2>2, NearByRest
  <2>4. u # 1
    BY <1>1, <1>2, <2>2
  <2> QED BY <2>1, <2>3, <2>4
<1>6. CASE ~(2 * r > u \/ (2 * r = u /\ q % 2 = 1))
  <2>1. HalfEven(c, k) = w
    BY <1>4, <1>6
  <2>2. r \in Nat /\ r < u /\ 2 * r <= u
    <3>1. r \in Nat /\ r < u
      BY <1>1, <1>2
    <3>2. \A x, y \in Nat : ~(2 * x > y) => 2 * x <= y
      OBVIOUS
    <3> QED BY <1>1, <1>6, <3>1, <3>2
  <2>3. Near(w, c, u)
    BY <1>1, <1>3, <2>2, NearByRest
  <2>4. u = 1 => w = c
    BY <1>1, <1>2, <1>3
  <2> QED BY <2>1, <2>3, <2>4
<1> QED BY <1>5, <1>6
-----------------------------------------------------------------------------
(***************************************************************************)
(* Provers: conversions and the dimension check.                           *)
(***************************************************************************)
ConvertInv ==
    subject = "convert" =>
        \E value \in Nat : \E wellFormed, from, to, refused, answer :
            /\ st = [value |-> value, wellFormed |-> wellFormed, from |-> from, to |-> to,
                     refused |-> refused, answer |-> answer]
            /\ answer = {} \/ (answer = {QuantiseToSigDigits(value)} /\ DimensionOf[from] = DimensionOf[to])

\* The initial states satisfy the convert invariant.
LEMMA ConvertInits == ConvertInit => ConvertInv
<1> SUFFICES ASSUME ConvertInit PROVE ConvertInv
  OBVIOUS
<1>1. PICK c \in 0 .. MaxCoefficient : \E wellFormed \in BOOLEAN, from, to \in UnitNames :
           st = [value |-> c, wellFormed |-> wellFormed, from |-> from, to |-> to,
                 refused |-> FALSE, answer |-> {}]
  BY Zenon DEF ConvertInit
<1>2. c \in Nat
  BY ProversAssumption
<1> QED BY <1>1, <1>2, Zenon DEF ConvertInv

\* Every step of such a call keeps the convert invariant.
LEMMA ConvertSteps == ASSUME ConvertInv, Convert PROVE ConvertInv'
<1>0. subject = "convert" /\ subject' = "convert"
  BY Zenon DEF Convert, Step
<1>1. PICK value \in Nat : \E wellFormed, from, to, refused, answer :
            st = [value |-> value, wellFormed |-> wellFormed, from |-> from, to |-> to,
                  refused |-> refused, answer |-> answer]
  BY <1>0, Zenon DEF ConvertInv
<1>2. PICK wellFormed, from, to, refused, answer :
            st = [value |-> value, wellFormed |-> wellFormed, from |-> from, to |-> to,
                  refused |-> refused, answer |-> answer]
  BY <1>1
<1>3. st.value = value /\ st.from = from /\ st.to = to /\ st.answer = answer
  BY <1>2
<1>4. answer = {}
  BY <1>3, Zenon DEF Convert
<1>5. CASE st' = [st EXCEPT !.refused = TRUE]
  <2>1. st' = [value |-> value, wellFormed |-> wellFormed, from |-> from, to |-> to, refused |-> TRUE, answer |-> answer]
    BY <1>2, <1>5
  <2> QED BY <1>4, <2>1, Zenon DEF ConvertInv
<1>6. CASE st' = [st EXCEPT !.answer = {QuantiseToSigDigits(st.value)}] /\ DimensionOf[st.from] = DimensionOf[st.to]
  <2> PICK a : a = {QuantiseToSigDigits(value)}
    OBVIOUS
  <2>1. st' = [value |-> value, wellFormed |-> wellFormed, from |-> from, to |-> to, refused |-> refused, answer |-> a]
    BY <1>2, <1>3, <1>6
  <2>2. DimensionOf[from] = DimensionOf[to]
    BY <1>3, <1>6
  <2> QED BY <2>1, <2>2, Zenon DEF ConvertInv
<1> QED BY <1>5, <1>6, Zenon DEF Convert, Step

\* How far the two roundings of a quantised value can take it.
LEMMA QuantiseIs ==
    ASSUME NEW c \in Nat, NEW r, r = QuantiseToSigDigits(c)
    PROVE  /\ c = 0 => r = 0
           /\ c > 0 => /\ DigitCount(c) <= ContextDigits => r = c
                       /\ 2 * Distance(r, c) <= Place(c, SigDigits) + Place(HalfUp(c, SigDigits), ContextDigits)
<1>1. SigDigits \in Nat \ {0} /\ ContextDigits \in Nat \ {0} /\ ContextDigits <= SigDigits
  BY ProversAssumption
<1>2. CASE c = 0
  <2>1. r = 0
    BY <1>2, Zenon DEF QuantiseToSigDigits
  <2> QED BY <1>2, <2>1
<1>3. CASE c # 0
  <2> PICK h : h = HalfUp(c, SigDigits)
    OBVIOUS
  <2> PICK u : u = Place(c, SigDigits)
    OBVIOUS
  <2> PICK v : v = Place(h, ContextDigits)
    OBVIOUS
  <2>1. r = HalfEven(h, ContextDigits)
    BY <1>3, Zenon DEF QuantiseToSigDigits
  <2>2. Near(h, c, u) /\ h # 0 /\ (u = 1 => h = c) /\ u \in Nat \ {0} /\ (DigitCount(c) <= SigDigits => u = 1)
    BY <1>1, <1>3, HalfUpIsNear, PlaceIs
  <2>3. h \in Nat \ {0}
    BY <2>2 DEF Near
  <2>4. Near(r, h, v) /\ (v = 1 => r = h) /\ v \in Nat \ {0} /\ (DigitCount(h) <= ContextDigits => v = 1)
    BY <1>1, <2>1, <2>3, HalfEvenIsNear, PlaceIs
  <2>5. DigitCount(c) \in Nat
    BY <1>3, DigitCountIs
  <2>6. DigitCount(c) <= ContextDigits => r = c
    <3> SUFFICES ASSUME DigitCount(c) <= ContextDigits PROVE r = c
      OBVIOUS
    <3>1. DigitCount(c) <= SigDigits
      BY <1>1, <2>5
    <3>2. h = c
      BY <2>2, <3>1
    <3> QED BY <2>4, <3>2
  <2>7. 2 * Distance(r, c) <= u + v
    BY <2>2, <2>4 DEF Near, Distance
  <2> QED BY <1>3, <2>6, <2>7
<1> QED BY <1>2, <1>3

\* The convert invariant gives the property its calls are checked for.
LEMMA ConvertInvHolds == ConvertInv => ConversionErrorBounded
<1> SUFFICES ASSUME ConvertInv, subject = "convert", NEW r \in st.answer
             PROVE  /\ DimensionOf[st.from] = DimensionOf[st.to]
                    /\ st.value = 0 => r = 0
                    /\ st.value > 0 =>
                           /\ DigitCount(st.value) <= ContextDigits => r = st.value
                           /\ 2 * Distance(r, st.value) <=
                                  Place(st.value, SigDigits) + Place(HalfUp(st.value, SigDigits), ContextDigits)
  BY Zenon DEF ConversionErrorBounded
<1>1. PICK value \in Nat : \E wellFormed, from, to, refused, answer :
            /\ st = [value |-> value, wellFormed |-> wellFormed, from |-> from, to |-> to,
                     refused |-> refused, answer |-> answer]
            /\ answer = {} \/ (answer = {QuantiseToSigDigits(value)} /\ DimensionOf[from] = DimensionOf[to])
  BY Zenon DEF ConvertInv
<1>2. PICK wellFormed, from, to, refused, answer :
            /\ st = [value |-> value, wellFormed |-> wellFormed, from |-> from, to |-> to,
                     refused |-> refused, answer |-> answer]
            /\ answer = {} \/ (answer = {QuantiseToSigDigits(value)} /\ DimensionOf[from] = DimensionOf[to])
  BY <1>1
<1>3. st.value = value /\ st.from = from /\ st.to = to /\ st.answer = answer
  BY <1>2
<1>4. r = QuantiseToSigDigits(value) /\ DimensionOf[from] = DimensionOf[to]
  BY <1>2, <1>3
<1> QED BY <1>3, <1>4, QuantiseIs

\* The symbols before the next one are listed, or known to be missing; what is
\* remembered of a constant is its own dimension.
MemoFacts(units, memo) ==
    \A m \in memo : units[m.ref] \in PinnedSubset /\ m.dim = DimensionOf[units[m.ref]]
ListedFacts(symbols, units, at, dimensions, mismatches) ==
    /\ \A d \in dimensions : \E i \in 1 .. at - 1 : d = <<i, DimensionOf[units[symbols[i]]]>>
    /\ \A i \in 1 .. at - 1 :
           symbols[i] = "none" \/ i \in mismatches
               \/ (units[symbols[i]] \in PinnedSubset /\ <<i, DimensionOf[units[symbols[i]]]>> \in dimensions)
DimensionFacts(symbols, n, units, at, memo, dimensions, mismatches, status) ==
    /\ n \in Nat /\ symbols \in [1 .. n -> SymbolRefs] /\ at \in 1 .. n + 1
    /\ MemoFacts(units, memo) /\ ListedFacts(symbols, units, at, dimensions, mismatches)
    /\ "coherent" \in status => mismatches = {} /\ at = n + 1
DimensionRecord(symbols, units, at, memo, checked, dimensions, mismatches, error, status) ==
    [symbols |-> symbols, units |-> units, at |-> at, memo |-> memo, checked |-> checked,
     dimensions |-> dimensions, mismatches |-> mismatches, error |-> error, status |-> status]

DimensionInv ==
    subject = "dimension" =>
        \E symbols, n, units, at, memo, checked, dimensions, mismatches, error, status :
            /\ st = DimensionRecord(symbols, units, at, memo, checked, dimensions, mismatches, error, status)
            /\ DimensionFacts(symbols, n, units, at, memo, dimensions, mismatches, status)

\* The initial states satisfy the dimension invariant.
LEMMA DimensionInits == DimensionInit => DimensionInv
<1> SUFFICES ASSUME DimensionInit PROVE DimensionInv
  OBVIOUS
<1>1. PICK symbols \in UNION {[1 .. n -> SymbolRefs] : n \in 0 .. 3}, units \in [ConstantIds -> ConstantUnits] :
           st = DimensionRecord(symbols, units, 1, {}, 0, {}, {}, FALSE, {})
  BY Zenon DEF DimensionInit, DimensionRecord
<1>2. PICK n \in 0 .. 3 : symbols \in [1 .. n -> SymbolRefs]
  BY Zenon
<1>3. n \in Nat /\ 1 \in 1 .. n + 1 /\ 1 .. 1 - 1 = {}
  OBVIOUS
<1> PICK none : none = {}
  OBVIOUS
<1>4. MemoFacts(units, none) /\ ListedFacts(symbols, units, 1, none, none)
  BY <1>3 DEF MemoFacts, ListedFacts
<1>5. DimensionFacts(symbols, n, units, 1, none, none, none, none)
  BY <1>2, <1>3, <1>4 DEF DimensionFacts
<1>6. st = DimensionRecord(symbols, units, 1, none, 0, none, none, FALSE, none)
  BY <1>1
<1> QED BY <1>5, <1>6, Zenon DEF DimensionInv

\* The next symbol is passed over, listed or missing.
LEMMA SymbolPassed ==
    ASSUME NEW symbols, NEW n, NEW units, NEW at, NEW memo, NEW dimensions, NEW mismatches,
           DimensionFacts(symbols, n, units, at, memo, dimensions, mismatches, {}), at <= n,
           NEW memo2, MemoFacts(units, memo2), NEW dimensions2, NEW mismatches2,
           mismatches \subseteq mismatches2, dimensions \subseteq dimensions2,
           \A d \in dimensions2 : d \in dimensions \/ d = <<at, DimensionOf[units[symbols[at]]]>>,
           symbols[at] = "none" \/ at \in mismatches2
               \/ (units[symbols[at]] \in PinnedSubset /\ <<at, DimensionOf[units[symbols[at]]]>> \in dimensions2)
    PROVE  DimensionFacts(symbols, n, units, at + 1, memo2, dimensions2, mismatches2, {})
<1>1. n \in Nat /\ symbols \in [1 .. n -> SymbolRefs] /\ at \in 1 .. n + 1 /\ ListedFacts(symbols, units, at, dimensions, mismatches)
  BY Zenon DEF DimensionFacts
<1>2. at + 1 \in 1 .. n + 1 /\ (at + 1) - 1 = at /\ (\A i \in 1 .. at - 1 : i \in 1 .. at) /\ at \in 1 .. at
      /\ \A i \in 1 .. at : i \in 1 .. at - 1 \/ i = at
  BY <1>1
<1>3. \A d \in dimensions2 : \E i \in 1 .. at : d = <<i, DimensionOf[units[symbols[i]]]>>
  <2> SUFFICES ASSUME NEW d \in dimensions2 PROVE \E i \in 1 .. at : d = <<i, DimensionOf[units[symbols[i]]]>>
    OBVIOUS
  <2>1. CASE d \in dimensions
    <3>1. PICK i \in 1 .. at - 1 : d = <<i, DimensionOf[units[symbols[i]]]>>
      BY <1>1, <2>1, Zenon DEF ListedFacts
    <3> QED BY <1>2, <3>1, Zenon
  <2>2. CASE d = <<at, DimensionOf[units[symbols[at]]]>>
    BY <1>2, <2>2, Zenon
  <2> QED BY <2>1, <2>2
<1>4. ASSUME NEW i \in 1 .. at
      PROVE  symbols[i] = "none" \/ i \in mismatches2
               \/ (units[symbols[i]] \in PinnedSubset /\ <<i, DimensionOf[units[symbols[i]]]>> \in dimensions2)
  <2>1. CASE i = at
    BY <2>1, Zenon
  <2>2. CASE i \in 1 .. at - 1
    <3>1. symbols[i] = "none" \/ i \in mismatches
               \/ (units[symbols[i]] \in PinnedSubset /\ <<i, DimensionOf[units[symbols[i]]]>> \in dimensions)
      BY <1>1, <2>2, Zenon DEF ListedFacts
    <3> QED BY <3>1, Zenon
  <2> QED BY <1>2, <2>1, <2>2
<1>5. ListedFacts(symbols, units, at + 1, dimensions2, mismatches2)
  BY <1>2, <1>3, <1>4, Zenon DEF ListedFacts
<1> QED BY <1>1, <1>2, <1>5 DEF DimensionFacts

\* Checking a symbol keeps the dimensions' part.
LEMMA CheckSymbolSteps == ASSUME DimensionInv, CheckSymbol PROVE DimensionInv'
<1>0. subject = "dimension" /\ subject' = "dimension" /\ st.status = {} /\ st.at <= Len(st.symbols)
  BY Zenon DEF CheckSymbol, LookUp, Running, Step
<1>1. PICK symbols, n, units, at, memo, checked, dimensions, mismatches, error, status :
            /\ st = DimensionRecord(symbols, units, at, memo, checked, dimensions, mismatches, error, status)
            /\ DimensionFacts(symbols, n, units, at, memo, dimensions, mismatches, status)
  BY <1>0, Zenon DEF DimensionInv
<1>2. /\ st.symbols = symbols /\ st.units = units /\ st.at = at /\ st.memo = memo /\ st.checked = checked
      /\ st.dimensions = dimensions /\ st.mismatches = mismatches /\ st.status = status
  BY <1>1 DEF DimensionRecord
<1>3. status = {} /\ DimensionFacts(symbols, n, units, at, memo, dimensions, mismatches, {})
  BY <1>0, <1>1, <1>2
<1>4. n \in Nat /\ symbols \in [1 .. n -> SymbolRefs] /\ at \in 1 .. n + 1 /\ MemoFacts(units, memo)
  BY <1>1, Zenon DEF DimensionFacts
<1>5. Len(symbols) = n
  BY <1>4
<1>6. at <= n
  BY <1>0, <1>2, <1>5
<1> PICK ref : ref = symbols[at]
  OBVIOUS
<1>7. CASE ref = "none" /\ st' = NextSymbol
  <2>1. DimensionFacts(symbols, n, units, at + 1, memo, dimensions, mismatches, {})
    BY <1>3, <1>4, <1>6, <1>7, SymbolPassed, Zenon
  <2>2. st' = DimensionRecord(symbols, units, at + 1, memo, checked, dimensions, mismatches, error, {})
    BY <1>1, <1>3, <1>7 DEF DimensionRecord, NextSymbol
  <2> QED BY <2>1, <2>2, Zenon DEF DimensionInv
<1>8. ASSUME NEW dim, units[ref] \in PinnedSubset, dim = DimensionOf[units[ref]], st' = WithDimension(ref, dim) PROVE DimensionInv'
  <2> PICK m : m = [ref |-> ref, dim |-> dim]
    OBVIOUS
  <2> PICK d : d = <<at, dim>>
    OBVIOUS
  <2>1. m.ref = ref /\ m.dim = dim
    OBVIOUS
  <2>2. MemoFacts(units, memo \cup {m})
    BY <1>4, <1>8, <2>1 DEF MemoFacts
  <2>3. d = <<at, DimensionOf[units[symbols[at]]]>>
    BY <1>8, Zenon
  <2>4. DimensionFacts(symbols, n, units, at + 1, memo \cup {m}, dimensions \cup {d}, mismatches, {})
    <3> PICK dimensions2 : dimensions2 = dimensions \cup {d}
      OBVIOUS
    <3>1. dimensions \subseteq dimensions2 /\ d \in dimensions2 /\ \A x \in dimensions2 : x \in dimensions \/ x = d
      OBVIOUS
    <3>2. /\ mismatches \subseteq mismatches /\ dimensions \subseteq dimensions2
          /\ \A x \in dimensions2 : x \in dimensions \/ x = <<at, DimensionOf[units[symbols[at]]]>>
          /\ units[symbols[at]] \in PinnedSubset /\ <<at, DimensionOf[units[symbols[at]]]>> \in dimensions2
      BY <1>8, <2>3, <3>1, Zenon
    <3> QED BY <1>3, <1>6, <2>2, <3>2, SymbolPassed, Zenon
  <2>5. st' = [st EXCEPT !.at = @ + 1, !.checked = @ + 1, !.memo = @ \cup {m}, !.dimensions = @ \cup {d}]
    BY <1>2, <1>8, Zenon DEF WithDimension
  <2>6. st' = DimensionRecord(symbols, units, at + 1, memo \cup {m}, checked + 1, dimensions \cup {d}, mismatches, error, {})
    BY <1>1, <1>3, <2>5 DEF DimensionRecord
  <2> QED BY <2>4, <2>6, Zenon DEF DimensionInv
<1>9. ASSUME NEW m \in MemoHit(ref), st' = WithDimension(ref, m.dim) PROVE DimensionInv'
  <2>1. m \in memo /\ m.ref = ref
    BY <1>2, <1>9, Zenon DEF MemoHit
  <2>2. units[ref] \in PinnedSubset /\ m.dim = DimensionOf[units[ref]]
    BY <1>4, <2>1 DEF MemoFacts
  <2> QED BY <1>8, <1>9, <2>2
<1>10. CASE LookUp(ref)
  <2>1. CASE st' = [NextSymbol EXCEPT !.mismatches = @ \cup {st.at}]
    <3>1. DimensionFacts(symbols, n, units, at + 1, memo, dimensions, mismatches \cup {at}, {})
      <4> PICK mismatches2 : mismatches2 = mismatches \cup {at}
        OBVIOUS
      <4>1. mismatches \subseteq mismatches2 /\ at \in mismatches2 /\ dimensions \subseteq dimensions
        OBVIOUS
      <4>2. DimensionFacts(symbols, n, units, at + 1, memo, dimensions, mismatches2, {})
        BY <1>3, <1>4, <1>6, <4>1, SymbolPassed, Zenon
      <4> QED BY <4>2
    <3>2. st' = [st EXCEPT !.at = @ + 1, !.mismatches = @ \cup {at}]
      BY <1>1, <1>2, <2>1 DEF NextSymbol, DimensionRecord
    <3>3. st' = DimensionRecord(symbols, units, at + 1, memo, checked, dimensions, mismatches \cup {at}, error, {})
      BY <1>1, <1>3, <3>2 DEF DimensionRecord
    <3> QED BY <3>1, <3>3, Zenon DEF DimensionInv
  <2>2. CASE st' = [st EXCEPT !.error = TRUE]
    <3>1. st' = DimensionRecord(symbols, units, at, memo, checked, dimensions, mismatches, TRUE, status)
      BY <1>1, <2>2 DEF DimensionRecord
    <3> QED BY <1>1, <3>1, Zenon DEF DimensionInv
  <2>3. CASE st.units[ref] \in PinnedSubset /\ st' = WithDimension(ref, DimensionOf[st.units[ref]])
    BY <1>2, <1>8, <2>3, Zenon
  <2> QED BY <1>10, <2>1, <2>2, <2>3, Zenon DEF LookUp, Step
<1>11. \/ ref = "none" /\ st' = NextSymbol
       \/ \E m \in MemoHit(ref) : st' = WithDimension(ref, m.dim)
       \/ LookUp(ref)
  BY <1>2, Zenon DEF CheckSymbol, Step
<1> QED BY <1>7, <1>9, <1>10, <1>11, Zenon

\* So does summing up their status.
LEMMA DimensionStatusSteps == ASSUME DimensionInv, DimensionStatus PROVE DimensionInv'
<1>0. subject = "dimension" /\ subject' = "dimension" /\ st.at > Len(st.symbols)
  BY Zenon DEF DimensionStatus, Running, Step
<1>1. PICK symbols, n, units, at, memo, checked, dimensions, mismatches, error, status :
            /\ st = DimensionRecord(symbols, units, at, memo, checked, dimensions, mismatches, error, status)
            /\ DimensionFacts(symbols, n, units, at, memo, dimensions, mismatches, status)
  BY <1>0, Zenon DEF DimensionInv
<1>2. st.symbols = symbols /\ st.at = at /\ st.mismatches = mismatches
  BY <1>1 DEF DimensionRecord
<1>3. n \in Nat /\ symbols \in [1 .. n -> SymbolRefs] /\ at \in 1 .. n + 1 /\ MemoFacts(units, memo)
      /\ ListedFacts(symbols, units, at, dimensions, mismatches)
  BY <1>1, Zenon DEF DimensionFacts
<1>4. at = n + 1
  <2>1. Len(symbols) = n
    BY <1>3
  <2> QED BY <1>0, <1>2, <1>3, <2>1
<1> PICK s : s = {IF mismatches = {} THEN "coherent" ELSE "incoherent"}
  OBVIOUS
<1>5. "coherent" \in s => mismatches = {}
  OBVIOUS
<1>6. DimensionFacts(symbols, n, units, at, memo, dimensions, mismatches, s)
  BY <1>3, <1>4, <1>5, Zenon DEF DimensionFacts
<1>7. st' = [st EXCEPT !.status = s]
  BY <1>2, Zenon DEF DimensionStatus, Step
<1>8. st' = DimensionRecord(symbols, units, at, memo, checked, dimensions, mismatches, error, s)
  <2>1. ASSUME NEW y, st' = [st EXCEPT !.status = y]
        PROVE  st' = DimensionRecord(symbols, units, at, memo, checked, dimensions, mismatches, error, y)
    BY <1>1, <2>1 DEF DimensionRecord
  <2> QED BY <1>7, <2>1, Zenon
<1> QED BY <1>6, <1>8, Zenon DEF DimensionInv

\* The dimension invariant gives the property its calls are checked for.
LEMMA DimensionInvHolds == DimensionInv => CoherentIsComplete
<1> SUFFICES ASSUME DimensionInv, subject = "dimension", "coherent" \in st.status, NEW k \in DOMAIN st.symbols, st.symbols[k] # "none"
             PROVE  /\ st.units[st.symbols[k]] \in PinnedSubset
                    /\ {d \in st.dimensions : d[1] = k} = {<<k, DimensionOf[st.units[st.symbols[k]]]>>}
  BY Zenon DEF CoherentIsComplete
<1>1. PICK symbols, n, units, at, memo, checked, dimensions, mismatches, error, status :
            /\ st = DimensionRecord(symbols, units, at, memo, checked, dimensions, mismatches, error, status)
            /\ DimensionFacts(symbols, n, units, at, memo, dimensions, mismatches, status)
  BY Zenon DEF DimensionInv
<1>2. st.symbols = symbols /\ st.units = units /\ st.dimensions = dimensions /\ st.status = status
  BY <1>1 DEF DimensionRecord
<1>3. n \in Nat /\ symbols \in [1 .. n -> SymbolRefs] /\ mismatches = {} /\ at = n + 1 /\ ListedFacts(symbols, units, at, dimensions, mismatches)
  BY <1>1, <1>2, Zenon DEF DimensionFacts
<1>4. at - 1 = n /\ k \in 1 .. n
  BY <1>2, <1>3
<1> PICK e : e = [i \in 1 .. n |-> DimensionOf[units[symbols[i]]]]
  OBVIOUS
<1>5. /\ \A d \in dimensions : \E i \in 1 .. n : d = <<i, e[i]>>
      /\ units[symbols[k]] \in PinnedSubset /\ <<k, e[k]>> \in dimensions
  <2>1. \A i \in 1 .. n : e[i] = DimensionOf[units[symbols[i]]]
    BY Zenon
  <2>2. \A d \in dimensions : \E i \in 1 .. n : d = <<i, DimensionOf[units[symbols[i]]]>>
    BY <1>3, <1>4, Zenon DEF ListedFacts
  <2>3. units[symbols[k]] \in PinnedSubset /\ <<k, DimensionOf[units[symbols[k]]]>> \in dimensions
    <3>1. symbols[k] = "none" \/ k \in mismatches
               \/ (units[symbols[k]] \in PinnedSubset /\ <<k, DimensionOf[units[symbols[k]]]>> \in dimensions)
      BY <1>3, <1>4, Zenon DEF ListedFacts
    <3>2. k \notin mismatches /\ symbols[k] # "none"
      BY <1>2, <1>3
    <3> QED BY <3>1, <3>2, Zenon
  <2>4. \A d \in dimensions : \E i \in 1 .. n : d = <<i, e[i]>>
    BY <2>1, <2>2, Zenon
  <2> QED BY <1>4, <2>1, <2>3, <2>4, Zenon
<1>6. {d \in dimensions : d[1] = k} = {<<k, e[k]>>}
  BY <1>5
<1> QED BY <1>2, <1>4, <1>5, <1>6, Zenon
-----------------------------------------------------------------------------
(***************************************************************************)
(* Estimators: the posterior.                                              *)
(***************************************************************************)
\* What was sampled came of sound inputs, and the result is read off the sample.
SampleFacts(fault, draws, s) ==
    /\ s \in Samples /\ s.wall <= MaxWall
    /\ fault = {} /\ draws \in 1 .. MaxDraws
ResultFacts(draws, s, r) == r.draws = draws /\ (r.flag = "ok" <=> DiagnosticsFlag(s) = "ok")
PosteriorFacts(fault, draws, spec, sampled, result) ==
    /\ fault \subseteq FitFaults /\ draws \in Nat
    /\ spec => fault \cap {"kind", "params"} = {}
    /\ sampled = {} \/ \E s : sampled = {s}
    /\ \A s \in sampled : SampleFacts(fault, draws, s)
    /\ \A s \in sampled : \A r \in result : ResultFacts(draws, s, r)
PosteriorRecord(fault, draws, interval, spec, sampled, refused, result) ==
    [fault |-> fault, draws |-> draws, interval |-> interval, spec |-> spec,
     sampled |-> sampled, refused |-> refused, result |-> result]

PosteriorInv ==
    subject = "posterior" =>
        \E fault, draws, interval, spec, sampled, refused, result :
            /\ st = PosteriorRecord(fault, draws, interval, spec, sampled, refused, result)
            /\ PosteriorFacts(fault, draws, spec, sampled, result)

\* The initial states satisfy the posterior invariant.
LEMMA PosteriorInits == PosteriorInit => PosteriorInv
<1> SUFFICES ASSUME PosteriorInit PROVE PosteriorInv
  OBVIOUS
<1>1. PICK fault \in SUBSET FitFaults, draws \in {0, 1, MaxDraws, MaxDraws + 1}, interval \in Intervals \cup {0, 100} :
           /\ Cardinality(fault) <= 1
           /\ st = [fault |-> fault, draws |-> draws, interval |-> interval, spec |-> FALSE,
                    sampled |-> {}, refused |-> FALSE, result |-> {}]
  BY Zenon DEF PosteriorInit
<1>2. draws \in Nat
  BY EstimatorsAssumption
<1> PICK none : none = {}
  OBVIOUS
<1>3. fault \subseteq FitFaults
  OBVIOUS
<1>4. PosteriorFacts(fault, draws, FALSE, none, none)
  BY <1>2, <1>3, Zenon DEF PosteriorFacts
<1>5. st = PosteriorRecord(fault, draws, interval, FALSE, none, FALSE, none)
  BY <1>1, Zenon DEF PosteriorRecord
<1> QED BY <1>4, <1>5, Zenon DEF PosteriorInv

\* Every step of such a call keeps the posterior invariant.
LEMMA PosteriorSteps ==
    ASSUME PosteriorInv, BuildModelSpec \/ SamplePosterior \/ SummarisePosterior PROVE PosteriorInv'
<1>0. subject = "posterior" /\ subject' = "posterior" /\ st.result = {}
  <2>1. PosteriorUnderWay
    BY Zenon DEF BuildModelSpec, SamplePosterior, SummarisePosterior
  <2>2. subject' = subject
    BY Zenon DEF BuildModelSpec, SamplePosterior, SummarisePosterior, PosteriorUnderWay, PosteriorRefuse, Step
  <2> QED BY <2>1, <2>2, Zenon DEF PosteriorUnderWay
<1>1. PICK f, n, i, p, m, x, r : st = PosteriorRecord(f, n, i, p, m, x, r) /\ PosteriorFacts(f, n, p, m, r)
  BY <1>0, Zenon DEF PosteriorInv
<1>2. st.fault = f /\ st.draws = n /\ st.spec = p /\ st.sampled = m /\ st.result = r /\ r = {}
  BY <1>0, <1>1 DEF PosteriorRecord
<1>3. CASE st' = [st EXCEPT !.refused = TRUE]
  <2>1. st' = PosteriorRecord(f, n, i, p, m, TRUE, r)
    BY <1>1, <1>3 DEF PosteriorRecord
  <2> QED BY <1>1, <2>1, Zenon DEF PosteriorInv
<1>4. CASE BuildModelSpec
  <2>1. CASE st' = [st EXCEPT !.spec = TRUE] /\ st.fault \cap {"kind", "params"} = {}
    <3>1. st' = PosteriorRecord(f, n, i, TRUE, m, x, r)
      BY <1>1, <2>1 DEF PosteriorRecord
    <3>2. PosteriorFacts(f, n, TRUE, m, r)
      BY <1>1, <1>2, <2>1, Zenon DEF PosteriorFacts
    <3> QED BY <3>1, <3>2, Zenon DEF PosteriorInv
  <2> QED BY <1>3, <1>4, <2>1, Zenon DEF BuildModelSpec, PosteriorRefuse, Step
<1>5. CASE SamplePosterior
  <2>1. CASE BudgetHolds /\ FitInputHolds /\ \E s \in Samples : ~(s.wall > MaxWall) /\ st' = [st EXCEPT !.sampled = {s}]
    <3>1. PICK s \in Samples : ~(s.wall > MaxWall) /\ st' = [st EXCEPT !.sampled = {s}]
      BY <2>1
    <3>2. st' = PosteriorRecord(f, n, i, p, {s}, x, r)
      BY <1>1, <3>1 DEF PosteriorRecord
    <3>3. s.wall <= MaxWall
      <4>1. s.wall \in {MaxWall, MaxWall + 1} /\ MaxWall \in Nat
        BY EstimatorsAssumption DEF Samples
      <4> QED BY <3>1, <4>1
    <3>4. st.spec
      BY <1>5, Zenon DEF SamplePosterior
    <3>5. f \subseteq FitFaults /\ n \in Nat /\ f \cap {"kind", "params"} = {}
      BY <1>1, <1>2, <3>4, Zenon DEF PosteriorFacts
    <3>6. f \cap {"chains", "tune", "seed"} = {} /\ f \cap {"data", "target", "design"} = {} /\ n > 0 /\ n <= MaxDraws
      BY <1>2, <2>1, Zenon DEF BudgetHolds, FitInputHolds
    <3>7. f = {}
      BY <3>5, <3>6 DEF FitFaults
    <3>8. n \in 1 .. MaxDraws
      BY <3>5, <3>6, EstimatorsAssumption
    <3>9. SampleFacts(f, n, s)
      BY <3>3, <3>7, <3>8, Zenon DEF SampleFacts
    <3>10. p => f \cap {"kind", "params"} = {}
      BY <3>5
    <3>11. \A t \in {s} : t = s
      OBVIOUS
    <3>12. \A t \in {s} : \A y \in r : ResultFacts(n, t, y)
      BY <1>2
    <3>13. PosteriorFacts(f, n, p, {s}, r)
      BY <3>5, <3>9, <3>10, <3>11, <3>12, Zenon DEF PosteriorFacts
    <3> QED BY <3>2, <3>13, Zenon DEF PosteriorInv
  <2> QED BY <1>3, <1>5, <2>1, Zenon DEF SamplePosterior, PosteriorRefuse, Step
<1>6. CASE SummarisePosterior
  <2>1. PICK s \in m : \/ st' = [st EXCEPT !.result = {[flag |-> DiagnosticsFlag(s), p |-> PpcCheck(s), draws |-> st.draws]}]
                       \/ st' = [st EXCEPT !.refused = TRUE]
    BY <1>2, <1>6, Zenon DEF SummarisePosterior, PosteriorRefuse, Step
  <2>2. CASE st' = [st EXCEPT !.result = {[flag |-> DiagnosticsFlag(s), p |-> PpcCheck(s), draws |-> st.draws]}]
    <3> PICK y : y = [flag |-> DiagnosticsFlag(s), p |-> PpcCheck(s), draws |-> n]
      OBVIOUS
    <3>1. y.flag = DiagnosticsFlag(s) /\ y.draws = n
      BY Zenon
    <3>2. st' = [st EXCEPT !.result = {y}]
      BY <1>2, <2>2, Zenon
    <3>3. ASSUME NEW z, st' = [st EXCEPT !.result = z] PROVE st' = PosteriorRecord(f, n, i, p, m, x, z)
      BY <1>1, <3>3 DEF PosteriorRecord
    <3>4. st' = PosteriorRecord(f, n, i, p, m, x, {y})
      BY <3>2, <3>3, Zenon
    <3>5. PICK s0 : m = {s0}
      BY <1>1, <2>1, Zenon DEF PosteriorFacts
    <3>6. \A t \in m : t = s
      BY <2>1, <3>5
    <3>7. ResultFacts(n, s, y)
      BY <3>1, Zenon DEF ResultFacts
    <3>8. \A t \in m : \A z \in {y} : ResultFacts(n, t, z)
      BY <3>6, <3>7
    <3>9. PosteriorFacts(f, n, p, m, {y})
      BY <1>1, <3>8, Zenon DEF PosteriorFacts
    <3> QED BY <3>4, <3>9, Zenon DEF PosteriorInv
  <2> QED BY <1>3, <2>1, <2>2
<1> QED BY <1>4, <1>5, <1>6

\* The least finite value misses the floor exactly when some value does.
LEMMA EssMinDecides ==
    ASSUME NEW f \in [1 .. 3 -> {0, EssFloor - 1, EssFloor}]
    PROVE  (\E v \in EssMin(f) : v < EssFloor) <=> ~ \A i \in DOMAIN f : f[i] = 0 \/ f[i] >= EssFloor
<1>0. EssFloor \in Nat /\ DOMAIN f = 1 .. 3
  BY EstimatorsAssumption
<1>1. \A i \in 1 .. 3 : f[i] = 0 \/ f[i] = EssFloor - 1 \/ f[i] = EssFloor
  OBVIOUS
<1>2. Finite(f) = {f[i] : i \in 1 .. 3} \ {0}
  BY <1>0 DEF Finite
<1>3. ASSUME NEW v \in EssMin(f), v < EssFloor PROVE ~ \A i \in 1 .. 3 : f[i] = 0 \/ f[i] >= EssFloor
  <2>1. v \in Finite(f)
    BY <1>3 DEF EssMin
  <2>2. PICK i \in 1 .. 3 : v = f[i] /\ v # 0
    BY <1>2, <2>1
  <2> QED BY <1>0, <1>1, <1>3, <2>2
<1>4. ASSUME NEW i \in 1 .. 3, ~(f[i] = 0 \/ f[i] >= EssFloor) PROVE f[i] \in EssMin(f) /\ f[i] < EssFloor
  <2>1. f[i] = EssFloor - 1 /\ f[i] # 0
    BY <1>0, <1>1, <1>4
  <2>2. f[i] \in Finite(f)
    BY <1>2, <2>1
  <2>3. ASSUME NEW w \in Finite(f) PROVE f[i] <= w
    <3>1. PICK j \in 1 .. 3 : w = f[j] /\ w # 0
      BY <1>2, <2>3
    <3> QED BY <1>0, <1>1, <2>1, <3>1
  <2> QED BY <1>0, <2>1, <2>2, <2>3 DEF EssMin
<1> QED BY <1>0, <1>3, <1>4

\* The posterior invariant gives the property its calls are checked for.
LEMMA PosteriorInvHolds == PosteriorInv => PosteriorFlagIsHonest
<1> SUFFICES ASSUME PosteriorInv, subject = "posterior", NEW r \in st.result, NEW s \in st.sampled
             PROVE  /\ st.fault = {} /\ r.draws \in 1 .. MaxDraws /\ s.wall <= MaxWall
                    /\ r.flag = "ok" <=>
                           /\ s.divergences = 0 /\ s.rhat < 2
                           /\ \A i \in DOMAIN s.ess : s.ess[i] = 0 \/ s.ess[i] >= EssFloor
  BY Zenon DEF PosteriorFlagIsHonest
<1>1. PICK f, n, i, p, m, x, y : st = PosteriorRecord(f, n, i, p, m, x, y) /\ PosteriorFacts(f, n, p, m, y)
  BY Zenon DEF PosteriorInv
<1>2. st.fault = f /\ st.sampled = m /\ st.result = y
  BY <1>1 DEF PosteriorRecord
<1>3. SampleFacts(f, n, s) /\ ResultFacts(n, s, r)
  BY <1>1, <1>2, Zenon DEF PosteriorFacts
<1>4. f = {} /\ n \in 1 .. MaxDraws /\ s.wall <= MaxWall /\ s \in Samples
  BY <1>3, Zenon DEF SampleFacts
<1>5. r.draws = n /\ (r.flag = "ok" <=> DiagnosticsFlag(s) = "ok")
  BY <1>3, Zenon DEF ResultFacts
<1>6. s.ess \in [1 .. 3 -> {0, EssFloor - 1, EssFloor}] /\ s.rhat \in {0, 1, 2} /\ s.divergences \in {0, 1}
  BY <1>4 DEF Samples
<1>7. (\E v \in EssMin(s.ess) : v < EssFloor) <=> ~ \A j \in DOMAIN s.ess : s.ess[j] = 0 \/ s.ess[j] >= EssFloor
  BY <1>6, EssMinDecides, Zenon
<1>8. (s.divergences = 0 <=> ~(s.divergences > 0)) /\ (s.rhat < 2 <=> ~(s.rhat = 2))
  BY <1>6
<1>9. DiagnosticsFlag(s) = "ok" <=> ~(s.divergences > 0 \/ s.rhat = 2 \/ \E v \in EssMin(s.ess) : v < EssFloor)
  <2>1. "warn" # "ok"
    OBVIOUS
  <2> QED BY <2>1, Zenon DEF DiagnosticsFlag, RhatHigh
<1>10. r.flag = "ok" <=> s.divergences = 0 /\ s.rhat < 2 /\ \A j \in DOMAIN s.ess : s.ess[j] = 0 \/ s.ess[j] >= EssFloor
  BY <1>5, <1>7, <1>8, <1>9, Zenon
<1> QED BY <1>2, <1>4, <1>5, <1>10, Zenon
-----------------------------------------------------------------------------
(***************************************************************************)
(* Estimators: persistence.                                                *)
(***************************************************************************)
\* A diagram of two classes, its rendering, and what was counted on that.
DiagramFacts(fault, size, d) ==
    /\ fault = {} /\ \A k \in DOMAIN size : size[k] <= MaxCloud
    /\ DOMAIN d = 1 .. 2 /\ \A i \in 1 .. 2 : d[i] \in Classes
RenderedFacts(d, r) ==
    /\ DOMAIN r = 1 .. 2
    /\ \A i \in 1 .. 2 : /\ r[i].essential = d[i].essential
                         /\ r[i].birth = RenderTime(d[i].birth) /\ r[i].death = RenderTime(d[i].death)
CountedFacts(threshold, r, c) ==
    /\ c.long = {i \in DOMAIN r : r[i].essential \/ Persistence(r[i]) > threshold}
    /\ c.max = MaxFinite(r)
PersistenceFacts(fault, size, threshold, diagram, rendered, counted) ==
    /\ fault \subseteq CloudFaults /\ threshold \in ClassTimes
    /\ rendered = {} \/ ((\E d : diagram = {d}) /\ (\E r : rendered = {r}))
    /\ rendered = {} => counted = {}
    /\ \A d \in diagram : DiagramFacts(fault, size, d)
    /\ \A d \in diagram : \A r \in rendered : RenderedFacts(d, r)
    /\ \A r \in rendered : \A c \in counted : CountedFacts(threshold, r, c)
PersistenceRecord(fault, size, threshold, diagram, rendered, error, counted) ==
    [fault |-> fault, size |-> size, threshold |-> threshold, diagram |-> diagram,
     rendered |-> rendered, error |-> error, counted |-> counted]

PersistenceInv ==
    subject = "persistence" =>
        \E fault, size, threshold, diagram, rendered, error, counted :
            /\ st = PersistenceRecord(fault, size, threshold, diagram, rendered, error, counted)
            /\ PersistenceFacts(fault, size, threshold, diagram, rendered, counted)
            /\ diagram = {} \/ \E d : diagram = {d}

\* The initial states satisfy the persistence invariant.
LEMMA PersistenceInits == PersistenceInit => PersistenceInv
<1> SUFFICES ASSUME PersistenceInit PROVE PersistenceInv
  OBVIOUS
<1>1. PICK fault \in SUBSET CloudFaults, size \in [{"points", "ambient", "maxdim"} -> {MaxCloud, MaxCloud + 1}],
           threshold \in ClassTimes :
           /\ Cardinality(fault) <= 1
           /\ st = [fault |-> fault, size |-> size, threshold |-> threshold, diagram |-> {},
                    rendered |-> {}, error |-> "none", counted |-> {}]
  BY Zenon DEF PersistenceInit
<1> PICK none : none = {}
  OBVIOUS
<1>2. fault \subseteq CloudFaults
  OBVIOUS
<1>3. PersistenceFacts(fault, size, threshold, none, none, none)
  BY <1>2, Zenon DEF PersistenceFacts
<1>4. st = PersistenceRecord(fault, size, threshold, none, none, "none", none)
  BY <1>1, Zenon DEF PersistenceRecord
<1> QED BY <1>3, <1>4, Zenon DEF PersistenceInv

\* Every step of such a call keeps the persistence invariant.
LEMMA PersistenceSteps ==
    ASSUME PersistenceInv, ComputePersistence \/ RenderDiagram \/ CountClasses PROVE PersistenceInv'
<1>0. subject = "persistence" /\ subject' = "persistence"
  BY Zenon DEF ComputePersistence, RenderDiagram, CountClasses, Step
<1>1. PICK f, z, t, d, r, e, c : /\ st = PersistenceRecord(f, z, t, d, r, e, c)
                                 /\ PersistenceFacts(f, z, t, d, r, c)
                                 /\ d = {} \/ \E d0 : d = {d0}
  BY <1>0, Zenon DEF PersistenceInv
<1>2. st.fault = f /\ st.size = z /\ st.threshold = t /\ st.diagram = d /\ st.rendered = r /\ st.counted = c
  BY <1>1 DEF PersistenceRecord
<1>3. CASE ComputePersistence
  <2>1. CASE st' = [st EXCEPT !.error = CloudError]
    <3> PICK e2 : e2 = CloudError
      OBVIOUS
    <3>1. st' = [st EXCEPT !.error = e2]
      BY <2>1, Zenon
    <3>2. st' = PersistenceRecord(f, z, t, d, r, e2, c)
      BY <1>1, <3>1 DEF PersistenceRecord
    <3> QED BY <1>1, <3>2, Zenon DEF PersistenceInv
  <2>2. CASE CloudError = "none" /\ \E a, b \in Classes : st' = [st EXCEPT !.diagram = {<<a, b>>}]
    <3>1. PICK a \in Classes, b \in Classes : st' = [st EXCEPT !.diagram = {<<a, b>>}]
      BY <2>2, Zenon
    <3> PICK d2 : d2 = <<a, b>>
      OBVIOUS
    <3>2. st' = [st EXCEPT !.diagram = {d2}]
      BY <3>1, Zenon
    <3>3. DOMAIN d2 = 1 .. 2 /\ \A i \in 1 .. 2 : d2[i] \in Classes
      <4>1. d2[1] = a /\ d2[2] = b /\ DOMAIN d2 = 1 .. 2 /\ \A i \in 1 .. 2 : i = 1 \/ i = 2
        OBVIOUS
      <4> QED BY <4>1
    <3>4. st.fault \ {"thresh"} = {} /\ WithinLimits /\ "thresh" \notin st.fault
      BY <2>2 DEF CloudError
    <3>5. f = {} /\ \A k \in DOMAIN z : z[k] <= MaxCloud
      BY <1>2, <3>4 DEF WithinLimits
    <3>6. r = {} /\ c = {}
      <4>1. d = {}
        BY <1>2, <1>3, Zenon DEF ComputePersistence
      <4>2. \A d0 : d # {d0}
        BY <4>1
      <4> QED BY <1>1, <4>2, Zenon DEF PersistenceFacts
    <3>7. DiagramFacts(f, z, d2)
      BY <3>3, <3>5, Zenon DEF DiagramFacts
    <3>8. (\A y \in {d2} : y = d2) /\ f \subseteq CloudFaults /\ t \in ClassTimes
      BY <1>1 DEF PersistenceFacts
    <3>9. PersistenceFacts(f, z, t, {d2}, r, c)
      BY <3>6, <3>7, <3>8, Zenon DEF PersistenceFacts
    <3>10. st' = PersistenceRecord(f, z, t, {d2}, r, e, c)
      <4>1. ASSUME NEW y, st' = [st EXCEPT !.diagram = y] PROVE st' = PersistenceRecord(f, z, t, y, r, e, c)
        BY <1>1, <4>1 DEF PersistenceRecord
      <4> QED BY <3>2, <4>1, Zenon
    <3>11. {d2} = {} \/ \E y : {d2} = {y}
      OBVIOUS
    <3> QED BY <3>9, <3>10, <3>11, Zenon DEF PersistenceInv
  <2> QED BY <1>3, <2>1, <2>2, Zenon DEF ComputePersistence, Step
<1>4. CASE RenderDiagram
  <2>1. PICK d0 \in d : st' = [st EXCEPT !.rendered =
               {[i \in DOMAIN d0 |-> [d0[i] EXCEPT !.birth = RenderTime(@), !.death = RenderTime(@)]]}]
    BY <1>2, <1>4, Zenon DEF RenderDiagram, Step
  <2> PICK r2 : r2 = [i \in DOMAIN d0 |-> [d0[i] EXCEPT !.birth = RenderTime(@), !.death = RenderTime(@)]]
    OBVIOUS
  <2>2. st' = [st EXCEPT !.rendered = {r2}]
    BY <2>1, Zenon
  <2>3. st' = PersistenceRecord(f, z, t, d, {r2}, e, c)
    <3>1. ASSUME NEW y, st' = [st EXCEPT !.rendered = y] PROVE st' = PersistenceRecord(f, z, t, d, y, e, c)
      BY <1>1, <3>1 DEF PersistenceRecord
    <3> QED BY <2>2, <3>1, Zenon
  <2>4. d = {d0}
    BY <1>1, <2>1
  <2>5. DiagramFacts(f, z, d0)
    BY <1>1, <2>1, Zenon DEF PersistenceFacts
  <2>6. RenderedFacts(d0, r2)
    <3>1. DOMAIN d0 = 1 .. 2 /\ \A i \in 1 .. 2 : d0[i] \in Classes
      BY <2>5, Zenon DEF DiagramFacts
    <3>2. DOMAIN r2 = 1 .. 2
      BY <3>1
    <3>3. ASSUME NEW i \in 1 .. 2
          PROVE  /\ r2[i].essential = d0[i].essential
                 /\ r2[i].birth = RenderTime(d0[i].birth) /\ r2[i].death = RenderTime(d0[i].death)
      <4>1. d0[i] \in [birth : ClassTimes, death : ClassTimes, essential : BOOLEAN]
        BY <3>1 DEF Classes
      <4>2. r2[i] = [d0[i] EXCEPT !.birth = RenderTime(@), !.death = RenderTime(@)]
        BY <3>1
      <4> QED BY <4>1, <4>2
    <3> QED BY <3>2, <3>3, Zenon DEF RenderedFacts
  <2>7. r = {} /\ c = {}
    <3>1. r = {}
      BY <1>2, <1>4, Zenon DEF RenderDiagram
    <3> QED BY <1>1, <3>1, Zenon DEF PersistenceFacts
  <2>8. \A y \in d : \A x \in {r2} : RenderedFacts(y, x)
    BY <2>4, <2>6
  <2>9. \A x \in {r2} : \A y \in c : CountedFacts(t, x, y)
    BY <2>7
  <2>10. PersistenceFacts(f, z, t, d, {r2}, c)
    BY <1>1, <2>4, <2>7, <2>8, <2>9, Zenon DEF PersistenceFacts
  <2> QED BY <1>1, <2>3, <2>10, Zenon DEF PersistenceInv
<1>5. CASE CountClasses
  <2>1. PICK r0 \in r : st' = [st EXCEPT !.counted = {[long |-> LongLived(r0), max |-> MaxFinite(r0)]}]
    BY <1>2, <1>5, Zenon DEF CountClasses, Step
  <2> PICK x : x = [long |-> LongLived(r0), max |-> MaxFinite(r0)]
    OBVIOUS
  <2>2. x.long = LongLived(r0) /\ x.max = MaxFinite(r0)
    BY Zenon
  <2>3. LongLived(r0) = {i \in DOMAIN r0 : r0[i].essential \/ Persistence(r0[i]) > t}
    BY <1>2, Zenon DEF LongLived
  <2>4. CountedFacts(t, r0, x)
    BY <2>2, <2>3, Zenon DEF CountedFacts
  <2>5. st' = PersistenceRecord(f, z, t, d, r, e, {x})
    <3>1. ASSUME NEW y, st' = [st EXCEPT !.counted = y] PROVE st' = PersistenceRecord(f, z, t, d, r, e, y)
      BY <1>1, <3>1 DEF PersistenceRecord
    <3> QED BY <2>1, <3>1, Zenon
  <2>6. r # {}
    BY <2>1
  <2>7. PICK r1 : r = {r1}
    BY <1>1, <2>6, Zenon DEF PersistenceFacts
  <2>8. \A y \in r : \A k \in {x} : CountedFacts(t, y, k)
    BY <2>1, <2>4, <2>7
  <2>9. PersistenceFacts(f, z, t, d, r, {x})
    BY <1>1, <2>6, <2>8, Zenon DEF PersistenceFacts
  <2> QED BY <1>1, <2>5, <2>9, Zenon DEF PersistenceInv
<1> QED BY <1>3, <1>4, <1>5

\* Rounding moves the life of a class by less than the place of its death.
LEMMA RenderingIsNear ==
    ASSUME NEW b \in Nat, NEW d \in Nat, b < d, NEW u, u = Place(d, PersistenceDigits),
           NEW rb, rb = RenderTime(b), NEW rd, rd = RenderTime(d)
    PROVE  rb \in Nat /\ rd \in Nat /\ u \in Nat /\ rd - rb <= (d - b) + u /\ d - b <= (rd - rb) + u
<1>0. PersistenceDigits \in Nat \ {0} /\ d \in Nat \ {0}
  BY EstimatorsAssumption
<1>1. u \in Nat \ {0} /\ Near(rd, d, u)
  <2>1. rd = HalfUp(d, PersistenceDigits)
    BY <1>0, Zenon DEF RenderTime
  <2> QED BY <1>0, <2>1, PlaceIs, HalfUpIsNear
<1>2. CASE b = 0
  <2>1. rb = 0
    BY <1>2, Zenon DEF RenderTime
  <2> QED BY <1>0, <1>1, <1>2, <2>1 DEF Near
<1>3. CASE b # 0
  <2> PICK v : v = Place(b, PersistenceDigits)
    OBVIOUS
  <2>1. rb = HalfUp(b, PersistenceDigits)
    BY <1>3, Zenon DEF RenderTime
  <2>2. b \in Nat \ {0} /\ b <= d
    BY <1>3
  <2>3. v \in Nat \ {0} /\ Near(rb, b, v) /\ v <= u
    BY <1>0, <2>1, <2>2, PlaceIs, HalfUpIsNear, PlaceRises
  <2> QED BY <1>0, <1>1, <2>2, <2>3 DEF Near
<1> QED BY <1>2, <1>3

\* The largest of at most two numbers passes a threshold exactly when one does.
LEMMA MaxFiniteDecides ==
    ASSUME NEW r, DOMAIN r = 1 .. 2, \A i \in 1 .. 2 : Persistence(r[i]) \in Int, NEW t \in Nat
    PROVE  (\E m \in MaxFinite(r) : m > t) <=> \E i \in 1 .. 2 : ~r[i].essential /\ Persistence(r[i]) > t
<1> DEFINE F == {i \in 1 .. 2 : ~r[i].essential}
           V == {Persistence(r[i]) : i \in F}
<1>1. MaxFinite(r) = {v \in V : \A w \in V : w <= v}
  BY Zenon DEF MaxFinite
<1>2. ASSUME NEW m \in MaxFinite(r), m > t PROVE \E i \in 1 .. 2 : ~r[i].essential /\ Persistence(r[i]) > t
  <2>1. m \in V
    BY <1>1
  <2>2. PICK i \in F : m = Persistence(r[i])
    BY <2>1
  <2> QED BY <1>2, <2>2
<1>3. ASSUME NEW i \in 1 .. 2, ~r[i].essential, Persistence(r[i]) > t PROVE \E m \in MaxFinite(r) : m > t
  <2> PICK p : p = Persistence(r[i])
    OBVIOUS
  <2>0. i \in F
    BY <1>3
  <2>1. p \in V /\ p \in Int
    BY <2>0
  <2>2. CASE \A w \in V : w <= p
    BY <1>1, <1>3, <2>1, <2>2
  <2>3. CASE \E w \in V : ~(w <= p)
    <3>1. PICK j \in F : ~(Persistence(r[j]) <= p)
      BY <2>3
    <3> PICK q : q = Persistence(r[j])
      OBVIOUS
    <3>2. q \in V /\ q \in Int /\ q > p /\ i # j
      BY <2>1, <3>1
    <3>3. \A k \in F : k = i \/ k = j
      BY <3>1, <3>2
    <3>4. \A w \in V : w <= q
      BY <2>1, <3>2, <3>3
    <3>5. q > t
      BY <1>3, <2>1, <3>2
    <3> QED BY <1>1, <3>2, <3>4, <3>5
  <2> QED BY <2>2, <2>3
<1> QED BY <1>2, <1>3

\* The persistence invariant gives the property its calls are checked for.
LEMMA PersistenceInvHolds == PersistenceInv => CountSurvivesRendering
<1> SUFFICES ASSUME PersistenceInv, subject = "persistence", NEW d \in st.diagram, NEW c \in st.counted
             PROVE  /\ st.fault = {} /\ WithinLimits
                    /\ \A i \in DOMAIN d :
                           LET slack == Place(d[i].death, PersistenceDigits)
                               exact == d[i].death - d[i].birth
                           IN  /\ d[i].essential \/ exact > st.threshold + slack => i \in c.long
                               /\ i \in c.long => d[i].essential \/ exact + slack > st.threshold
                    /\ (\E m \in c.max : m > st.threshold) <=> \E i \in c.long : ~d[i].essential
  BY Zenon DEF CountSurvivesRendering
<1>1. PICK f, z, t, diagram, rendered, e, counted :
            /\ st = PersistenceRecord(f, z, t, diagram, rendered, e, counted)
            /\ PersistenceFacts(f, z, t, diagram, rendered, counted)
  BY Zenon DEF PersistenceInv
<1>2. st.fault = f /\ st.size = z /\ st.threshold = t /\ st.diagram = diagram /\ st.rendered = rendered /\ st.counted = counted
  BY <1>1 DEF PersistenceRecord
<1>3. rendered # {}
  BY <1>1, <1>2 DEF PersistenceFacts
<1>4. PICK r \in rendered : RenderedFacts(d, r) /\ CountedFacts(t, r, c) /\ DiagramFacts(f, z, d)
  <2>1. PICK r : rendered = {r}
    BY <1>1, <1>3, Zenon DEF PersistenceFacts
  <2>2. r \in rendered
    BY <2>1
  <2> QED BY <1>1, <1>2, <2>2, Zenon DEF PersistenceFacts
<1>5. f = {} /\ (\A k \in DOMAIN z : z[k] <= MaxCloud) /\ DOMAIN d = 1 .. 2 /\ \A i \in 1 .. 2 : d[i] \in Classes
  BY <1>4, Zenon DEF DiagramFacts
<1>6. DOMAIN r = 1 .. 2 /\ \A i \in 1 .. 2 : /\ r[i].essential = d[i].essential
                         /\ r[i].birth = RenderTime(d[i].birth) /\ r[i].death = RenderTime(d[i].death)
  BY <1>4, Zenon DEF RenderedFacts
<1>7. /\ \A i : i \in c.long <=> i \in 1 .. 2 /\ (r[i].essential \/ Persistence(r[i]) > t)
      /\ c.max = MaxFinite(r)
  BY <1>4, <1>6, Zenon DEF CountedFacts
<1>8. t \in Nat
  <2>1. t \in ClassTimes
    BY <1>1, Zenon DEF PersistenceFacts
  <2> QED BY <2>1, EstimatorsAssumption
<1>9. ASSUME NEW i \in 1 .. 2
      PROVE  /\ Persistence(r[i]) \in Int /\ Place(d[i].death, PersistenceDigits) \in Nat
             /\ d[i].death - d[i].birth \in Int
             /\ Persistence(r[i]) <= (d[i].death - d[i].birth) + Place(d[i].death, PersistenceDigits)
             /\ d[i].death - d[i].birth <= Persistence(r[i]) + Place(d[i].death, PersistenceDigits)
  <2>1. d[i] \in [birth : ClassTimes, death : ClassTimes, essential : BOOLEAN] /\ d[i].birth < d[i].death
    BY <1>5 DEF Classes
  <2> PICK b, g : b = d[i].birth /\ g = d[i].death
    OBVIOUS
  <2>2. b \in Nat /\ g \in Nat /\ b < g
    BY <2>1, EstimatorsAssumption
  <2> PICK u : u = Place(g, PersistenceDigits)
    OBVIOUS
  <2> PICK rb : rb = RenderTime(b)
    OBVIOUS
  <2> PICK rd : rd = RenderTime(g)
    OBVIOUS
  <2>3. rb \in Nat /\ rd \in Nat /\ u \in Nat /\ rd - rb <= (g - b) + u /\ g - b <= (rd - rb) + u
    BY <2>2, RenderingIsNear
  <2>4. Persistence(r[i]) = rd - rb
    BY <1>6, Zenon DEF Persistence
  <2> QED BY <2>2, <2>3, <2>4
<1>10. ASSUME NEW i \in 1 .. 2
       PROVE  /\ d[i].essential \/ d[i].death - d[i].birth > t + Place(d[i].death, PersistenceDigits) => i \in c.long
              /\ i \in c.long => d[i].essential \/ (d[i].death - d[i].birth) + Place(d[i].death, PersistenceDigits) > t
  <2> PICK x, p, u : x = d[i].death - d[i].birth /\ p = Persistence(r[i]) /\ u = Place(d[i].death, PersistenceDigits)
    OBVIOUS
  <2>1. p \in Int /\ u \in Nat /\ x \in Int /\ p <= x + u /\ x <= p + u
    BY <1>9
  <2>2. (x > t + u => p > t) /\ (p > t => x + u > t)
    BY <1>8, <2>1
  <2>3. i \in c.long <=> d[i].essential \/ p > t
    BY <1>6, <1>7, Zenon
  <2> QED BY <2>2, <2>3, Zenon
<1>11. (\E m \in c.max : m > t) <=> \E i \in c.long : ~d[i].essential
  <2>1. (\E m \in MaxFinite(r) : m > t) <=> \E i \in 1 .. 2 : ~r[i].essential /\ Persistence(r[i]) > t
    BY <1>6, <1>8, <1>9, MaxFiniteDecides
  <2> QED BY <1>6, <1>7, <2>1, Zenon
<1>12. WithinLimits
  BY <1>2, <1>5, Zenon DEF WithinLimits
<1> QED BY <1>2, <1>5, <1>10, <1>11, <1>12, Zenon
-----------------------------------------------------------------------------
(***************************************************************************)
(* Estimators: optimisation.                                               *)
(***************************************************************************)
\* What a constraint adds to the count, and the count of at most two.
Share(n, c) == IF c.kind = "box" THEN n * Cardinality(c.bounds) ELSE c.rhs
Tally(n, cs) == (IF 1 \in DOMAIN cs THEN Share(n, cs[1]) ELSE 0) + (IF 2 \in DOMAIN cs THEN Share(n, cs[2]) ELSE 0)
CapsFacts(solver, n, cs, counted, x) ==
    /\ counted = {x} /\ x = Tally(n, cs) /\ x <= MaxConstraints
    /\ n \in 1 .. MaxVariables /\ solver \in {"clarabel", "osqp"}
SolverFacts(r) == r.solution <=> r.status \in {"optimal", "optimal_inaccurate"}
OptimiseFacts(solver, n, cs, counted, built, result) ==
    /\ n \in Nat /\ \A i \in DOMAIN cs : cs[i] \in Constraints
    /\ \A x \in counted : CapsFacts(solver, n, cs, counted, x)
    /\ \A b \in built : counted = {b}
    /\ \A r \in result : SolverFacts(r)
OptimiseRecord(solver, type, n, lambda, constraints, counted, built, error, result) ==
    [solver |-> solver, type |-> type, n |-> n, lambda |-> lambda,
     constraints |-> constraints, counted |-> counted, built |-> built, error |-> error,
     result |-> result]

OptimiseInv ==
    subject = "optimise" =>
        \E solver, type, n, lambda, constraints, counted, built, error, result :
            /\ st = OptimiseRecord(solver, type, n, lambda, constraints, counted, built, error, result)
            /\ OptimiseFacts(solver, n, constraints, counted, built, result)

\* The initial states satisfy the optimise invariant.
LEMMA OptimiseInits == OptimiseInit => OptimiseInv
<1> SUFFICES ASSUME OptimiseInit PROVE OptimiseInv
  OBVIOUS
<1>1. PICK solver \in {"clarabel", "glpk", "other"}, type \in {"lp", "ridge", "bogus"},
           n \in {0, 1, MaxVariables, MaxVariables + 1}, lambda \in {-1, 0},
           constraints \in UNION {[1 .. k -> Constraints] : k \in 0 .. 2} :
           /\ lambda = -1 => type = "ridge"
           /\ Len(constraints) = 2 => n > 1 /\ solver = "clarabel"
           /\ st = [solver |-> solver, type |-> type, n |-> n, lambda |-> lambda,
                    constraints |-> constraints, counted |-> {}, built |-> {}, error |-> "none",
                    result |-> {}]
  BY Zenon DEF OptimiseInit
<1>2. n \in Nat
  BY EstimatorsAssumption
<1> PICK none : none = {}
  OBVIOUS
<1>3. \A i \in DOMAIN constraints : constraints[i] \in Constraints
  <2>1. PICK k \in 0 .. 2 : constraints \in [1 .. k -> Constraints]
    OBVIOUS
  <2> QED BY <2>1
<1>4. OptimiseFacts(solver, n, constraints, none, none, none)
  BY <1>2, <1>3, Zenon DEF OptimiseFacts
<1>5. st = OptimiseRecord(solver, type, n, lambda, constraints, none, none, "none", none)
  BY <1>1, Zenon DEF OptimiseRecord
<1> QED BY <1>4, <1>5, Zenon DEF OptimiseInv

\* A constraint counts for a number of scalars.
LEMMA ShareIs ==
    ASSUME NEW n \in Nat, NEW c \in Constraints PROVE Share(n, c) \in Nat
<1>1. CASE c.kind = "box"
  <2>1. c.bounds \in SUBSET {"lower", "upper"}
    BY <1>1 DEF Constraints
  <2>2. IsFiniteSet({"lower", "upper"})
    <3>1. IsFiniteSet({} \cup {"lower"})
      BY FS_EmptySet, FS_AddElement
    <3>2. IsFiniteSet(({} \cup {"lower"}) \cup {"upper"})
      BY <3>1, FS_AddElement
    <3>3. ({} \cup {"lower"}) \cup {"upper"} = {"lower", "upper"}
      OBVIOUS
    <3> QED BY <3>2, <3>3, Zenon
  <2>3. Cardinality(c.bounds) \in Nat
    BY <2>1, <2>2, FS_Subset, FS_CardinalityType
  <2>4. \A a, b \in Nat : a * b \in Nat
    OBVIOUS
  <2> QED BY <1>1, <2>3, <2>4 DEF Share
<1>2. CASE c.kind # "box"
  BY <1>2 DEF Constraints, Share
<1> QED BY <1>1, <1>2

\* So does a list of them.
LEMMA TallyIs ==
    ASSUME NEW n \in Nat, NEW cs, \A i \in DOMAIN cs : cs[i] \in Constraints PROVE Tally(n, cs) \in Nat
<1>1. \A i \in DOMAIN cs : Share(n, cs[i]) \in Nat
  BY ShareIs
<1> QED BY <1>1 DEF Tally

\* The count made before building agrees with the problem built.
LEMMA CountIsTally ==
    ASSUME NEW n, NEW cs, st.n = n, st.constraints = cs
    PROVE  /\ CountScalarConstraints = Tally(n, cs)
           /\ (\A i \in DOMAIN cs : ConstraintBuilds(cs[i])) => CountOf(ScalarsOf) = Tally(n, cs)
<1>1. CountScalarConstraints = Tally(n, cs)
  <2> DEFINE c == [i \in 1 .. 2 |-> IF i \in DOMAIN cs THEN Share(n, cs[i]) ELSE 0]
  <2>1. CountScalarConstraints = c[1] + c[2]
    BY Zenon DEF CountScalarConstraints, CountOf, Share
  <2> QED BY <2>1 DEF Tally
<1>2. ASSUME \A i \in DOMAIN cs : ConstraintBuilds(cs[i]) PROVE CountOf(ScalarsOf) = Tally(n, cs)
  <2> DEFINE c == [i \in 1 .. 2 |-> IF i \in DOMAIN cs THEN ScalarsOf(cs[i]) ELSE 0]
  <2>1. CountOf(ScalarsOf) = c[1] + c[2]
    BY Zenon DEF CountOf
  <2>2. \A i \in DOMAIN cs : ScalarsOf(cs[i]) = Share(n, cs[i])
    BY <1>2 DEF ConstraintBuilds, ScalarsOf, Share
  <2> QED BY <2>1, <2>2 DEF Tally
<1> QED BY <1>1, <1>2

\* Every step of such a call keeps the optimise invariant.
LEMMA OptimiseSteps ==
    ASSUME OptimiseInv, CheckCaps \/ BuildProblem \/ SolveProblem PROVE OptimiseInv'
<1>0. subject = "optimise" /\ subject' = "optimise" /\ st.result = {}
  <2>1. OptimiseUnderWay
    BY Zenon DEF CheckCaps, BuildProblem, SolveProblem
  <2>2. subject' = "optimise"
    BY Zenon DEF CheckCaps, BuildProblem, SolveProblem, OptimiseFail, Step
  <2> QED BY <2>1, <2>2, Zenon DEF OptimiseUnderWay
<1>1. PICK s, t, n, l, cs, k, b, e, r : /\ st = OptimiseRecord(s, t, n, l, cs, k, b, e, r)
                                        /\ OptimiseFacts(s, n, cs, k, b, r)
  BY <1>0, Zenon DEF OptimiseInv
<1>2. /\ st.solver = s /\ st.type = t /\ st.n = n /\ st.lambda = l /\ st.constraints = cs /\ st.counted = k
      /\ st.built = b /\ st.result = r
  BY <1>1 DEF OptimiseRecord
<1>3. n \in Nat /\ \A i \in DOMAIN cs : cs[i] \in Constraints
  BY <1>1, Zenon DEF OptimiseFacts
<1>4. ASSUME NEW e2, st' = [st EXCEPT !.error = e2] PROVE OptimiseInv'
  <2>1. st' = OptimiseRecord(s, t, n, l, cs, k, b, e2, r)
    BY <1>1, <1>4 DEF OptimiseRecord
  <2> QED BY <1>1, <2>1, Zenon DEF OptimiseInv
<1>5. CASE CheckCaps
  <2>1. CASE CapsError = "none" /\ st' = [st EXCEPT !.counted = {CountScalarConstraints}]
    <3> PICK x : x = CountScalarConstraints
      OBVIOUS
    <3>1. x = Tally(n, cs) /\ x \in Nat
      BY <1>2, <1>3, CountIsTally, TallyIs
    <3>2. SolverAllowed /\ ProblemHolds /\ ~(st.n > MaxVariables) /\ ~(x > MaxConstraints)
      BY <2>1 DEF CapsError
    <3>3. x <= MaxConstraints /\ n \in 1 .. MaxVariables /\ s \in {"clarabel", "osqp"}
      BY <1>2, <1>3, <3>1, <3>2, EstimatorsAssumption DEF SolverAllowed, ProblemHolds
    <3>4. CapsFacts(s, n, cs, {x}, x)
      BY <3>1, <3>3, Zenon DEF CapsFacts
    <3>5. k = {}
      BY <1>2, <1>5, Zenon DEF CheckCaps
    <3>6. \A y \in b : k = {y}
      BY <1>1, Zenon DEF OptimiseFacts
    <3>7. \A y \in b : {x} = {y}
      BY <3>5, <3>6
    <3>8. \A y \in {x} : CapsFacts(s, n, cs, {x}, y)
      BY <3>4
    <3>9. OptimiseFacts(s, n, cs, {x}, b, r)
      BY <1>1, <3>7, <3>8, Zenon DEF OptimiseFacts
    <3>10. st' = OptimiseRecord(s, t, n, l, cs, {x}, b, e, r)
      <4>1. ASSUME NEW y, st' = [st EXCEPT !.counted = y] PROVE st' = OptimiseRecord(s, t, n, l, cs, y, b, e, r)
        BY <1>1, <4>1 DEF OptimiseRecord
      <4> QED BY <2>1, <4>1, Zenon
    <3> QED BY <3>9, <3>10, Zenon DEF OptimiseInv
  <2>2. CASE st' = [st EXCEPT !.error = CapsError]
    BY <1>4, <2>2, Zenon
  <2> QED BY <1>5, <2>1, <2>2, Zenon DEF CheckCaps, OptimiseFail, Step
<1>6. CASE BuildProblem
  <2>1. CASE (\A i \in DOMAIN cs : ConstraintBuilds(cs[i])) /\ st' = [st EXCEPT !.built = {CountOf(ScalarsOf)}]
    <3> PICK x : x = CountOf(ScalarsOf)
      OBVIOUS
    <3>1. x = Tally(n, cs)
      BY <1>2, <2>1, CountIsTally
    <3>2. k # {}
      BY <1>2, <1>6, Zenon DEF BuildProblem
    <3>3. PICK y0 \in k : CapsFacts(s, n, cs, k, y0)
      BY <1>1, <3>2 DEF OptimiseFacts
    <3>4. k = {x}
      BY <3>1, <3>3 DEF CapsFacts
    <3>5. \A z \in {x} : k = {z}
      BY <3>4
    <3>6. OptimiseFacts(s, n, cs, k, {x}, r)
      BY <1>1, <3>5, Zenon DEF OptimiseFacts
    <3>7. st' = OptimiseRecord(s, t, n, l, cs, k, {x}, e, r)
      <4>1. ASSUME NEW y, st' = [st EXCEPT !.built = y] PROVE st' = OptimiseRecord(s, t, n, l, cs, k, y, e, r)
        BY <1>1, <4>1 DEF OptimiseRecord
      <4> QED BY <2>1, <4>1, Zenon
    <3> QED BY <3>6, <3>7, Zenon DEF OptimiseInv
  <2>2. CASE st' = [st EXCEPT !.error = "CONTRACT_INVALID"]
    BY <1>4, <2>2
  <2> QED BY <1>2, <1>6, <2>1, <2>2, Zenon DEF BuildProblem, OptimiseFail, Step
<1>7. CASE SolveProblem
  <2>1. PICK a \in SolverAnswers, finite \in BOOLEAN :
          st' = [st EXCEPT !.result =
                   {[status   |-> IF MappedStatus(a) \in {"optimal", "optimal_inaccurate"} /\ ~finite
                                  THEN "solver_error" ELSE MappedStatus(a),
                     solution |-> MappedStatus(a) \in {"optimal", "optimal_inaccurate"} /\ finite]}]
    BY <1>7, Zenon DEF SolveProblem, Step
  <2> PICK u : u = IF MappedStatus(a) \in {"optimal", "optimal_inaccurate"} /\ ~finite
                   THEN "solver_error" ELSE MappedStatus(a)
    OBVIOUS
  <2> PICK v : v = (MappedStatus(a) \in {"optimal", "optimal_inaccurate"} /\ finite)
    OBVIOUS
  <2> PICK x : x = [status |-> u, solution |-> v]
    OBVIOUS
  <2>2. st' = [st EXCEPT !.result = {x}]
    BY <2>1, Zenon
  <2>3. x.status = u /\ x.solution = v
    BY Zenon
  <2>4. v <=> u \in {"optimal", "optimal_inaccurate"}
    <3>1. "solver_error" \notin {"optimal", "optimal_inaccurate"}
      OBVIOUS
    <3>2. CASE finite
      BY <3>2, Zenon
    <3>3. CASE ~finite
      BY <3>1, <3>3, Zenon
    <3> QED BY <3>2, <3>3
  <2>5. SolverFacts(x)
    BY <2>3, <2>4, Zenon DEF SolverFacts
  <2>6. \A y \in {x} : SolverFacts(y)
    BY <2>5
  <2>7. OptimiseFacts(s, n, cs, k, b, {x})
    BY <1>1, <2>6, Zenon DEF OptimiseFacts
  <2>8. st' = OptimiseRecord(s, t, n, l, cs, k, b, e, {x})
    <3>1. ASSUME NEW y, st' = [st EXCEPT !.result = y] PROVE st' = OptimiseRecord(s, t, n, l, cs, k, b, e, y)
      BY <1>1, <3>1 DEF OptimiseRecord
    <3> QED BY <2>2, <3>1, Zenon
  <2> QED BY <2>7, <2>8, Zenon DEF OptimiseInv
<1> QED BY <1>5, <1>6, <1>7

\* The optimise invariant gives the property its calls are checked for.
LEMMA OptimiseInvHolds == OptimiseInv => SolvedWithinCaps
<1> SUFFICES ASSUME OptimiseInv, subject = "optimise" PROVE SolvedWithinCaps
  BY Zenon DEF SolvedWithinCaps
<1>1. PICK s, t, n, l, cs, k, b, e, r : /\ st = OptimiseRecord(s, t, n, l, cs, k, b, e, r)
                                        /\ OptimiseFacts(s, n, cs, k, b, r)
  BY Zenon DEF OptimiseInv
<1>2. st.solver = s /\ st.n = n /\ st.counted = k /\ st.built = b /\ st.result = r
  BY <1>1 DEF OptimiseRecord
<1>3. ASSUME NEW y \in b PROVE y <= MaxConstraints /\ n \in 1 .. MaxVariables /\ s \in {"clarabel", "osqp"} /\ k = {y}
  <2>1. k = {y}
    BY <1>1, <1>3, Zenon DEF OptimiseFacts
  <2>2. y \in k
    BY <2>1
  <2>3. CapsFacts(s, n, cs, k, y)
    BY <1>1, <2>2, Zenon DEF OptimiseFacts
  <2> QED BY <2>1, <2>3, Zenon DEF CapsFacts
<1>4. ASSUME NEW y \in r PROVE y.solution <=> y.status \in {"optimal", "optimal_inaccurate"}
  BY <1>1, <1>4, Zenon DEF OptimiseFacts, SolverFacts
<1> QED BY <1>2, <1>3, <1>4, Zenon DEF SolvedWithinCaps, SolverAllowed
-----------------------------------------------------------------------------
(***************************************************************************)
(* Estimators: covariance shrinkage.                                       *)
(***************************************************************************)
LEMMA ProductGrows ==
    ASSUME NEW p \in Nat, NEW x \in Nat, NEW y \in Nat, x > p, y >= p, y > 0
    PROVE  x * y > p * p
<1> PICK k : k = x - (p + 1)
  OBVIOUS
<1> PICK j : j = y - p
  OBVIOUS
<1>1. k \in Nat /\ j \in Nat /\ x = (p + 1) + k /\ y = p + j
  OBVIOUS
<1>2. \A a, b, c \in Nat : ((a + 1) + b) * c = (a * c + c) + b * c /\ b * c \in Nat /\ a * c \in Nat
  OBVIOUS
<1>3. \A a, b \in Nat : a * (a + b) = a * a + a * b /\ a * b \in Nat /\ a * a \in Nat
  OBVIOUS
<1>4. x * y = (p * y + y) + k * y /\ k * y \in Nat /\ p * y \in Nat
  BY <1>1, <1>2
<1>5. p * y = p * p + p * j /\ p * j \in Nat /\ p * p \in Nat
  BY <1>1, <1>3
<1> QED BY <1>4, <1>5

\* A convex mixture of a positive definite matrix and a positive multiple of the
\* identity is positive definite.
LEMMA ShrunkIsSpd ==
    ASSUME NEW m \in Matrices, IsSpd(m), NEW alpha \in Int, AlphaHolds(alpha),
           NEW t \in Nat \ {0}, NEW over \in Nat \ {0}
    PROVE  IsSpd(ShrinkToward(m, alpha, t, over))
<1>0. AlphaUnit \in Nat \ {0} /\ 0 <= alpha /\ alpha <= AlphaUnit
  BY EstimatorsAssumption DEF AlphaHolds
<1>1. m.a \in 0 .. 2 /\ m.b \in 0 .. 1 /\ m.c = m.b /\ m.d \in 1 .. 2 /\ m.a * m.d > m.b * m.b
  BY DEF Matrices, IsSpd
<1> PICK p : p = (AlphaUnit - alpha) * over
  OBVIOUS
<1> PICK q : q = alpha * t
  OBVIOUS
<1>2. p \in Nat /\ q \in Nat /\ (p > 0 \/ q > 0)
  <2>1. \A x, y \in Nat : x * y \in Nat /\ (x > 0 /\ y > 0 => x * y > 0)
    OBVIOUS
  <2>2. AlphaUnit - alpha \in Nat /\ alpha \in Nat /\ (AlphaUnit - alpha > 0 \/ alpha > 0) /\ t > 0 /\ over > 0
    BY <1>0
  <2> QED BY <2>1, <2>2
<1> PICK a, b, d : a = m.a /\ b = m.b /\ d = m.d
  OBVIOUS
<1>3. alpha * 0 = 0
  OBVIOUS
<1>4. ShrinkToward(m, alpha, t, over) = [a |-> p * a + q, b |-> p * b + 0, c |-> p * b + 0, d |-> p * d + q]
  BY <1>1, <1>3, Zenon DEF ShrinkToward
<1>5. \/ b = 0 /\ (a = 1 \/ a = 2) /\ (d = 1 \/ d = 2)
      \/ b = 1 /\ ((a = 1 /\ d = 2) \/ (a = 2 /\ d = 1) \/ (a = 2 /\ d = 2))
  <2>1. (a = 0 \/ a = 1 \/ a = 2) /\ (b = 0 \/ b = 1) /\ (d = 1 \/ d = 2) /\ a * d > b * b
    BY <1>1
  <2> QED BY <2>1
<1>6. ASSUME NEW x, NEW y, NEW z, x = p * a + q, y = p * d + q, z = p * b + 0
      PROVE  x + y > 0 /\ x * y > z * z
  <2>1. p * 0 = 0 /\ p * 1 = p /\ p * 2 = 2 * p
    BY <1>2
  <2>2. CASE b = 0
    <3>1. x \in Nat /\ y \in Nat /\ x > 0 /\ y > 0 /\ z = 0
      BY <1>2, <1>5, <1>6, <2>1, <2>2
    <3>2. x * y > 0 * 0
      BY <3>1, ProductGrows
    <3> QED BY <3>1, <3>2
  <2>3. CASE b = 1
    <3>1. x \in Nat /\ y \in Nat /\ x > 0 /\ y > 0 /\ z = p /\ x >= p /\ y >= p /\ (x > p \/ y > p)
      BY <1>2, <1>5, <1>6, <2>1, <2>3
    <3>2. CASE x > p
      BY <1>2, <3>1, <3>2, ProductGrows
    <3>3. CASE y > p
      <4>1. y * x > p * p
        BY <1>2, <3>1, <3>3, ProductGrows
      <4>2. \A u, v \in Nat : u * v = v * u
        OBVIOUS
      <4> QED BY <3>1, <4>1, <4>2
    <3> QED BY <3>1, <3>2, <3>3
  <2> QED BY <1>5, <2>2, <2>3
<1>7. ASSUME NEW x, NEW y, NEW z, x + y > 0, x * y > z * z PROVE IsSpd([a |-> x, b |-> z, c |-> z, d |-> y])
  BY <1>7 DEF IsSpd
<1> QED BY <1>4, <1>6, <1>7, Zenon

\* The traces of the samples sum to a positive number.
LEMMA TraceSumIs ==
    ASSUME NEW k \in 1 .. 2, NEW s \in [1 .. k -> Matrices] PROVE TraceSum(s) \in Nat \ {0}
<1>1. \A m \in Matrices : m.a \in Nat /\ m.d \in Nat /\ m.d > 0
  BY DEF Matrices
<1>2. Len(s) = k
  OBVIOUS
<1>3. s[1] \in Matrices /\ (k = 2 => s[2] \in Matrices)
  OBVIOUS
<1>4. CASE k = 2
  <2>1. TraceSum(s) = ((s[1].a + s[1].d) + s[2].a) + s[2].d
    BY <1>2, <1>4 DEF TraceSum
  <2> QED BY <1>1, <1>3, <1>4, <2>1
<1>5. CASE k # 2
  <2>1. TraceSum(s) = s[1].a + s[1].d
    BY <1>2, <1>5 DEF TraceSum
  <2> QED BY <1>1, <1>3, <2>1
<1> QED BY <1>4, <1>5

\* The state was learnt from the training set, and gives back the fit unless the
\* caller changed it.
LearntFacts(train, alpha, fitted, touched, s) ==
    /\ s.target \in Nat \ {0} /\ s.over \in Nat \ {0} /\ s.alpha \in Int
    /\ s = [alpha |-> s.alpha, n |-> s.n, target |-> s.target, over |-> s.over, keys |-> s.keys]
    /\ touched \/ s.alpha = alpha
    /\ \A i \in DOMAIN fitted : fitted[i] = ShrinkToward(train[i], alpha, s.target, s.over) /\ IsSpd(fitted[i])
    /\ DOMAIN fitted = DOMAIN train
ShrunkFacts(train, fitted, touched, m, x) ==
    /\ IsSpd(x)
    /\ touched \/ \A i \in DOMAIN train : train[i] = m => fitted[i] = x
CovarianceFacts(k, train, alpha, state, fitted, touched, new, out) ==
    /\ k \in 0 .. 2 /\ train \in [1 .. k -> Matrices] /\ alpha \in Int
    /\ state = {} => DOMAIN fitted = {} /\ out = {}
    /\ out = {} => new = {}
    /\ \A s \in state : LearntFacts(train, alpha, fitted, touched, s)
    /\ \A m \in new : \A x \in out : ShrunkFacts(train, fitted, touched, m, x)
    /\ \A i \in DOMAIN fitted : IsSpd(fitted[i])
CovarianceRecord(train, alpha, state, fitted, touched, refused, new, out) ==
    [train |-> train, alpha |-> alpha, state |-> state, fitted |-> fitted, touched |-> touched,
     refused |-> refused, new |-> new, out |-> out]

CovarianceInv ==
    subject = "covariance" =>
        \E k, train, alpha, state, fitted, touched, refused, new, out :
            /\ st = CovarianceRecord(train, alpha, state, fitted, touched, refused, new, out)
            /\ CovarianceFacts(k, train, alpha, state, fitted, touched, new, out)

\* The initial states satisfy the covariance invariant.
LEMMA CovarianceInits == CovarianceInit => CovarianceInv
<1> SUFFICES ASSUME CovarianceInit PROVE CovarianceInv
  OBVIOUS
<1>1. PICK train \in UNION {[1 .. k -> Matrices] : k \in 0 .. 2}, alpha \in -1 .. AlphaUnit + 1 :
           st = [train |-> train, alpha |-> alpha, state |-> {}, fitted |-> <<>>, touched |-> FALSE,
                 refused |-> FALSE, new |-> {}, out |-> {}]
  BY Zenon DEF CovarianceInit
<1>2. PICK k \in 0 .. 2 : train \in [1 .. k -> Matrices]
  OBVIOUS
<1>3. alpha \in Int
  BY EstimatorsAssumption
<1> PICK none : none = {}
  OBVIOUS
<1> PICK empty : empty = <<>>
  OBVIOUS
<1>4. DOMAIN empty = {}
  OBVIOUS
<1>5. CovarianceFacts(k, train, alpha, none, empty, FALSE, none, none)
  BY <1>2, <1>3, <1>4, Zenon DEF CovarianceFacts
<1>6. st = CovarianceRecord(train, alpha, none, empty, FALSE, FALSE, none, none)
  BY <1>1, Zenon DEF CovarianceRecord
<1> QED BY <1>5, <1>6, Zenon DEF CovarianceInv

\* Every step of such a call keeps the covariance invariant.
LEMMA CovarianceSteps ==
    ASSUME CovarianceInv, FitTransform \/ TouchState \/ Transform PROVE CovarianceInv'
<1>0. subject = "covariance" /\ subject' = "covariance"
  BY Zenon DEF FitTransform, TouchState, Transform, CovarianceUnderWay, CovarianceRefuse, Step
<1>1. PICK k, t, a, s, f, h, r, n, o : /\ st = CovarianceRecord(t, a, s, f, h, r, n, o)
                                       /\ CovarianceFacts(k, t, a, s, f, h, n, o)
  BY <1>0, Zenon DEF CovarianceInv
<1>2. st.train = t /\ st.alpha = a /\ st.state = s /\ st.fitted = f /\ st.touched = h /\ st.new = n /\ st.out = o
  BY <1>1 DEF CovarianceRecord
<1>3. k \in 0 .. 2 /\ t \in [1 .. k -> Matrices] /\ a \in Int
  BY <1>1, Zenon DEF CovarianceFacts
<1>4. CASE st' = [st EXCEPT !.refused = TRUE]
  <2>1. st' = CovarianceRecord(t, a, s, f, h, TRUE, n, o)
    BY <1>1, <1>4 DEF CovarianceRecord
  <2> QED BY <1>1, <2>1, Zenon DEF CovarianceInv
<1>5. CASE FitTransform
  <2>1. CASE /\ \A i \in DOMAIN st.train : IsSpd(st.train[i])
             /\ st.train # <<>> /\ AlphaHolds(st.alpha)
             /\ st' = [st EXCEPT
                    !.state = {[alpha |-> st.alpha, n |-> 2, target |-> TraceSum(st.train), over |-> 2 * Len(st.train),
                                keys |-> TRUE]},
                    !.fitted = [i \in DOMAIN st.train |->
                                   ShrinkToward(st.train[i], st.alpha, TraceSum(st.train), 2 * Len(st.train))]]
    <3> PICK u : u = TraceSum(t)
      OBVIOUS
    <3> PICK v : v = 2 * Len(t)
      OBVIOUS
    <3> PICK x : x = [alpha |-> a, n |-> 2, target |-> u, over |-> v, keys |-> TRUE]
      OBVIOUS
    <3> PICK g : g = [i \in DOMAIN t |-> ShrinkToward(t[i], a, u, v)]
      OBVIOUS
    <3>1. st' = [st EXCEPT !.state = {x}, !.fitted = g]
      BY <1>2, <2>1, Zenon
    <3>2. k \in 1 .. 2
      <4>1. t # <<>>
        BY <1>2, <2>1
      <4>2. k = 0 => t = <<>>
        BY <1>3
      <4> QED BY <1>3, <4>1, <4>2
    <3>3. u \in Nat \ {0} /\ v \in Nat \ {0}
      <4>1. Len(t) = k
        BY <1>3
      <4>2. u \in Nat \ {0}
        BY <1>3, <3>2, TraceSumIs, Zenon
      <4>3. v = 2 * k
        BY <4>1, Zenon
      <4>4. v \in Nat \ {0}
        BY <3>2, <4>3
      <4> QED BY <4>2, <4>4
    <3>4. x.target = u /\ x.over = v /\ x.alpha = a /\ x.n = 2 /\ x.keys = TRUE
      BY Zenon
    <3>5. DOMAIN g = DOMAIN t /\ \A i \in DOMAIN t : g[i] = ShrinkToward(t[i], a, u, v)
      BY Zenon
    <3>6. ASSUME NEW i \in DOMAIN t PROVE IsSpd(g[i])
      <4>1. t[i] \in Matrices /\ IsSpd(t[i]) /\ AlphaHolds(a)
        <5>1. IsSpd(t[i]) /\ AlphaHolds(a)
          BY <1>2, <2>1, <3>6, Zenon
        <5>2. t[i] \in Matrices
          BY <1>3, <3>6
        <5> QED BY <5>1, <5>2
      <4>2. IsSpd(ShrinkToward(t[i], a, u, v))
        BY <1>3, <3>3, <4>1, ShrunkIsSpd
      <4> QED BY <3>5, <3>6, <4>2, Zenon
    <3>7. LearntFacts(t, a, g, h, x)
      BY <1>3, <3>3, <3>4, <3>5, <3>6, Zenon DEF LearntFacts
    <3>8. n = {} /\ o = {}
      <4>1. s = {}
        BY <1>2, <1>5, Zenon DEF FitTransform
      <4> QED BY <1>1, <4>1, Zenon DEF CovarianceFacts
    <3>9. (\A y \in {x} : LearntFacts(t, a, g, h, y)) /\ {x} # {}
      BY <3>7
    <3>10. \A m \in n : \A y \in o : ShrunkFacts(t, g, h, m, y)
      BY <3>8
    <3>11. \A i \in DOMAIN g : IsSpd(g[i])
      BY <3>5, <3>6, Zenon
    <3>12. CovarianceFacts(k, t, a, {x}, g, h, n, o)
      BY <1>3, <3>8, <3>9, <3>10, <3>11, Zenon DEF CovarianceFacts
    <3>13. st' = CovarianceRecord(t, a, {x}, g, h, r, n, o)
      <4>1. ASSUME NEW y, NEW z, st' = [st EXCEPT !.state = y, !.fitted = z] PROVE st' = CovarianceRecord(t, a, y, z, h, r, n, o)
        BY <1>1, <4>1 DEF CovarianceRecord
      <4> QED BY <3>1, <4>1, Zenon
    <3> QED BY <3>12, <3>13, Zenon DEF CovarianceInv
  <2> QED BY <1>4, <1>5, <2>1, Zenon DEF FitTransform, CovarianceRefuse, Step
<1>6. CASE TouchState
  <2>1. PICK x \in s : \E y \in {[x EXCEPT !.alpha = AlphaUnit + 1], [x EXCEPT !.n = 3],
                                 [x EXCEPT !.keys = FALSE], [x EXCEPT !.alpha = 0]} :
            st' = [st EXCEPT !.state = {y}, !.touched = TRUE]
    BY <1>2, <1>6, Zenon DEF TouchState, Step
  <2>2. PICK y : /\ y = [x EXCEPT !.alpha = AlphaUnit + 1] \/ y = [x EXCEPT !.n = 3] \/ y = [x EXCEPT !.keys = FALSE]
                      \/ y = [x EXCEPT !.alpha = 0]
                 /\ st' = [st EXCEPT !.state = {y}, !.touched = TRUE]
    BY <2>1, Zenon
  <2>3. LearntFacts(t, a, f, h, x)
    BY <1>1, <2>1, Zenon DEF CovarianceFacts
  <2>4. /\ y = [alpha |-> y.alpha, n |-> y.n, target |-> y.target, over |-> y.over, keys |-> y.keys]
        /\ y.target = x.target /\ y.over = x.over /\ y.alpha \in Int
    <3>1. x = [alpha |-> x.alpha, n |-> x.n, target |-> x.target, over |-> x.over, keys |-> x.keys] /\ x.alpha \in Int
      BY <2>3, Zenon DEF LearntFacts
    <3>2. AlphaUnit + 1 \in Int
      BY EstimatorsAssumption
    <3>3. CASE y = [x EXCEPT !.alpha = AlphaUnit + 1]
      BY <3>1, <3>2, <3>3
    <3>4. CASE y = [x EXCEPT !.n = 3]
      BY <3>1, <3>4
    <3>5. CASE y = [x EXCEPT !.keys = FALSE]
      BY <3>1, <3>5
    <3>6. CASE y = [x EXCEPT !.alpha = 0]
      BY <3>1, <3>6
    <3> QED BY <2>2, <3>3, <3>4, <3>5, <3>6
  <2>5. LearntFacts(t, a, f, TRUE, y)
    BY <2>3, <2>4, Zenon DEF LearntFacts
  <2>6. o = {} /\ n = {}
    <3>1. o = {}
      BY <1>2, <1>6, Zenon DEF TouchState
    <3> QED BY <1>1, <3>1, Zenon DEF CovarianceFacts
  <2>7. (\A z \in {y} : LearntFacts(t, a, f, TRUE, z)) /\ {y} # {}
    BY <2>5
  <2>8. \A m \in n : \A z \in o : ShrunkFacts(t, f, TRUE, m, z)
    BY <2>6
  <2>9. CovarianceFacts(k, t, a, {y}, f, TRUE, n, o)
    BY <1>1, <2>6, <2>7, <2>8, Zenon DEF CovarianceFacts
  <2>10. st' = CovarianceRecord(t, a, {y}, f, TRUE, r, n, o)
    <3>1. ASSUME NEW z, st' = [st EXCEPT !.state = z, !.touched = TRUE] PROVE st' = CovarianceRecord(t, a, z, f, TRUE, r, n, o)
      BY <1>1, <3>1 DEF CovarianceRecord
    <3> QED BY <2>2, <3>1, Zenon
  <2> QED BY <2>9, <2>10, Zenon DEF CovarianceInv
<1>7. CASE Transform
  <2>1. PICK x \in s, m \in Matrices :
           \/ /\ StateHolds(x) /\ IsSpd(m) /\ AlphaHolds(x.alpha)
              /\ st' = [st EXCEPT !.new = {m}, !.out = {ShrinkToward(m, x.alpha, TargetUsed(x, m)[1], TargetUsed(x, m)[2])}]
           \/ st' = [st EXCEPT !.refused = TRUE]
    BY <1>2, <1>7, Zenon DEF Transform, CovarianceRefuse, Step
  <2>2. CASE /\ IsSpd(m) /\ AlphaHolds(x.alpha)
             /\ st' = [st EXCEPT !.new = {m}, !.out = {ShrinkToward(m, x.alpha, TargetUsed(x, m)[1], TargetUsed(x, m)[2])}]
    <3>1. TargetUsed(x, m)[1] = x.target /\ TargetUsed(x, m)[2] = x.over
      BY DEF TargetUsed
    <3> PICK y : y = ShrinkToward(m, x.alpha, x.target, x.over)
      OBVIOUS
    <3>2. st' = [st EXCEPT !.new = {m}, !.out = {y}]
      BY <2>2, <3>1, Zenon
    <3>3. LearntFacts(t, a, f, h, x)
      BY <1>1, <2>1, Zenon DEF CovarianceFacts
    <3>4. x.target \in Nat \ {0} /\ x.over \in Nat \ {0} /\ x.alpha \in Int
      BY <3>3, Zenon DEF LearntFacts
    <3>5. IsSpd(y)
      BY <2>2, <3>4, ShrunkIsSpd
    <3>6. ASSUME ~h, NEW i \in DOMAIN t, t[i] = m PROVE f[i] = y
      BY <3>3, <3>6, Zenon DEF LearntFacts
    <3>7. ShrunkFacts(t, f, h, m, y)
      BY <3>5, <3>6, Zenon DEF ShrunkFacts
    <3>8. (\A u \in {m} : \A v \in {y} : ShrunkFacts(t, f, h, u, v)) /\ {y} # {} /\ s # {}
      BY <2>1, <3>7
    <3>9. CovarianceFacts(k, t, a, s, f, h, {m}, {y})
      BY <1>1, <3>8, Zenon DEF CovarianceFacts
    <3>10. st' = CovarianceRecord(t, a, s, f, h, r, {m}, {y})
      <4>1. ASSUME NEW u, NEW v, st' = [st EXCEPT !.new = u, !.out = v] PROVE st' = CovarianceRecord(t, a, s, f, h, r, u, v)
        BY <1>1, <4>1 DEF CovarianceRecord
      <4> QED BY <3>2, <4>1, Zenon
    <3> QED BY <3>9, <3>10, Zenon DEF CovarianceInv
  <2> QED BY <1>4, <2>1, <2>2
<1> QED BY <1>5, <1>6, <1>7

\* The covariance invariant gives the property its calls are checked for.
LEMMA CovarianceInvHolds == CovarianceInv => NothingLeaksFromNew
<1> SUFFICES ASSUME CovarianceInv, subject = "covariance" PROVE NothingLeaksFromNew
  BY Zenon DEF NothingLeaksFromNew
<1>1. PICK k, t, a, s, f, h, r, n, o : /\ st = CovarianceRecord(t, a, s, f, h, r, n, o)
                                       /\ CovarianceFacts(k, t, a, s, f, h, n, o)
  BY Zenon DEF CovarianceInv
<1>2. st.train = t /\ st.fitted = f /\ st.touched = h /\ st.new = n /\ st.out = o
  BY <1>1 DEF CovarianceRecord
<1>3. (\A i \in DOMAIN f : IsSpd(f[i])) /\ \A m \in n : \A x \in o : ShrunkFacts(t, f, h, m, x)
  BY <1>1, Zenon DEF CovarianceFacts
<1>4. ASSUME NEW m \in n, NEW x \in o PROVE IsSpd(x) /\ (~h => \A i \in DOMAIN t : t[i] = m => f[i] = x)
  <2>1. ShrunkFacts(t, f, h, m, x)
    BY <1>3
  <2> QED BY <2>1, Zenon DEF ShrunkFacts
<1>5. \A i \in DOMAIN st.fitted : IsSpd(st.fitted[i])
  BY <1>2, <1>3
<1>6. ASSUME NEW m \in st.new, NEW x \in st.out
      PROVE  IsSpd(x) /\ (~st.touched => \A i \in DOMAIN st.train : st.train[i] = m => st.fitted[i] = x)
  <2>1. m \in n /\ x \in o
    BY <1>2, <1>6
  <2>2. ASSUME ~st.touched, NEW i \in DOMAIN st.train, st.train[i] = m PROVE st.fitted[i] = x
    <3>1. ~h
      BY <1>2, <2>2, Zenon
    <3>2. i \in DOMAIN t /\ t[i] = m
      BY <1>2, <2>2
    <3>3. f[i] = x
      BY <1>4, <2>1, <3>1, <3>2, Zenon
    <3> QED BY <1>2, <3>3
  <2> QED BY <1>4, <2>1, <2>2, Zenon
<1> QED BY <1>5, <1>6, Zenon DEF NothingLeaksFromNew
-----------------------------------------------------------------------------
(***************************************************************************)
(* The pack adapters together.                                             *)
(***************************************************************************)
AdaptersInv ==
    /\ SmtInv /\ LeanInv /\ LakeInv /\ ContoursInv /\ ConvertInv /\ DimensionInv /\ NativeInv
    /\ PosteriorInv /\ PersistenceInv /\ OptimiseInv /\ CovarianceInv

\* One adapter is called in one run: the invariants of the others say nothing.
LEMMA AdaptersElse ==
    /\ (subject # "smt" => SmtInv) /\ (subject' # "smt" => SmtInv')
    /\ (subject # "lean" => LeanInv) /\ (subject' # "lean" => LeanInv')
    /\ (subject # "lake" => LakeInv) /\ (subject' # "lake" => LakeInv')
    /\ (subject # "contours" => ContoursInv) /\ (subject' # "contours" => ContoursInv')
    /\ (subject # "convert" => ConvertInv) /\ (subject' # "convert" => ConvertInv')
    /\ (subject # "dimension" => DimensionInv) /\ (subject' # "dimension" => DimensionInv')
    /\ (subject # "native" => NativeInv) /\ (subject' # "native" => NativeInv')
    /\ (subject # "posterior" => PosteriorInv) /\ (subject' # "posterior" => PosteriorInv')
    /\ (subject # "persistence" => PersistenceInv) /\ (subject' # "persistence" => PersistenceInv')
    /\ (subject # "optimise" => OptimiseInv) /\ (subject' # "optimise" => OptimiseInv')
    /\ (subject # "covariance" => CovarianceInv) /\ (subject' # "covariance" => CovarianceInv')
<1>1. (subject # "smt" => SmtInv) /\ (subject' # "smt" => SmtInv')
  BY Zenon DEF SmtInv
<1>2. (subject # "lean" => LeanInv) /\ (subject' # "lean" => LeanInv')
  BY Zenon DEF LeanInv
<1>3. (subject # "lake" => LakeInv) /\ (subject' # "lake" => LakeInv')
  BY Zenon DEF LakeInv
<1>4. (subject # "contours" => ContoursInv) /\ (subject' # "contours" => ContoursInv')
  BY Zenon DEF ContoursInv
<1>5. (subject # "convert" => ConvertInv) /\ (subject' # "convert" => ConvertInv')
  BY Zenon DEF ConvertInv
<1>6. (subject # "dimension" => DimensionInv) /\ (subject' # "dimension" => DimensionInv')
  BY Zenon DEF DimensionInv
<1>7. (subject # "native" => NativeInv) /\ (subject' # "native" => NativeInv')
  BY Zenon DEF NativeInv
<1>8. (subject # "posterior" => PosteriorInv) /\ (subject' # "posterior" => PosteriorInv')
  BY Zenon DEF PosteriorInv
<1>9. (subject # "persistence" => PersistenceInv) /\ (subject' # "persistence" => PersistenceInv')
  BY Zenon DEF PersistenceInv
<1>10. (subject # "optimise" => OptimiseInv) /\ (subject' # "optimise" => OptimiseInv')
  BY Zenon DEF OptimiseInv
<1>11. (subject # "covariance" => CovarianceInv) /\ (subject' # "covariance" => CovarianceInv')
  BY Zenon DEF CovarianceInv
<1> QED BY <1>1, <1>2, <1>3, <1>4, <1>5, <1>6, <1>7, <1>8, <1>9, <1>10, <1>11

\* The invariant of the adapter that is called is the invariant of all.
LEMMA AdaptersOne ==
    /\ (subject = "smt" /\ SmtInv => AdaptersInv) /\ (subject' = "smt" /\ SmtInv' => AdaptersInv')
    /\ (subject = "lean" /\ LeanInv => AdaptersInv) /\ (subject' = "lean" /\ LeanInv' => AdaptersInv')
    /\ (subject = "lake" /\ LakeInv => AdaptersInv) /\ (subject' = "lake" /\ LakeInv' => AdaptersInv')
    /\ (subject = "contours" /\ ContoursInv => AdaptersInv) /\ (subject' = "contours" /\ ContoursInv' => AdaptersInv')
    /\ (subject = "convert" /\ ConvertInv => AdaptersInv) /\ (subject' = "convert" /\ ConvertInv' => AdaptersInv')
    /\ (subject = "dimension" /\ DimensionInv => AdaptersInv) /\ (subject' = "dimension" /\ DimensionInv' => AdaptersInv')
    /\ (subject = "native" /\ NativeInv => AdaptersInv) /\ (subject' = "native" /\ NativeInv' => AdaptersInv')
    /\ (subject = "posterior" /\ PosteriorInv => AdaptersInv) /\ (subject' = "posterior" /\ PosteriorInv' => AdaptersInv')
    /\ (subject = "persistence" /\ PersistenceInv => AdaptersInv) /\ (subject' = "persistence" /\ PersistenceInv' => AdaptersInv')
    /\ (subject = "optimise" /\ OptimiseInv => AdaptersInv) /\ (subject' = "optimise" /\ OptimiseInv' => AdaptersInv')
    /\ (subject = "covariance" /\ CovarianceInv => AdaptersInv) /\ (subject' = "covariance" /\ CovarianceInv' => AdaptersInv')
<1>1. (subject = "smt" /\ SmtInv => AdaptersInv) /\ (subject' = "smt" /\ SmtInv' => AdaptersInv')
  BY AdaptersElse DEF AdaptersInv
<1>2. (subject = "lean" /\ LeanInv => AdaptersInv) /\ (subject' = "lean" /\ LeanInv' => AdaptersInv')
  BY AdaptersElse DEF AdaptersInv
<1>3. (subject = "lake" /\ LakeInv => AdaptersInv) /\ (subject' = "lake" /\ LakeInv' => AdaptersInv')
  BY AdaptersElse DEF AdaptersInv
<1>4. (subject = "contours" /\ ContoursInv => AdaptersInv) /\ (subject' = "contours" /\ ContoursInv' => AdaptersInv')
  BY AdaptersElse DEF AdaptersInv
<1>5. (subject = "convert" /\ ConvertInv => AdaptersInv) /\ (subject' = "convert" /\ ConvertInv' => AdaptersInv')
  BY AdaptersElse DEF AdaptersInv
<1>6. (subject = "dimension" /\ DimensionInv => AdaptersInv) /\ (subject' = "dimension" /\ DimensionInv' => AdaptersInv')
  BY AdaptersElse DEF AdaptersInv
<1>7. (subject = "native" /\ NativeInv => AdaptersInv) /\ (subject' = "native" /\ NativeInv' => AdaptersInv')
  BY AdaptersElse DEF AdaptersInv
<1>8. (subject = "posterior" /\ PosteriorInv => AdaptersInv) /\ (subject' = "posterior" /\ PosteriorInv' => AdaptersInv')
  BY AdaptersElse DEF AdaptersInv
<1>9. (subject = "persistence" /\ PersistenceInv => AdaptersInv) /\ (subject' = "persistence" /\ PersistenceInv' => AdaptersInv')
  BY AdaptersElse DEF AdaptersInv
<1>10. (subject = "optimise" /\ OptimiseInv => AdaptersInv) /\ (subject' = "optimise" /\ OptimiseInv' => AdaptersInv')
  BY AdaptersElse DEF AdaptersInv
<1>11. (subject = "covariance" /\ CovarianceInv => AdaptersInv) /\ (subject' = "covariance" /\ CovarianceInv' => AdaptersInv')
  BY AdaptersElse DEF AdaptersInv
<1> QED BY <1>1, <1>2, <1>3, <1>4, <1>5, <1>6, <1>7, <1>8, <1>9, <1>10, <1>11

\* The invariant holds at first, every call keeps it, and so does a step of nobody.
LEMMA AdaptersInits == ProversInit \/ EstimatorsInit => AdaptersInv
<1>1. CASE SmtInit
  <2>1. subject = "smt"
    BY <1>1 DEF SmtInit
  <2> QED BY <1>1, <2>1, SmtInits, AdaptersOne
<1>2. CASE LeanInit
  <2>1. subject = "lean"
    BY <1>2 DEF LeanInit
  <2> QED BY <1>2, <2>1, LeanInits, AdaptersOne
<1>3. CASE LakeInit
  <2>1. subject = "lake"
    BY <1>3 DEF LakeInit
  <2> QED BY <1>3, <2>1, LakeInits, AdaptersOne
<1>4. CASE ContoursInit
  <2>1. subject = "contours"
    BY <1>4 DEF ContoursInit
  <2> QED BY <1>4, <2>1, ContoursInits, AdaptersOne
<1>5. CASE ConvertInit
  <2>1. subject = "convert"
    BY <1>5 DEF ConvertInit
  <2> QED BY <1>5, <2>1, ConvertInits, AdaptersOne
<1>6. CASE DimensionInit
  <2>1. subject = "dimension"
    BY <1>6 DEF DimensionInit
  <2> QED BY <1>6, <2>1, DimensionInits, AdaptersOne
<1>7. CASE NativeInit
  <2>1. subject = "native"
    BY <1>7 DEF NativeInit
  <2> QED BY <1>7, <2>1, NativeInits, AdaptersOne
<1>8. CASE PosteriorInit
  <2>1. subject = "posterior"
    BY <1>8 DEF PosteriorInit
  <2> QED BY <1>8, <2>1, PosteriorInits, AdaptersOne
<1>9. CASE PersistenceInit
  <2>1. subject = "persistence"
    BY <1>9 DEF PersistenceInit
  <2> QED BY <1>9, <2>1, PersistenceInits, AdaptersOne
<1>10. CASE OptimiseInit
  <2>1. subject = "optimise"
    BY <1>10 DEF OptimiseInit
  <2> QED BY <1>10, <2>1, OptimiseInits, AdaptersOne
<1>11. CASE CovarianceInit
  <2>1. subject = "covariance"
    BY <1>11 DEF CovarianceInit
  <2> QED BY <1>11, <2>1, CovarianceInits, AdaptersOne
<1> QED BY <1>1, <1>2, <1>3, <1>4, <1>5, <1>6, <1>7, <1>8, <1>9, <1>10, <1>11 DEF ProversInit, EstimatorsInit

\* Every step of such a call keeps the adapters invariant.
LEMMA AdaptersSteps == AdaptersInv /\ (ProversNext \/ EstimatorsNext) => AdaptersInv'
<1> SUFFICES ASSUME AdaptersInv, ProversNext \/ EstimatorsNext PROVE AdaptersInv'
  OBVIOUS
<1>0. SmtInv /\ LeanInv /\ LakeInv /\ ContoursInv /\ ConvertInv /\ DimensionInv /\ NativeInv /\ PosteriorInv /\ PersistenceInv /\ OptimiseInv /\ CovarianceInv
  BY DEF AdaptersInv
<1>1. CASE SmtCheck
  <2>1. subject' = "smt"
    BY <1>1, Zenon DEF SmtCheck, Step
  <2> QED BY <1>0, <1>1, <2>1, SmtSteps, AdaptersOne
<1>2. CASE LeanWrite \/ LeanRun
  <2>1. subject' = "lean"
    BY <1>2, Zenon DEF LeanWrite, LeanRun, Step
  <2> QED BY <1>0, <1>2, <2>1, LeanSteps, AdaptersOne
<1>3. CASE LakeNext
  <2>1. subject' = "lake"
    BY <1>3, Zenon DEF LakeNext, PrepareWrite, LakeUpdate, LakeCacheGet, LakeValidate, LakeClean, LakeStep, Step
  <2> QED BY <1>0, <1>3, <2>1, LakeSteps, AdaptersOne
<1>4. CASE BuildTranslation \/ BuildProverBundle
  <2>1. subject' = "contours"
    BY <1>4, Zenon DEF BuildTranslation, BuildProverBundle, Step
  <2> QED BY <1>0, <1>4, <2>1, ContoursSteps, AdaptersOne
<1>5. CASE Convert
  <2>1. subject' = "convert"
    BY <1>5, Zenon DEF Convert, Step
  <2> QED BY <1>0, <1>5, <2>1, ConvertSteps, AdaptersOne
<1>6. CASE CheckSymbol \/ DimensionStatus
  <2>1. subject' = "dimension"
    BY <1>6, Zenon DEF CheckSymbol, DimensionStatus, LookUp, Running, Step
  <2> QED BY <1>0, <1>6, <2>1, CheckSymbolSteps, DimensionStatusSteps, AdaptersOne
<1>7. CASE NativeProbe
  <2>1. subject' = "native"
    BY <1>7, Zenon DEF NativeProbe, Step
  <2> QED BY <1>0, <1>7, <2>1, NativeSteps, AdaptersOne
<1>8. CASE BuildModelSpec \/ SamplePosterior \/ SummarisePosterior
  <2>1. subject' = "posterior"
    BY <1>8, Zenon DEF BuildModelSpec, SamplePosterior, SummarisePosterior, PosteriorUnderWay, PosteriorRefuse, Step
  <2> QED BY <1>0, <1>8, <2>1, PosteriorSteps, AdaptersOne
<1>9. CASE ComputePersistence \/ RenderDiagram \/ CountClasses
  <2>1. subject' = "persistence"
    BY <1>9, Zenon DEF ComputePersistence, RenderDiagram, CountClasses, Step
  <2> QED BY <1>0, <1>9, <2>1, PersistenceSteps, AdaptersOne
<1>10. CASE CheckCaps \/ BuildProblem \/ SolveProblem
  <2>1. subject' = "optimise"
    BY <1>10, Zenon DEF CheckCaps, BuildProblem, SolveProblem, OptimiseUnderWay, OptimiseFail, Step
  <2> QED BY <1>0, <1>10, <2>1, OptimiseSteps, AdaptersOne
<1>11. CASE FitTransform \/ TouchState \/ Transform
  <2>1. subject' = "covariance"
    BY <1>11, Zenon DEF FitTransform, TouchState, Transform, CovarianceUnderWay, CovarianceRefuse, Step
  <2> QED BY <1>0, <1>11, <2>1, CovarianceSteps, AdaptersOne
<1> QED BY <1>1, <1>2, <1>3, <1>4, <1>5, <1>6, <1>7, <1>8, <1>9, <1>10, <1>11 DEF ProversNext, EstimatorsNext

\* A step that leaves the state alone keeps the adapters invariant.
LEMMA AdaptersUnmoved == AdaptersInv /\ UNCHANGED frame => AdaptersInv'
<1> SUFFICES ASSUME AdaptersInv, UNCHANGED frame PROVE AdaptersInv'
  OBVIOUS
<1>0. subject' = subject /\ st' = st
  BY DEF frame
<1>12. SmtInv /\ LeanInv /\ LakeInv /\ ContoursInv /\ ConvertInv /\ DimensionInv /\ NativeInv /\ PosteriorInv /\ PersistenceInv /\ OptimiseInv /\ CovarianceInv
  BY DEF AdaptersInv
<1>1. SmtInv'
  BY <1>0, <1>12, Zenon DEF SmtInv
<1>2. LeanInv'
  BY <1>0, <1>12, Zenon DEF LeanInv
<1>3. LakeInv'
  BY <1>0, <1>12, Zenon DEF LakeInv
<1>4. ContoursInv'
  BY <1>0, <1>12, Zenon DEF ContoursInv
<1>5. ConvertInv'
  BY <1>0, <1>12, Zenon DEF ConvertInv
<1>6. DimensionInv'
  BY <1>0, <1>12, Zenon DEF DimensionInv
<1>7. NativeInv'
  BY <1>0, <1>12, Zenon DEF NativeInv
<1>8. PosteriorInv'
  BY <1>0, <1>12, Zenon DEF PosteriorInv
<1>9. PersistenceInv'
  BY <1>0, <1>12, Zenon DEF PersistenceInv
<1>10. OptimiseInv'
  BY <1>0, <1>12, Zenon DEF OptimiseInv
<1>11. CovarianceInv'
  BY <1>0, <1>12, Zenon DEF CovarianceInv
<1> QED BY <1>1, <1>2, <1>3, <1>4, <1>5, <1>6, <1>7, <1>8, <1>9, <1>10, <1>11 DEF AdaptersInv

\* The invariant gives what the adapters promise.
LEMMA AdaptersInvHolds == AdaptersInv => AdaptersHonest
BY SmtInvHolds, LeanInvHolds, LakeInvHolds, ContoursInvHolds, ConvertInvHolds, DimensionInvHolds, NativeInvHolds, PosteriorInvHolds, PersistenceInvHolds, OptimiseInvHolds, CovarianceInvHolds
   DEF AdaptersInv, AdaptersHonest
-----------------------------------------------------------------------------
(***************************************************************************)
(* Products: the activation smokes.                                        *)
(***************************************************************************)
\* The workloads of a stage are those it has checks for.
LEMMA StagePacksAre ==
    ASSUME NEW s \in {"A12", "A13", "A14"}
    PROVE  /\ StagePacks[s] \in Seq(DOMAIN StageChecks[s])
           /\ \A p \in DOMAIN StageChecks[s] : \E i \in 1 .. Len(StagePacks[s]) : StagePacks[s][i] = p
           /\ s = "A14" => StagePacks[s][1] = "julia_sciml_ode" /\ StagePacks[s][2] = "python_diffrax_ode" /\ Len(StagePacks[s]) = 8
<1>1. CASE s = "A12"
  <2>1. StagePacks[s] = <<"pysr", "pysindy", "pydmd", "benchmark">>
    BY <1>1 DEF StagePacks, A12Packs
  <2>2. DOMAIN StageChecks[s] = {"pysr", "pysindy", "pydmd", "benchmark"}
    <3>1. StageChecks[s] = MergedChecks(A12Checks, A12Benchmark)
      BY <1>1 DEF StageChecks
    <3>2. DOMAIN A12Checks = {"pysr", "pysindy", "pydmd"} /\ DOMAIN A12Benchmark = {"benchmark"}
      BY DEF A12Checks, A12Benchmark
    <3> QED BY <3>1, <3>2 DEF MergedChecks
  <2> QED BY <1>1, <2>1, <2>2
<1>2. CASE s = "A13"
  <2>1. StagePacks[s] = <<"ripser", "pyriemann", "cvxpy", "native_bayesian_conjugate", "native_causal_backdoor">>
    BY <1>2 DEF StagePacks, A13Packs
  <2>2. DOMAIN StageChecks[s] = {"ripser", "pyriemann", "cvxpy", "native_bayesian_conjugate", "native_causal_backdoor"}
    BY <1>2 DEF StageChecks, A13Checks
  <2> QED BY <1>2, <2>1, <2>2
<1>3. CASE s = "A14"
  <2>1. StagePacks[s] = <<"julia_sciml_ode", "python_diffrax_ode", "python_qutip_quantum",
              "python_astropy_astronomy", "python_cantera_combustion", "native_battery_rc",
              "python_quimb_many_body", "python_cotengra_tensor_network">>
    BY <1>3 DEF StagePacks, A14Packs
  <2>2. DOMAIN StageChecks[s] = {"julia_sciml_ode", "python_diffrax_ode", "python_qutip_quantum",
              "python_astropy_astronomy", "python_cantera_combustion", "native_battery_rc",
              "python_quimb_many_body", "python_cotengra_tensor_network"}
    <3>1. StageChecks[s] = MergedChecks(A14OdeChecks, A14DomainChecks)
      BY <1>3 DEF StageChecks
    <3>2. DOMAIN A14OdeChecks = {"julia_sciml_ode", "python_diffrax_ode"}
      BY DEF A14OdeChecks
    <3>3. DOMAIN A14DomainChecks = {"python_qutip_quantum", "python_astropy_astronomy", "python_cantera_combustion",
              "native_battery_rc", "python_quimb_many_body", "python_cotengra_tensor_network"}
      BY DEF A14DomainChecks
    <3> QED BY <3>1, <3>2, <3>3 DEF MergedChecks
  <2> QED BY <1>3, <2>1, <2>2
<1> QED BY <1>1, <1>2, <1>3

\* The workload passes, said of the fields.
Passes(stage, broken, p) == \A c \in StageChecks[stage][p] : <<p, c>> \notin broken
InTime(terminal, p) ==
    /\ p = "julia_sciml_ode" => ~(Abs(terminal["julia"]) > OdeTolerance)
    /\ p = "python_diffrax_ode" => ~(Abs(terminal["python"]) > OdeTolerance)

SmokeFacts(stage, broken, project, terminal, ran, resolved, receipt) ==
    /\ stage \in {"A12", "A13", "A14"}
    /\ broken \subseteq StageFaults(stage) /\ project \in {"none", "half", "prepared"}
    /\ terminal["julia"] \in Int /\ terminal["python"] \in Int
    /\ resolved /\ stage = "A14" => project # "none"
    /\ ran \in Seq(DOMAIN StageChecks[stage]) /\ Len(ran) <= Len(StagePacks[stage])
    /\ \A i \in 1 .. Len(ran) : /\ ran[i] = StagePacks[stage][i]
                                /\ Passes(stage, broken, ran[i]) /\ InTime(terminal, ran[i])
    /\ receipt => /\ resolved /\ Len(ran) = Len(StagePacks[stage])
                  /\ Abs(terminal["julia"] - terminal["python"]) <= OdeTolerance
StageRecord(stage, broken, julia, project, terminal, ran, resolved, receipt, raised) ==
    [stage |-> stage, broken |-> broken, julia |-> julia, project |-> project,
     terminal |-> terminal, ran |-> ran, resolved |-> resolved, receipt |-> receipt,
     raised |-> raised]

StageInv ==
    subject = "stage" =>
        \E stage, broken, julia, project, terminal, ran, resolved, receipt, raised :
            /\ st = StageRecord(stage, broken, julia, project, terminal, ran, resolved, receipt, raised)
            /\ SmokeFacts(stage, broken, project, terminal, ran, resolved, receipt)

\* A choice of at most two members is a subset.
LEMMA AtMostTwoIs == ASSUME NEW S, NEW x \in AtMostTwo(S) PROVE x \subseteq S
BY DEF AtMostTwo

\* The initial states satisfy the stage invariant.
LEMMA StageInits == StageInit => StageInv
<1> SUFFICES ASSUME StageInit PROVE StageInv
  OBVIOUS
<1>1. PICK s \in DOMAIN StagePacks :
       \E broken \in AtMostTwo(StageFaults(s)), julia \in {"absent", "broken", "ready"},
          project \in {"none", "half", "prepared"},
          terminal \in [{"julia", "python"} -> -MaxDelta .. MaxDelta] :
           /\ s # "A14" => project = "none" /\ terminal = [l \in {"julia", "python"} |-> 0]
           /\ s = "A13" => julia = "absent"
           /\ s # "A13" /\ broken # {} => julia = "ready"
           /\ st = [stage |-> s, broken |-> broken, julia |-> julia, project |-> project,
                    terminal |-> terminal, ran |-> <<>>, resolved |-> FALSE, receipt |-> FALSE,
                    raised |-> FALSE]
  BY Zenon DEF StageInit
<1>2. PICK broken \in AtMostTwo(StageFaults(s)), julia \in {"absent", "broken", "ready"},
          project \in {"none", "half", "prepared"},
          terminal \in [{"julia", "python"} -> -MaxDelta .. MaxDelta] :
           /\ s # "A14" => project = "none" /\ terminal = [l \in {"julia", "python"} |-> 0]
           /\ s = "A13" => julia = "absent"
           /\ s # "A13" /\ broken # {} => julia = "ready"
           /\ st = [stage |-> s, broken |-> broken, julia |-> julia, project |-> project,
                    terminal |-> terminal, ran |-> <<>>, resolved |-> FALSE, receipt |-> FALSE,
                    raised |-> FALSE]
  BY <1>1, Zenon
<1>3. s \in {"A12", "A13", "A14"}
  BY DEF StagePacks
<1>4. broken \subseteq StageFaults(s)
  BY AtMostTwoIs
<1>5. terminal["julia"] \in Int /\ terminal["python"] \in Int
  BY ProductsAssumption
<1> PICK ran : ran = <<>>
  OBVIOUS
<1>6. ran \in Seq(DOMAIN StageChecks[s]) /\ Len(ran) = 0
  OBVIOUS
<1>7. Len(ran) <= Len(StagePacks[s]) /\ 1 .. Len(ran) = {}
  BY <1>3, <1>6, StagePacksAre
<1>8. SmokeFacts(s, broken, project, terminal, ran, FALSE, FALSE)
  BY <1>3, <1>4, <1>5, <1>6, <1>7 DEF SmokeFacts
<1>9. st = StageRecord(s, broken, julia, project, terminal, ran, FALSE, FALSE, FALSE)
  BY <1>2, Zenon DEF StageRecord
<1> QED BY <1>8, <1>9, Zenon DEF StageInv

\* Every step of such a call keeps the stage invariant.
LEMMA StageSteps ==
    ASSUME StageInv, ResolveRuntime \/ RunWorkload \/ ValidateStage PROVE StageInv'
<1>0. subject = "stage" /\ subject' = "stage" /\ ~st.receipt
  <2>1. StageUnderWay
    BY Zenon DEF ResolveRuntime, RunWorkload, ValidateStage
  <2>2. subject' = "stage"
    BY Zenon DEF ResolveRuntime, RunWorkload, ValidateStage, StageRaise, Step
  <2> QED BY <2>1, <2>2, Zenon DEF StageUnderWay
<1>1. PICK s, b, j, p, t, r, d, c, x : /\ st = StageRecord(s, b, j, p, t, r, d, c, x)
                                       /\ SmokeFacts(s, b, p, t, r, d, c)
  BY <1>0, Zenon DEF StageInv
<1>2. st.stage = s /\ st.broken = b /\ st.project = p /\ st.terminal = t /\ st.ran = r /\ st.resolved = d /\ st.receipt = c
  BY <1>1 DEF StageRecord
<1>3. ~c
  BY <1>0, <1>2, Zenon
<1>4. CASE st' = [st EXCEPT !.raised = TRUE]
  <2>1. st' = StageRecord(s, b, j, p, t, r, d, c, TRUE)
    BY <1>1, <1>4 DEF StageRecord
  <2> QED BY <1>1, <2>1, Zenon DEF StageInv
<1>5. CASE ResolveRuntime
  <2>1. CASE st' = [st EXCEPT !.resolved = TRUE] /\ ~(st.stage = "A14" /\ st.project = "none")
    <3>1. st' = StageRecord(s, b, j, p, t, r, TRUE, c, x)
      BY <1>1, <2>1 DEF StageRecord
    <3>2. SmokeFacts(s, b, p, t, r, TRUE, c)
      BY <1>1, <1>2, <1>3, <2>1, Zenon DEF SmokeFacts
    <3> QED BY <3>1, <3>2, Zenon DEF StageInv
  <2> QED BY <1>4, <1>5, <2>1, Zenon DEF ResolveRuntime, StageRaise, Step
<1>6. CASE RunWorkload
  <2>1. Len(r) < Len(StagePacks[s])
    BY <1>2, <1>6, Zenon DEF RunWorkload
  <2> PICK q : q = StagePacks[s][Len(r) + 1]
    OBVIOUS
  <2>2. CASE WorkloadPasses(q) /\ ~TerminalOff(q) /\ st' = [st EXCEPT !.ran = Append(st.ran, q)]
    <3>0. s \in {"A12", "A13", "A14"}
      BY <1>1, Zenon DEF SmokeFacts
    <3>1. r \in Seq(DOMAIN StageChecks[s]) /\ \A i \in 1 .. Len(r) :
            /\ r[i] = StagePacks[s][i] /\ Passes(s, b, r[i]) /\ InTime(t, r[i])
      BY <1>1, Zenon DEF SmokeFacts
    <3>2. Passes(s, b, q)
      BY <1>2, <2>2, <3>0, Zenon
         DEF WorkloadPasses, A12WorkloadPasses, A13WorkloadPasses, A14WorkloadPasses, Passes
    <3>3. InTime(t, q)
      BY <1>2, <2>2, Zenon DEF TerminalOff, InTime
    <3>4. StagePacks[s] \in Seq(DOMAIN StageChecks[s])
      BY <3>0, StagePacksAre
    <3>5. q \in DOMAIN StageChecks[s]
      <4>1. Len(r) + 1 \in 1 .. Len(StagePacks[s])
        BY <2>1, <3>1, <3>4
      <4> QED BY <3>4, <4>1
    <3> PICK r2 : r2 = Append(r, q)
      OBVIOUS
    <3>6. r2 \in Seq(DOMAIN StageChecks[s]) /\ Len(r2) = Len(r) + 1 /\ r2[Len(r) + 1] = q
          /\ \A i \in 1 .. Len(r) : r2[i] = r[i]
      <4>1. ASSUME NEW D, r \in Seq(D), q \in D
            PROVE  /\ Append(r, q) \in Seq(D) /\ Len(Append(r, q)) = Len(r) + 1 /\ Append(r, q)[Len(r) + 1] = q
                   /\ \A i \in 1 .. Len(r) : Append(r, q)[i] = r[i]
        BY <4>1
      <4> QED BY <3>1, <3>5, <4>1, Zenon
    <3>7. Len(r2) <= Len(StagePacks[s])
      BY <2>1, <3>1, <3>4, <3>6
    <3>8. ASSUME NEW i \in 1 .. Len(r2) PROVE r2[i] = StagePacks[s][i] /\ Passes(s, b, r2[i]) /\ InTime(t, r2[i])
      <4>1. i \in 1 .. Len(r) \/ i = Len(r) + 1
        BY <3>1, <3>6
      <4>2. CASE i \in 1 .. Len(r)
        BY <3>1, <3>6, <4>2
      <4>3. CASE i = Len(r) + 1
        BY <3>2, <3>3, <3>6, <4>3
      <4> QED BY <4>1, <4>2, <4>3
    <3>9. SmokeFacts(s, b, p, t, r2, d, c)
      BY <1>1, <1>3, <3>6, <3>7, <3>8, Zenon DEF SmokeFacts
    <3>10. st' = [st EXCEPT !.ran = r2]
      BY <1>2, <2>2, Zenon
    <3>11. st' = StageRecord(s, b, j, p, t, r2, d, c, x)
      <4>1. ASSUME NEW y, st' = [st EXCEPT !.ran = y] PROVE st' = StageRecord(s, b, j, p, t, y, d, c, x)
        BY <1>1, <4>1 DEF StageRecord
      <4> QED BY <3>10, <4>1, Zenon
    <3> QED BY <3>9, <3>11, Zenon DEF StageInv
  <2> QED BY <1>2, <1>4, <1>6, <2>2, Zenon DEF RunWorkload, StageRaise, Step
<1>7. CASE ValidateStage
  <2>1. CASE CrossLanguageAgrees /\ st' = [st EXCEPT !.receipt = TRUE]
    <3>1. st' = StageRecord(s, b, j, p, t, r, d, TRUE, x)
      BY <1>1, <2>1 DEF StageRecord
    <3>2. d /\ Len(r) = Len(StagePacks[s])
      BY <1>2, <1>7, Zenon DEF ValidateStage
    <3>3. Abs(t["julia"] - t["python"]) <= OdeTolerance
      BY <1>2, <2>1, Zenon DEF CrossLanguageAgrees
    <3>4. SmokeFacts(s, b, p, t, r, d, TRUE)
      BY <1>1, <3>2, <3>3, Zenon DEF SmokeFacts
    <3> QED BY <3>1, <3>4, Zenon DEF StageInv
  <2> QED BY <1>4, <1>7, <2>1, Zenon DEF ValidateStage, StageRaise, Step
<1> QED BY <1>5, <1>6, <1>7

\* The stage invariant gives the property its calls are checked for.
LEMMA StageInvHolds == StageInv => StageReceiptIsEarned
<1> SUFFICES ASSUME StageInv, subject = "stage", st.receipt
             PROVE  /\ st.broken = {} /\ st.ran = StagePacks[st.stage]
                    /\ st.stage = "A14" =>
                           /\ Abs(st.terminal["julia"] - st.terminal["python"]) <= OdeTolerance
                           /\ \A l \in {"julia", "python"} : Abs(st.terminal[l]) <= OdeTolerance
                           /\ st.project # "none"
  BY Zenon DEF StageReceiptIsEarned
<1>1. PICK s, b, j, p, t, r, d, c, x : /\ st = StageRecord(s, b, j, p, t, r, d, c, x)
                                       /\ SmokeFacts(s, b, p, t, r, d, c)
  BY Zenon DEF StageInv
<1>2. st.stage = s /\ st.broken = b /\ st.project = p /\ st.terminal = t /\ st.ran = r /\ st.resolved = d /\ st.receipt = c
  BY <1>1 DEF StageRecord
<1>3. c
  BY <1>2, Zenon
<1>4. d /\ Len(r) = Len(StagePacks[s]) /\ Abs(t["julia"] - t["python"]) <= OdeTolerance
  BY <1>1, <1>3, Zenon DEF SmokeFacts
<1>5. /\ s \in {"A12", "A13", "A14"} /\ b \subseteq StageFaults(s) /\ p \in {"none", "half", "prepared"}
      /\ r \in Seq(DOMAIN StageChecks[s])
      /\ \A i \in 1 .. Len(r) : r[i] = StagePacks[s][i] /\ Passes(s, b, r[i]) /\ InTime(t, r[i])
  BY <1>1, Zenon DEF SmokeFacts
<1>6. s = "A14" => p # "none"
  BY <1>1, <1>4, Zenon DEF SmokeFacts
<1>7. /\ StagePacks[s] \in Seq(DOMAIN StageChecks[s])
      /\ \A q \in DOMAIN StageChecks[s] : \E i \in 1 .. Len(StagePacks[s]) : StagePacks[s][i] = q
      /\ s = "A14" => StagePacks[s][1] = "julia_sciml_ode" /\ StagePacks[s][2] = "python_diffrax_ode" /\ Len(StagePacks[s]) = 8
  BY <1>5, StagePacksAre
<1>8. b = {}
  <2> SUFFICES ASSUME NEW f \in b PROVE FALSE
    OBVIOUS
  <2>1. PICK q \in DOMAIN StageChecks[s] : f \in {<<q, k>> : k \in StageChecks[s][q]}
    BY <1>5 DEF StageFaults
  <2>2. PICK k \in StageChecks[s][q] : f = <<q, k>>
    BY <2>1
  <2>3. PICK i \in 1 .. Len(StagePacks[s]) : StagePacks[s][i] = q
    BY <1>7
  <2>4. Passes(s, b, q)
    BY <1>4, <1>5, <2>3
  <2> QED BY <2>2, <2>4, Zenon DEF Passes
<1>9. r = StagePacks[s]
  <2>1. ASSUME NEW D, NEW u \in Seq(D), NEW v \in Seq(D), Len(u) = Len(v), \A i \in 1 .. Len(u) : u[i] = v[i] PROVE u = v
    BY <2>1
  <2> QED BY <1>4, <1>5, <1>7, <2>1, Zenon
<1>10. ASSUME s = "A14" PROVE (\A l \in {"julia", "python"} : Abs(t[l]) <= OdeTolerance) /\ p # "none"
  <2>1. InTime(t, "julia_sciml_ode") /\ InTime(t, "python_diffrax_ode")
    <3>1. 1 \in 1 .. Len(r) /\ 2 \in 1 .. Len(r)
      BY <1>4, <1>7, <1>10
    <3> QED BY <1>5, <1>7, <1>10, <3>1
  <2>2. ~(Abs(t["julia"]) > OdeTolerance) /\ ~(Abs(t["python"]) > OdeTolerance)
    BY <2>1, Zenon DEF InTime
  <2>3. t["julia"] \in Int /\ t["python"] \in Int
    BY <1>1, Zenon DEF SmokeFacts
  <2>4. Abs(t["julia"]) \in Int /\ Abs(t["python"]) \in Int /\ OdeTolerance \in Int
    BY <2>3, ProductsAssumption DEF Abs
  <2>5. Abs(t["julia"]) <= OdeTolerance /\ Abs(t["python"]) <= OdeTolerance
    BY <2>2, <2>4
  <2> QED BY <1>5, <1>6, <1>10, <2>2, <2>5
<1> QED BY <1>2, <1>4, <1>8, <1>9, <1>10, Zenon
-----------------------------------------------------------------------------
(***************************************************************************)
(* Products: the A16 receipts.                                             *)
(***************************************************************************)
\* A list of check entries, and one of pack receipts, whatever their ids.
ChecksShaped(c, n) ==
    n \in Nat /\ DOMAIN c = 1 .. n /\ \A i \in 1 .. n : c[i] = [id |-> c[i].id, status |-> c[i].status]
PacksShaped(p, n) ==
    /\ n \in Nat /\ DOMAIN p = 1 .. n
    /\ \A i \in 1 .. n : /\ p[i] = [id |-> p[i].id, bounded |-> p[i].bounded, negative |-> p[i].negative]
                         /\ p[i].bounded \in BOOLEAN /\ p[i].negative \in BOOLEAN
ReceiptShaped(s, r) ==
    /\ \E n : ChecksShaped(r.checks, n)
    /\ \E n : PacksShaped(r.packs, n)
    /\ s \notin {"A09", "A10"} => r.checked
    /\ s # "A13" => r.identified
    /\ s # "A11" => r.sources >= 2

\* Which stages a kind of oddity can befall.
LEMMA OddityIs ==
    ASSUME NEW s, NEW x \in Oddities(s)
    PROVE  /\ x[1] = s
           /\ x[2] = "pack" => RequiredPacks(s) # <<>>
           /\ x[2] = "proof" => s \in {"A09", "A10"}
           /\ x[2] = "effect" => s = "A13"
           /\ x[2] = "sources" => s = "A11"
<1>1. CASE x \in {<<s, "head", o>> : o \in HeadOddities} \cup {<<s, "check", o>> : o \in CheckOddities}
  BY <1>1
<1>2. CASE x \in {<<s, "pack", o>> : o \in PackOddities} /\ RequiredPacks(s) # <<>>
  BY <1>2
<1>3. CASE x \in (CASE s \in {"A09", "A10"} -> {<<s, "proof", "unchecked">>, <<s, "claim", "equivalence">>}
                    [] s = "A11" -> {<<s, "sources", "one">>}
                    [] s = "A13" -> {<<s, "effect", "unidentified">>}
                    [] OTHER -> {})
  BY <1>3
<1>4. x \in (IF RequiredPacks(s) = <<>> THEN {} ELSE {<<s, "pack", o>> : o \in PackOddities}) =>
        x \in {<<s, "pack", o>> : o \in PackOddities} /\ RequiredPacks(s) # <<>>
  BY Zenon
<1> QED BY <1>1, <1>2, <1>3, <1>4, Zenon DEF Oddities

OddSet(odd) == odd \subseteq UNION {Oddities(s) : s \in A16Stages}

\* The same, of the oddities of a run.
LEMMA OddSetIs ==
    ASSUME NEW odd, OddSet(odd), NEW s, NEW k, NEW o, <<s, k, o>> \in odd
    PROVE  /\ k = "pack" => RequiredPacks(s) # <<>>
           /\ k = "proof" => s \in {"A09", "A10"}
           /\ k = "effect" => s = "A13"
           /\ k = "sources" => s = "A11"
<1> PICK x : x = <<s, k, o>>
  OBVIOUS
<1>1. x[1] = s /\ x[2] = k
  OBVIOUS
<1>2. x \in odd
  BY Zenon
<1>3. PICK t \in A16Stages : x \in Oddities(t)
  BY <1>2 DEF OddSet
<1> QED BY <1>1, <1>3, OddityIs

\* The shape of a receipt's checks under any oddities.
LEMMA OddChecksShaped ==
    ASSUME NEW s \in A16Stages, NEW odd PROVE \E n : ChecksShaped(OddChecks(s, odd), n)
<1>1. PICK m : m \in Nat \ {0} /\ DOMAIN RequiredChecks[s] = 1 .. m
  <2>1. s \in {"A09", "A10", "A11", "A12", "A13", "A14"}
    BY DEF A16Stages, RequiredChecks
  <2>2. CASE s = "A09"
    <3>1. DOMAIN RequiredChecks[s] = 1 .. 2
      BY <2>2 DEF RequiredChecks
    <3> QED BY <3>1
  <2>3. CASE s = "A10"
    <3>1. DOMAIN RequiredChecks[s] = 1 .. 4
      BY <2>3 DEF RequiredChecks
    <3> QED BY <3>1
  <2>4. CASE s = "A11"
    <3>1. DOMAIN RequiredChecks[s] = 1 .. 2
      BY <2>4 DEF RequiredChecks
    <3> QED BY <3>1
  <2>5. CASE s \in {"A12", "A13", "A14"}
    <3>1. DOMAIN RequiredChecks[s] = 1 .. 1
      BY <2>5 DEF RequiredChecks
    <3> QED BY <3>1
  <2> QED BY <2>1, <2>2, <2>3, <2>4, <2>5
<1> PICK good : good = [i \in DOMAIN RequiredChecks[s] |-> [id |-> RequiredChecks[s][i], status |-> "PASS"]]
  OBVIOUS
<1>2. DOMAIN good = 1 .. m /\ \A i \in 1 .. m : good[i] = [id |-> good[i].id, status |-> good[i].status]
  BY <1>1
<1>3. Len(good) = m /\ 1 \in 1 .. m /\ m - 1 \in Nat /\ m + 1 \in Nat
  BY <1>1, <1>2
<1>4. ChecksShaped([good EXCEPT ![1].status = "FAIL"], m)
  BY <1>1, <1>2, <1>3 DEF ChecksShaped
<1>5. ChecksShaped(Tail(good), m - 1)
  <2>1. good \in Seq({good[i] : i \in 1 .. m})
    BY <1>1, <1>2
  <2>2. DOMAIN Tail(good) = 1 .. m - 1 /\ \A i \in 1 .. m - 1 : Tail(good)[i] = good[i + 1] /\ i + 1 \in 1 .. m
    BY <1>1, <1>3, <2>1
  <2> QED BY <1>2, <1>3, <2>2 DEF ChecksShaped
<1>6. ASSUME NEW x, x = [id |-> x.id, status |-> x.status] PROVE ChecksShaped(Append(good, x), m + 1)
  <2>1. good \in Seq({good[i] : i \in 1 .. m})
    BY <1>1, <1>2
  <2>2. DOMAIN Append(good, x) = 1 .. m + 1 /\ Append(good, x)[m + 1] = x /\ \A i \in 1 .. m : Append(good, x)[i] = good[i]
    BY <1>1, <1>3, <2>1
  <2>3. ASSUME NEW i \in 1 .. m + 1
        PROVE  Append(good, x)[i] = [id |-> Append(good, x)[i].id, status |-> Append(good, x)[i].status]
    <3>1. i \in 1 .. m \/ i = m + 1
      BY <1>1
    <3> QED BY <1>2, <1>6, <2>2, <3>1
  <2> QED BY <1>3, <2>2, <2>3 DEF ChecksShaped
<1>7. ChecksShaped(good, m)
  BY <1>1, <1>2 DEF ChecksShaped
<1>8. ChecksShaped(Append(good, [good[1] EXCEPT !.status = "FAIL"]), m + 1)
  <2> PICK x : x = [good[1] EXCEPT !.status = "FAIL"]
    OBVIOUS
  <2>1. x = [id |-> x.id, status |-> x.status]
    BY <1>2, <1>3
  <2> QED BY <1>6, <2>1, Zenon
<1> QED BY <1>4, <1>5, <1>7, <1>8, Zenon DEF OddChecks

\* The packs a stage requires form a list.
LEMMA PacksOf ==
    ASSUME NEW s PROVE \E m \in Nat : DOMAIN RequiredPacks(s) = 1 .. m /\ (RequiredPacks(s) # <<>> => m # 0)
<1>1. CASE s = "A12"
  <2>1. RequiredPacks(s) = SubSeq(A12Packs, 1, 3)
    BY <1>1 DEF RequiredPacks
  <2>2. DOMAIN RequiredPacks(s) = 1 .. 3
    BY <2>1 DEF A12Packs
  <2> QED BY <2>2
<1>2. CASE s = "A13"
  <2>1. RequiredPacks(s) = A13Packs
    BY <1>2 DEF RequiredPacks, StagePacks
  <2>2. DOMAIN RequiredPacks(s) = 1 .. 5
    BY <2>1 DEF A13Packs
  <2> QED BY <2>2
<1>3. CASE s = "A14"
  <2>1. RequiredPacks(s) = A14Packs
    BY <1>3 DEF RequiredPacks, StagePacks
  <2>2. DOMAIN RequiredPacks(s) = 1 .. 8
    BY <2>1 DEF A14Packs
  <2>3. 8 \in Nat /\ 8 # 0
    OBVIOUS
  <2> QED BY <2>2, <2>3, Zenon
<1>4. CASE s \notin {"A12", "A13", "A14"}
  <2>1. RequiredPacks(s) = <<>>
    BY <1>4 DEF RequiredPacks, StagePacks
  <2>2. DOMAIN RequiredPacks(s) = 1 .. 0
    BY <2>1
  <2> QED BY <2>1, <2>2
<1> QED BY <1>1, <1>2, <1>3, <1>4

\* The shape of a receipt's packs under any oddities.
LEMMA OddPacksShaped ==
    ASSUME NEW s, NEW odd, OddSet(odd) PROVE \E n : PacksShaped(OddPacks(s, odd), n)
<1>1. PICK m \in Nat : DOMAIN RequiredPacks(s) = 1 .. m /\ (RequiredPacks(s) # <<>> => m # 0)
  BY PacksOf
<1> PICK good : good = [i \in DOMAIN RequiredPacks(s) |-> PackEntry(RequiredPacks(s)[i])]
  OBVIOUS
<1>2. PacksShaped(good, m)
  BY <1>1 DEF PacksShaped, PackEntry
<1>3. DOMAIN good = 1 .. m /\ \A i \in 1 .. m :
        /\ good[i] = [id |-> good[i].id, bounded |-> good[i].bounded, negative |-> good[i].negative]
        /\ good[i].bounded \in BOOLEAN /\ good[i].negative \in BOOLEAN
  BY <1>2, Zenon DEF PacksShaped
<1>4. m # 0 => PacksShaped([good EXCEPT ![1].bounded = FALSE], m) /\ PacksShaped([good EXCEPT ![1].negative = FALSE], m)
  <2> SUFFICES ASSUME m # 0
               PROVE  PacksShaped([good EXCEPT ![1].bounded = FALSE], m) /\ PacksShaped([good EXCEPT ![1].negative = FALSE], m)
    OBVIOUS
  <2>1. 1 \in 1 .. m
    OBVIOUS
  <2>2. ASSUME NEW x, x = [good[1] EXCEPT !.bounded = FALSE] \/ x = [good[1] EXCEPT !.negative = FALSE]
        PROVE  PacksShaped([good EXCEPT ![1] = x], m)
    <3>1. good[1] = [id |-> good[1].id, bounded |-> good[1].bounded, negative |-> good[1].negative]
      BY <1>3, <2>1
    <3>2. good[1].bounded \in BOOLEAN /\ good[1].negative \in BOOLEAN
      BY <1>3, <2>1
    <3>3. x = [id |-> x.id, bounded |-> x.bounded, negative |-> x.negative]
      BY <2>2, <3>1
    <3>4. (x.bounded = good[1].bounded \/ x.bounded = FALSE) /\ (x.negative = good[1].negative \/ x.negative = FALSE)
      BY <2>2, <3>1
    <3>5. x.bounded \in BOOLEAN /\ x.negative \in BOOLEAN
      BY <3>2, <3>4, Zenon
    <3> PICK g : g = [good EXCEPT ![1] = x]
      OBVIOUS
    <3>6. DOMAIN g = 1 .. m /\ g[1] = x /\ \A i \in 1 .. m : i # 1 => g[i] = good[i]
      BY <1>3, <2>1
    <3>7. ASSUME NEW i \in 1 .. m
          PROVE  /\ g[i] = [id |-> g[i].id, bounded |-> g[i].bounded, negative |-> g[i].negative]
                 /\ g[i].bounded \in BOOLEAN /\ g[i].negative \in BOOLEAN
      <4>1. CASE i = 1
        BY <3>3, <3>5, <3>6, <4>1, Zenon
      <4>2. CASE i # 1
        BY <1>3, <3>6, <4>2, Zenon
      <4> QED BY <4>1, <4>2
    <3>8. PacksShaped(g, m)
      BY <3>6, <3>7, Zenon DEF PacksShaped
    <3> QED BY <3>8, Zenon
  <2>3. PacksShaped([good EXCEPT ![1].bounded = FALSE], m)
    <3>1. [good EXCEPT ![1].bounded = FALSE] = [good EXCEPT ![1] = [good[1] EXCEPT !.bounded = FALSE]]
      BY <1>3, <2>1
    <3> QED BY <2>2, <3>1, Zenon
  <2>4. PacksShaped([good EXCEPT ![1].negative = FALSE], m)
    <3>1. [good EXCEPT ![1].negative = FALSE] = [good EXCEPT ![1] = [good[1] EXCEPT !.negative = FALSE]]
      BY <1>3, <2>1
    <3> QED BY <2>2, <3>1, Zenon
  <2> QED BY <2>3, <2>4
<1>5. good \in Seq({good[i] : i \in 1 .. m}) /\ Len(good) = m
  BY <1>1, <1>3
<1>6. ASSUME m # 0 PROVE PacksShaped(Tail(good), m - 1)
  <2>1. DOMAIN Tail(good) = 1 .. m - 1 /\ \A i \in 1 .. m - 1 : Tail(good)[i] = good[i + 1] /\ i + 1 \in 1 .. m
    BY <1>1, <1>5, <1>6
  <2>2. m - 1 \in Nat
    BY <1>6
  <2> QED BY <1>3, <2>1, <2>2 DEF PacksShaped
<1>7. ASSUME m # 0 PROVE PacksShaped(Append(Tail(good), Head(good)), m)
  <2> PICK t : t = Tail(good)
    OBVIOUS
  <2> PICK x : x = Head(good)
    OBVIOUS
  <2>1. PacksShaped(t, m - 1) /\ m - 1 \in Nat
    BY <1>6, <1>7
  <2>2. x = good[1] /\ 1 \in 1 .. m
    BY <1>5, <1>7
  <2>3. t \in Seq({good[i] : i \in 1 .. m}) /\ Len(t) = m - 1
    BY <1>5, <1>7
  <2>4. /\ DOMAIN Append(t, x) = 1 .. m /\ Append(t, x)[m] = x /\ \A i \in 1 .. m - 1 : Append(t, x)[i] = t[i]
    BY <1>7, <2>1, <2>3
  <2>5. ASSUME NEW i \in 1 .. m
        PROVE  /\ Append(t, x)[i] = [id |-> Append(t, x)[i].id, bounded |-> Append(t, x)[i].bounded, negative |-> Append(t, x)[i].negative]
               /\ Append(t, x)[i].bounded \in BOOLEAN /\ Append(t, x)[i].negative \in BOOLEAN
    <3>1. CASE i \in 1 .. m - 1
      BY <2>1, <2>4, <3>1 DEF PacksShaped
    <3>2. CASE i = m
      BY <1>3, <2>2, <2>4, <3>2
    <3>3. i \in 1 .. m - 1 \/ i = m
      BY <1>1
    <3> QED BY <3>1, <3>2, <3>3
  <2>6. PacksShaped(Append(t, x), m)
    BY <2>4, <2>5, Zenon DEF PacksShaped
  <2> QED BY <2>6, Zenon
<1>8. ASSUME m # 0 PROVE PacksShaped(<<[good[1] EXCEPT !.bounded = FALSE]>> \o good, m + 1)
  <2> PICK x : x = [good[1] EXCEPT !.bounded = FALSE]
    OBVIOUS
  <2>1. x = [id |-> x.id, bounded |-> x.bounded, negative |-> x.negative] /\ x.bounded \in BOOLEAN /\ x.negative \in BOOLEAN
    <3>1. 1 \in 1 .. m
      BY <1>8
    <3>2. good[1] = [id |-> good[1].id, bounded |-> good[1].bounded, negative |-> good[1].negative]
      BY <1>3, <3>1
    <3>3. good[1].negative \in BOOLEAN
      BY <1>3, <3>1
    <3>4. x = [id |-> x.id, bounded |-> x.bounded, negative |-> x.negative] /\ x.bounded = FALSE /\ x.negative = good[1].negative
      BY <3>2
    <3> QED BY <3>3, <3>4, Zenon
  <2> PICK c : c = <<x>> \o good
    OBVIOUS
  <2>2. DOMAIN c = 1 .. m + 1 /\ c[1] = x /\ \A i \in 2 .. m + 1 : c[i] = good[i - 1]
    <3>1. <<x>> \in Seq({x}) /\ Len(<<x>>) = 1 /\ <<x>>[1] = x
      OBVIOUS
    <3> QED BY <1>5, <3>1
  <2>3. ASSUME NEW i \in 1 .. m + 1
        PROVE  /\ c[i] = [id |-> c[i].id, bounded |-> c[i].bounded, negative |-> c[i].negative]
               /\ c[i].bounded \in BOOLEAN /\ c[i].negative \in BOOLEAN
    <3>1. CASE i = 1
      BY <2>1, <2>2, <3>1
    <3>2. CASE i # 1
      <4>1. i \in 2 .. m + 1 /\ i - 1 \in 1 .. m
        BY <3>2
      <4> QED BY <1>3, <2>2, <4>1
    <3> QED BY <3>1, <3>2
  <2>4. m + 1 \in Nat
    OBVIOUS
  <2>5. PacksShaped(c, m + 1)
    BY <2>2, <2>3, <2>4, Zenon DEF PacksShaped
  <2> QED BY <2>5, Zenon
<1>9. \A o : <<s, "pack", o>> \in odd => m # 0
  BY <1>1, OddSetIs
<1> QED BY <1>2, <1>4, <1>6, <1>7, <1>8, <1>9, Zenon DEF OddPacks

\* The shape of a stage's receipt.
LEMMA StageReceiptShaped ==
    ASSUME NEW s \in A16Stages, NEW odd, OddSet(odd) PROVE ReceiptShaped(s, StageReceipt(s, odd))
<1> PICK r : r = StageReceipt(s, odd)
  OBVIOUS
<1>1. r.checks = OddChecks(s, odd) /\ r.packs = OddPacks(s, odd)
  BY Zenon DEF StageReceipt
<1>2. (<<s, "proof", "unchecked">> \notin odd => r.checked) /\ (<<s, "effect", "unidentified">> \notin odd => r.identified)
  BY Zenon DEF StageReceipt
<1>3. r.sources = IF <<s, "sources", "one">> \in odd THEN 1 ELSE 2
  BY Zenon DEF StageReceipt
<1>4. (<<s, "proof", "unchecked">> \in odd => s \in {"A09", "A10"}) /\ (<<s, "effect", "unidentified">> \in odd => s = "A13")
      /\ (<<s, "sources", "one">> \in odd => s = "A11")
  <2>1. <<s, "proof", "unchecked">> \in odd => s \in {"A09", "A10"}
    BY OddSetIs, Zenon
  <2>2. <<s, "effect", "unidentified">> \in odd => s = "A13"
    BY OddSetIs, Zenon
  <2>3. <<s, "sources", "one">> \in odd => s = "A11"
    BY OddSetIs, Zenon
  <2> QED BY <2>1, <2>2, <2>3
<1>5. s # "A11" => r.sources >= 2
  BY <1>3, <1>4
<1>6. (\E n : ChecksShaped(r.checks, n)) /\ \E n : PacksShaped(r.packs, n)
  BY <1>1, OddChecksShaped, OddPacksShaped, Zenon
<1> QED BY <1>2, <1>4, <1>5, <1>6, Zenon DEF ReceiptShaped

\* A check that passed, and a pack receipt that is sound, are there.
CheckIn(r, id) == \E j \in DOMAIN r.checks : r.checks[j] = [id |-> id, status |-> "PASS"]
PackIn(r, id) == \E j \in DOMAIN r.packs : r.packs[j] = PackEntry(id)
ChecksIn(receipts, s) == \A i \in DOMAIN RequiredChecks[s] : CheckIn(receipts[s], RequiredChecks[s][i])

\* What the stage receipts are known to hold once the product is built.
Yields(receipts, k) ==
    /\ k = 1 => /\ ChecksIn(receipts, "A12")
                /\ \A i \in DOMAIN RequiredPacks("A12") : PackIn(receipts["A12"], RequiredPacks("A12")[i])
    /\ k = 2 => /\ ChecksIn(receipts, "A09") /\ ChecksIn(receipts, "A10")
                /\ receipts["A09"].checked /\ receipts["A10"].checked /\ ~receipts["A10"].claims
    /\ k = 3 => /\ ChecksIn(receipts, "A13") /\ ChecksIn(receipts, "A14")
                /\ \A i \in 1 .. 3 : PackIn(receipts["A13"], A13Packs[i])
                /\ \A i \in 1 .. 8 : PackIn(receipts["A14"], A14Packs[i])
    /\ k = 4 => /\ \A i \in 3 .. 5 : PackIn(receipts["A13"], A13Packs[i])
                /\ receipts["A13"].identified
    /\ k = 5 => ChecksIn(receipts, "A11") /\ receipts["A11"].sources >= 2

\* A check found to pass is in the receipt and passed.
LEMMA PassedIsThere ==
    ASSUME NEW s, NEW n, ChecksShaped(st.receipts[s].checks, n), NEW id, StageCheckPasses(s, id)
    PROVE  CheckIn(st.receipts[s], id)
<1> PICK c : c = st.receipts[s].checks
  OBVIOUS
<1> DEFINE at == {i \in DOMAIN c : c[i].id = id}
<1>1. at # {} /\ c[CHOOSE i \in at : \A j \in at : i <= j].status = "PASS"
  BY Zenon DEF StageCheckPasses
<1>2. n \in Nat /\ DOMAIN c = 1 .. n /\ \A i \in 1 .. n : c[i] = [id |-> c[i].id, status |-> c[i].status]
  BY Zenon DEF ChecksShaped
<1>3. at \in SUBSET Nat
  BY <1>2
<1>4. \E i \in at : \A j \in at : i <= j
  <2> HIDE DEF at
  <2> QED BY <1>1, <1>3, LeastOfNat
<1>5. PICK i \in at : c[i].status = "PASS"
  <2> HIDE DEF at
  <2> QED BY <1>1, <1>4, Zenon
<1>6. i \in DOMAIN c /\ c[i].id = id /\ i \in 1 .. n
  BY <1>2
<1>7. c[i] = [id |-> id, status |-> "PASS"]
  BY <1>2, <1>5, <1>6
<1> QED BY <1>6, <1>7, Zenon DEF CheckIn

\* A set of positions has a last one.
LEMMA GreatestUpTo ==
    ASSUME NEW n \in Nat, NEW S \in SUBSET (1 .. n), S # {} PROVE \E i \in S : \A j \in S : i >= j
<1> DEFINE T == {n - i : i \in S}
<1>0. \A i \in S : n - i \in Nat
  OBVIOUS
<1>1. T \in SUBSET Nat /\ T # {}
  BY <1>0
<1>2. PICK t \in T : \A u \in T : t <= u
  <2> HIDE DEF T
  <2> QED BY <1>1, LeastOfNat
<1>3. PICK i \in S : t = n - i
  OBVIOUS
<1>4. ASSUME NEW j \in S PROVE i >= j
  <2>1. n - j \in T
    OBVIOUS
  <2>2. n - i <= n - j /\ i \in Int /\ j \in Int
    BY <1>2, <1>3, <2>1
  <2> QED BY <2>2
<1> QED BY <1>4

\* A pack entry that holds is the entry of a sound pack.
LEMMA HoldingIsEntry ==
    ASSUME NEW e, e = [id |-> e.id, bounded |-> e.bounded, negative |-> e.negative],
           e.bounded \in BOOLEAN, e.negative \in BOOLEAN, PackHolds(e)
    PROVE  e = PackEntry(e.id)
<1>1. e.bounded = TRUE /\ e.negative = TRUE
  BY Zenon DEF PackHolds
<1>2. ASSUME NEW a, NEW b, NEW c, e = [id |-> a, bounded |-> b, negative |-> c], b = TRUE, c = TRUE
      PROVE  e = [id |-> a, bounded |-> TRUE, negative |-> TRUE]
  BY <1>2
<1>3. e = [id |-> e.id, bounded |-> TRUE, negative |-> TRUE]
  BY <1>1, <1>2, Zenon
<1> QED BY <1>3, Zenon DEF PackEntry

\* A pack selected is in the receipt and sound.
LEMMA SelectedIsThere ==
    ASSUME NEW s, NEW n, PacksShaped(st.receipts[s].packs, n), NEW id,
           Select(s, id) # {}, \A e \in Select(s, id) : PackHolds(e)
    PROVE  PackIn(st.receipts[s], id)
<1> PICK p : p = st.receipts[s].packs
  OBVIOUS
<1> DEFINE at == {i \in DOMAIN p : p[i].id = id}
<1>1. Select(s, id) = IF at = {} THEN {} ELSE {p[CHOOSE i \in at : \A j \in at : i >= j]}
  BY Zenon DEF Select
<1>2. n \in Nat /\ DOMAIN p = 1 .. n /\ \A i \in 1 .. n :
        /\ p[i] = [id |-> p[i].id, bounded |-> p[i].bounded, negative |-> p[i].negative]
        /\ p[i].bounded \in BOOLEAN /\ p[i].negative \in BOOLEAN
  BY Zenon DEF PacksShaped
<1>3. at # {}
  BY <1>1, Zenon
<1>4. at \in SUBSET (1 .. n)
  BY <1>2
<1>5. \E i \in at : \A j \in at : i >= j
  <2> HIDE DEF at
  <2> QED BY <1>2, <1>3, <1>4, GreatestUpTo
<1>6. PICK i \in at : PackHolds(p[i])
  <2> HIDE DEF at
  <2>1. PICK i \in at : Select(s, id) = {p[i]}
    BY <1>1, <1>3, <1>5, Zenon
  <2> QED BY <2>1
<1>7. i \in DOMAIN p /\ p[i].id = id /\ i \in 1 .. n
  BY <1>2
<1>8. p[i] = PackEntry(id)
  BY <1>2, <1>6, <1>7, HoldingIsEntry, Zenon
<1> QED BY <1>7, <1>8, Zenon DEF PackIn

\* So is every pack of a selection.
LEMMA SelectionIsThere ==
    ASSUME NEW s, NEW n, PacksShaped(st.receipts[s].packs, n), NEW ids, Selected16(s, ids)
    PROVE  \A i \in DOMAIN ids : PackIn(st.receipts[s], ids[i])
BY SelectedIsThere, Zenon DEF Selected16

\* A product that holds has in its receipts what it claims.
LEMMA ProductYields ==
    ASSUME NEW receipts, st.receipts = receipts, \A s \in A16Stages : ReceiptShaped(s, receipts[s]),
           NEW k \in 1 .. 5, ProductHolds(A16Products[k])
    PROVE  Yields(receipts, k)
<1>0. A16Stages = {"A09", "A10", "A11", "A12", "A13", "A14"}
  BY DEF A16Stages, RequiredChecks
<1>1. ASSUME NEW s \in {"A09", "A10", "A11", "A12", "A13", "A14"}, NEW id, StageCheckPasses(s, id) PROVE CheckIn(receipts[s], id)
  <2>1. PICK n : ChecksShaped(receipts[s].checks, n)
    BY <1>0, Zenon DEF ReceiptShaped
  <2> QED BY <1>1, <2>1, PassedIsThere, Zenon
<1>2. ASSUME NEW s \in {"A13", "A14"}, NEW ids, Selected16(s, ids) PROVE \A i \in DOMAIN ids : PackIn(receipts[s], ids[i])
  <2>1. PICK n : PacksShaped(receipts[s].packs, n)
    <3>1. s \in A16Stages
      BY <1>0
    <3> QED BY <3>1, Zenon DEF ReceiptShaped
  <2> QED BY <1>2, <2>1, SelectionIsThere, Zenon
<1>3. k = 1 \/ k = 2 \/ k = 3 \/ k = 4 \/ k = 5
  OBVIOUS
<1>4. CASE k = 1
  <2>1. A16Products[k] = "lawminer"
    BY <1>4 DEF A16Products
  <2>2. Lawminer
    BY <2>1 DEF ProductHolds
  <2>3. StageCheckPasses("A12", "smoke") /\ PackIdsAre("A12", RequiredPacks("A12"))
        /\ \A i \in DOMAIN receipts["A12"].packs : PackHolds(receipts["A12"].packs[i])
    BY <2>2, Zenon DEF Lawminer
  <2>4. ChecksIn(receipts, "A12")
    <3>1. CheckIn(receipts["A12"], "smoke")
      BY <1>1, <2>3
    <3>2. DOMAIN RequiredChecks["A12"] = {1} /\ RequiredChecks["A12"][1] = "smoke"
      BY DEF RequiredChecks
    <3> QED BY <3>1, <3>2 DEF ChecksIn
  <2> PICK p : p = receipts["A12"].packs
    OBVIOUS
  <2> PICK ids : ids = RequiredPacks("A12")
    OBVIOUS
  <2>5. [i \in DOMAIN p |-> p[i].id] = ids
    BY <2>3, Zenon DEF PackIdsAre
  <2>6. DOMAIN ids = DOMAIN p /\ \A i \in DOMAIN p : p[i].id = ids[i]
    BY <2>5
  <2>7. PICK n : PacksShaped(p, n)
    BY <1>0, Zenon DEF ReceiptShaped
  <2>8. \A i \in DOMAIN p : /\ p[i] = [id |-> p[i].id, bounded |-> p[i].bounded, negative |-> p[i].negative]
                            /\ p[i].bounded \in BOOLEAN /\ p[i].negative \in BOOLEAN
    BY <2>7, Zenon DEF PacksShaped
  <2>9. ASSUME NEW i \in DOMAIN ids PROVE PackIn(receipts["A12"], ids[i])
    <3>1. i \in DOMAIN p /\ PackHolds(p[i]) /\ p[i].id = ids[i]
      BY <2>3, <2>6, <2>9
    <3>2. p[i] = PackEntry(ids[i])
      BY <2>8, <3>1, HoldingIsEntry, Zenon
    <3> QED BY <3>1, <3>2, Zenon DEF PackIn
  <2> QED BY <1>4, <2>4, <2>9 DEF Yields
<1>5. CASE k = 2
  <2>1. A16Products[k] = "formal_verification_lab"
    BY <1>5 DEF A16Products
  <2>2. FormalVerificationLab
    BY <2>1 DEF ProductHolds
  <2>3. ASSUME NEW s \in {"A09", "A10"} PROVE ChecksIn(receipts, s) /\ receipts[s].checked
    <3>1. (\A i \in DOMAIN RequiredChecks[s] : StageCheckPasses(s, RequiredChecks[s][i])) /\ receipts[s].checked
      BY <2>2, <2>3, Zenon DEF FormalVerificationLab
    <3>2. s \in {"A09", "A10", "A11", "A12", "A13", "A14"}
      OBVIOUS
    <3> QED BY <1>1, <3>1, <3>2, Zenon DEF ChecksIn
  <2>4. ~receipts["A10"].claims
    BY <2>2, Zenon DEF FormalVerificationLab
  <2>5. ChecksIn(receipts, "A09") /\ ChecksIn(receipts, "A10")
    BY <2>3
  <2>6. receipts["A09"].checked /\ receipts["A10"].checked
    BY <2>3, Zenon
  <2>7. k # 1 /\ k # 3 /\ k # 4 /\ k # 5
    BY <1>5
  <2> QED BY <2>4, <2>5, <2>6, <2>7, Zenon DEF Yields
<1>6. CASE k = 3
  <2>1. A16Products[k] = "geometry_physics_compiler"
    BY <1>6 DEF A16Products
  <2>2. GeometryPhysicsCompiler
    BY <2>1 DEF ProductHolds
  <2>3. CheckIn(receipts["A13"], "workloads") /\ CheckIn(receipts["A14"], "workloads")
    BY <1>1, <2>2 DEF GeometryPhysicsCompiler
  <2>4. ChecksIn(receipts, "A13") /\ ChecksIn(receipts, "A14")
    <3>1. DOMAIN RequiredChecks["A13"] = {1} /\ RequiredChecks["A13"][1] = "workloads"
          /\ DOMAIN RequiredChecks["A14"] = {1} /\ RequiredChecks["A14"][1] = "workloads"
      BY DEF RequiredChecks
    <3> QED BY <2>3, <3>1 DEF ChecksIn
  <2>5. \A i \in 1 .. 3 : PackIn(receipts["A13"], A13Packs[i])
    <3> PICK ids : ids = SubSeq(A13Packs, 1, 3)
      OBVIOUS
    <3>1. \A i \in DOMAIN ids : PackIn(receipts["A13"], ids[i])
      BY <1>2, <2>2 DEF GeometryPhysicsCompiler
    <3>2. DOMAIN ids = 1 .. 3 /\ \A i \in 1 .. 3 : ids[i] = A13Packs[i]
      BY DEF A13Packs
    <3> QED BY <3>1, <3>2
  <2>6. \A i \in 1 .. 8 : PackIn(receipts["A14"], A14Packs[i])
    <3>1. \A i \in DOMAIN A14Packs : PackIn(receipts["A14"], A14Packs[i])
      BY <1>2, <2>2 DEF GeometryPhysicsCompiler
    <3>2. DOMAIN A14Packs = 1 .. 8
      BY DEF A14Packs
    <3> QED BY <3>1, <3>2
  <2> QED BY <1>6, <2>4, <2>5, <2>6 DEF Yields
<1>7. CASE k = 4
  <2>1. A16Products[k] = "causal_economy_lab"
    BY <1>7 DEF A16Products
  <2>2. CausalEconomyLab
    BY <2>1 DEF ProductHolds
  <2>3. receipts["A13"].identified
    BY <2>2, Zenon DEF CausalEconomyLab
  <2>4. \A i \in 3 .. 5 : PackIn(receipts["A13"], A13Packs[i])
    <3> PICK ids : ids = SubSeq(A13Packs, 3, 5)
      OBVIOUS
    <3>1. \A i \in DOMAIN ids : PackIn(receipts["A13"], ids[i])
      BY <1>2, <2>2 DEF CausalEconomyLab
    <3>2. DOMAIN ids = 1 .. 3 /\ ids[1] = A13Packs[3] /\ ids[2] = A13Packs[4] /\ ids[3] = A13Packs[5]
      BY DEF A13Packs
    <3>3. PackIn(receipts["A13"], A13Packs[3]) /\ PackIn(receipts["A13"], A13Packs[4]) /\ PackIn(receipts["A13"], A13Packs[5])
      BY <3>1, <3>2
    <3>4. \A i \in 3 .. 5 : i = 3 \/ i = 4 \/ i = 5
      OBVIOUS
    <3> QED BY <3>3, <3>4
  <2>5. k # 1 /\ k # 2 /\ k # 3 /\ k # 5
    BY <1>7
  <2> QED BY <2>3, <2>4, <2>5, Zenon DEF Yields
<1>8. CASE k = 5
  <2>1. A16Products[k] = "literature_to_knowledge_graph"
    BY <1>8 DEF A16Products
  <2>2. LiteratureToKnowledgeGraph
    BY <2>1 DEF ProductHolds
  <2>3. CheckIn(receipts["A11"], "probes") /\ CheckIn(receipts["A11"], "graph") /\ receipts["A11"].sources >= 2
    BY <1>1, <2>2 DEF LiteratureToKnowledgeGraph
  <2>4. ChecksIn(receipts, "A11")
    <3>1. DOMAIN RequiredChecks["A11"] = {1, 2} /\ RequiredChecks["A11"][1] = "probes" /\ RequiredChecks["A11"][2] = "graph"
      BY DEF RequiredChecks
    <3> QED BY <2>3, <3>1 DEF ChecksIn
  <2> QED BY <1>8, <2>3, <2>4 DEF Yields
<1> QED BY <1>3, <1>4, <1>5, <1>6, <1>7, <1>8

\* A receipt with the places in a altered.
AlterableFields == {"ids"} \cup TopFields \cup ProductFields
FieldsWith(S, a) == [f \in S |-> IF f \in a THEN 1 ELSE 0]
ReceiptWith(r, a) ==
    /\ r = [ids |-> r.ids, top |-> r.top, products |-> r.products]
    /\ r.ids = A16Products <=> "ids" \notin a
    /\ r.top = FieldsWith(TopFields, a)
    /\ DOMAIN r.products = 1 .. 5 /\ r.products[2] = FieldsWith(ProductFields, a)
RewriteReceipt(a) ==
    /\ a \subseteq UncheckedFields \cup {"request", "request_id", "result", "result_id"}
    /\ "request" \in a <=> "request_id" \in a
    /\ "result" \in a <=> "result_id" \in a

A16Facts(receipts, built, loaded, receipt, altered, valid) ==
    /\ \A s \in A16Stages : ReceiptShaped(s, receipts[s])
    /\ loaded => \A s \in A16Stages : receipts[s].head = {}
    /\ built \in Seq({A16Products[i] : i \in 1 .. 5}) /\ Len(built) <= 5
    /\ Len(built) > 0 => loaded
    /\ \A i \in 1 .. Len(built) : Yields(receipts, i)
    /\ receipt # {} => Len(built) = 5
    /\ receipt = {} => altered = {}
    /\ \A r \in receipt : ReceiptWith(r, altered)
    /\ altered \subseteq AlterableFields
    /\ TRUE \in valid => RewriteReceipt(altered)
A16Record(receipts, built, loaded, refused, receipt, altered, valid) ==
    [receipts |-> receipts, built |-> built, loaded |-> loaded, refused |-> refused,
     receipt |-> receipt, altered |-> altered, valid |-> valid]

A16Inv ==
    subject = "a16" =>
        \E receipts, built, loaded, refused, receipt, altered, valid :
            /\ st = A16Record(receipts, built, loaded, refused, receipt, altered, valid)
            /\ A16Facts(receipts, built, loaded, receipt, altered, valid)

\* The initial states satisfy the product stages invariant.
LEMMA A16Inits == A16Init => A16Inv
<1> SUFFICES ASSUME A16Init PROVE A16Inv
  OBVIOUS
<1>1. PICK odd \in AtMostTwo(UNION {Oddities(s) : s \in A16Stages}) :
           st = [receipts |-> [s \in A16Stages |-> StageReceipt(s, odd)], built |-> <<>>,
                 loaded |-> FALSE, refused |-> FALSE, receipt |-> {}, altered |-> {}, valid |-> {}]
  BY Zenon DEF A16Init
<1>2. OddSet(odd)
  BY AtMostTwoIs DEF OddSet
<1> PICK receipts : receipts = [s \in A16Stages |-> StageReceipt(s, odd)]
  OBVIOUS
<1>3. ASSUME NEW s \in A16Stages PROVE ReceiptShaped(s, receipts[s])
  <2>1. receipts[s] = StageReceipt(s, odd)
    BY <1>3, Zenon
  <2>2. ReceiptShaped(s, StageReceipt(s, odd))
    BY <1>2, StageReceiptShaped, Zenon
  <2> QED BY <2>1, <2>2, Zenon
<1> PICK none : none = {}
  OBVIOUS
<1> PICK empty : empty = <<>>
  OBVIOUS
<1>4. empty \in Seq({A16Products[i] : i \in 1 .. 5}) /\ Len(empty) = 0
  OBVIOUS
<1>5. Len(empty) <= 5 /\ ~(Len(empty) > 0) /\ 1 .. Len(empty) = {}
  BY <1>4
<1>6. none \subseteq AlterableFields
  OBVIOUS
<1>7. A16Facts(receipts, empty, FALSE, none, none, none)
  BY <1>3, <1>4, <1>5, <1>6, Zenon DEF A16Facts
<1>8. st = A16Record(receipts, empty, FALSE, FALSE, none, none, none)
  BY <1>1, Zenon DEF A16Record
<1> QED BY <1>7, <1>8, Zenon DEF A16Inv

\* Loading the stages and building the products keep the invariant.
LEMMA A16BuildSteps ==
    ASSUME A16Inv, LoadStages \/ BuildProduct \/ IssueReceipt PROVE A16Inv'
<1>0. subject = "a16" /\ subject' = "a16" /\ st.receipt = {}
  <2>1. A16UnderWay
    BY Zenon DEF LoadStages, BuildProduct, IssueReceipt
  <2>2. subject' = "a16"
    BY Zenon DEF LoadStages, BuildProduct, IssueReceipt, A16Refuse, Step
  <2> QED BY <2>1, <2>2, Zenon DEF A16UnderWay
<1>1. PICK s, b, l, x, r, a, v : st = A16Record(s, b, l, x, r, a, v) /\ A16Facts(s, b, l, r, a, v)
  BY <1>0, Zenon DEF A16Inv
<1>2. st.receipts = s /\ st.built = b /\ st.loaded = l /\ st.receipt = r /\ st.altered = a /\ st.valid = v
  BY <1>1 DEF A16Record
<1>3. r = {} /\ a = {}
  BY <1>0, <1>1, <1>2, Zenon DEF A16Facts
<1>4. CASE st' = [st EXCEPT !.refused = TRUE]
  <2>1. st' = A16Record(s, b, l, TRUE, r, a, v)
    BY <1>1, <1>4 DEF A16Record
  <2> QED BY <1>1, <2>1, Zenon DEF A16Inv
<1>5. CASE LoadStages
  <2>1. CASE st' = [st EXCEPT !.loaded = TRUE] /\ ~ \E z \in A16Stages : st.receipts[z].head # {}
    <3>1. st' = A16Record(s, b, TRUE, x, r, a, v)
      BY <1>1, <2>1 DEF A16Record
    <3>2. \A z \in A16Stages : s[z].head = {}
      BY <1>2, <2>1, Zenon
    <3>3. A16Facts(s, b, TRUE, r, a, v)
      BY <1>1, <3>2, Zenon DEF A16Facts
    <3> QED BY <3>1, <3>3, Zenon DEF A16Inv
  <2> QED BY <1>4, <1>5, <2>1, Zenon DEF LoadStages, A16Refuse, Step
<1>6. CASE BuildProduct
  <2>0. Len(A16Products) = 5
    BY DEF A16Products
  <2>1. l /\ Len(b) < 5
    BY <1>2, <1>6, <2>0, Zenon DEF BuildProduct
  <2> PICK D : D = {A16Products[i] : i \in 1 .. 5}
    OBVIOUS
  <2>2. b \in Seq(D) /\ (\A i \in 1 .. Len(b) : Yields(s, i)) /\ \A z \in A16Stages : ReceiptShaped(z, s[z])
    BY <1>1, Zenon DEF A16Facts
  <2> PICK k : k = Len(b) + 1
    OBVIOUS
  <2>3. k \in 1 .. 5
    BY <2>1, <2>2
  <2> PICK p : p = A16Products[k]
    OBVIOUS
  <2>4. CASE ProductHolds(p) /\ st' = [st EXCEPT !.built = Append(st.built, p)]
    <3>1. p \in D
      BY <2>3
    <3> PICK c : c = Append(b, p)
      OBVIOUS
    <3>2. c \in Seq(D) /\ Len(c) = Len(b) + 1
      BY <2>2, <3>1
    <3>3. Yields(s, k)
      BY <1>2, <2>2, <2>3, <2>4, ProductYields, Zenon
    <3>4. ASSUME NEW i \in 1 .. Len(c) PROVE Yields(s, i)
      <4>1. i \in 1 .. Len(b) \/ i = k
        BY <2>2, <3>2
      <4> QED BY <2>2, <3>3, <4>1
    <3>5. Len(c) <= 5
      BY <2>1, <2>2, <3>2
    <3>6. A16Facts(s, c, l, r, a, v)
      BY <1>1, <1>3, <2>1, <3>2, <3>4, <3>5, Zenon DEF A16Facts
    <3>7. st' = [st EXCEPT !.built = c]
      BY <1>2, <2>4, Zenon
    <3>8. st' = A16Record(s, c, l, x, r, a, v)
      <4>1. ASSUME NEW y, st' = [st EXCEPT !.built = y] PROVE st' = A16Record(s, y, l, x, r, a, v)
        BY <1>1, <4>1 DEF A16Record
      <4> QED BY <3>7, <4>1, Zenon
    <3> QED BY <3>6, <3>8, Zenon DEF A16Inv
  <2> QED BY <1>2, <1>4, <1>6, <2>4, Zenon DEF BuildProduct, A16Refuse, Step
<1>7. CASE IssueReceipt
  <2> PICK y1, y2 : y1 = [f \in TopFields |-> 0] /\ y2 = [i \in DOMAIN A16Products |-> [f \in ProductFields |-> 0]]
    OBVIOUS
  <2> PICK z : z = [ids |-> b, top |-> y1, products |-> y2]
    OBVIOUS
  <2>1. b = A16Products /\ st' = [st EXCEPT !.receipt = {z}]
    BY <1>2, <1>7, Zenon DEF IssueReceipt, Step
  <2>2. Len(b) = 5 /\ DOMAIN A16Products = 1 .. 5 /\ 2 \in 1 .. 5
    BY <2>1 DEF A16Products
  <2>3. z.ids = b /\ z.top = y1 /\ z.products = y2 /\ z = [ids |-> z.ids, top |-> z.top, products |-> z.products]
    OBVIOUS
  <2>4. DOMAIN y2 = 1 .. 5 /\ y2[2] = [f \in ProductFields |-> 0]
    BY <2>2
  <2>5. ASSUME NEW S PROVE FieldsWith(S, a) = [f \in S |-> 0]
    BY <1>3 DEF FieldsWith
  <2>6. "ids" \notin a
    BY <1>3
  <2>7. ReceiptWith(z, a)
    BY <2>1, <2>3, <2>4, <2>5, <2>6, Zenon DEF ReceiptWith
  <2>8. (\A y \in {z} : ReceiptWith(y, a)) /\ {z} # {}
    BY <2>7
  <2>9. A16Facts(s, b, l, {z}, a, v)
    BY <1>1, <1>3, <2>2, <2>8, Zenon DEF A16Facts
  <2>10. st' = A16Record(s, b, l, x, {z}, a, v)
    <3>1. ASSUME NEW y, st' = [st EXCEPT !.receipt = y] PROVE st' = A16Record(s, b, l, x, y, a, v)
      BY <1>1, <3>1 DEF A16Record
    <3> QED BY <2>1, <3>1, Zenon
  <2> QED BY <2>9, <2>10, Zenon DEF A16Inv
<1> QED BY <1>5, <1>6, <1>7

\* The places of the whole and those of a product have different names.
LEMMA PlacesDiffer ==
    /\ "ids" \notin TopFields /\ "ids" \notin ProductFields /\ TopFields \cap ProductFields = {}
    /\ \A f \in AlterableFields : f = "ids" \/ f \in TopFields \/ f \in ProductFields
<1>1. "ids" \notin TopFields /\ "ids" \notin ProductFields
  BY DEF TopFields, ProductFields
<1>2. ASSUME NEW f \in TopFields PROVE f \notin ProductFields
  BY DEF TopFields, ProductFields
<1> QED BY <1>1, <1>2 DEF AlterableFields

\* One more place of a receipt is altered.
LEMMA AlteredReceipt ==
    ASSUME NEW a, NEW r, ReceiptWith(r, a), NEW f \in AlterableFields, f \notin a, NEW z,
           z = CASE f = "ids"        -> [r EXCEPT !.ids = Tail(@)]
                 [] f \in TopFields -> [r EXCEPT !.top[f] = 1]
                 [] OTHER           -> [r EXCEPT !.products[2][f] = 1]
    PROVE  ReceiptWith(z, a \cup {f})
<1> PICK b : b = a \cup {f}
  OBVIOUS
<1> PICK q, t : q = r.products /\ t = r.top
  OBVIOUS
<1>1. /\ r = [ids |-> r.ids, top |-> t, products |-> q] /\ (r.ids = A16Products <=> "ids" \notin a)
      /\ t = FieldsWith(TopFields, a)
      /\ DOMAIN q = 1 .. 5 /\ q[2] = FieldsWith(ProductFields, a) /\ 2 \in 1 .. 5
  BY DEF ReceiptWith
<1>2. \A g : g \in b <=> g \in a \/ g = f
  OBVIOUS
<1>6. /\ \A S : f \in S => [FieldsWith(S, a) EXCEPT ![f] = 1] = FieldsWith(S, b)
      /\ \A S : f \notin S => FieldsWith(S, a) = FieldsWith(S, b)
  <2>1. ASSUME NEW S PROVE /\ f \in S => [FieldsWith(S, a) EXCEPT ![f] = 1] = FieldsWith(S, b)
                           /\ f \notin S => FieldsWith(S, a) = FieldsWith(S, b)
    BY <1>2 DEF FieldsWith
  <2> QED BY <2>1, Zenon
<1>3. CASE f = "ids"
  <2>1. z = [r EXCEPT !.ids = Tail(r.ids)]
    <3>1. f \notin TopFields
      BY <1>3, PlacesDiffer
    <3> QED BY <1>3, <3>1
  <2>2. z.ids = Tail(A16Products) /\ z.top = t /\ z.products = q /\ z = [ids |-> z.ids, top |-> z.top, products |-> z.products]
    <3>1. ASSUME NEW y, z = [r EXCEPT !.ids = y]
          PROVE  z.ids = y /\ z.top = t /\ z.products = q /\ z = [ids |-> z.ids, top |-> z.top, products |-> z.products]
      BY <1>1, <3>1
    <3>2. r.ids = A16Products
      BY <1>1, <1>3, Zenon
    <3> QED BY <2>1, <3>1, <3>2, Zenon
  <2>3. Len(A16Products) = 5 /\ Len(Tail(A16Products)) = 4 /\ 4 # 5
    BY DEF A16Products
  <2>4. z.ids # A16Products
    <3>1. Len(Tail(A16Products)) # Len(A16Products)
      BY <2>3, Zenon
    <3> QED BY <2>2, <3>1, Zenon
  <2>5. FieldsWith(ProductFields, b) = FieldsWith(ProductFields, a) /\ FieldsWith(TopFields, b) = FieldsWith(TopFields, a)
    BY <1>3, <1>6, PlacesDiffer, Zenon
  <2>6. z.products[2] = FieldsWith(ProductFields, b) /\ DOMAIN z.products = 1 .. 5 /\ z.top = FieldsWith(TopFields, b)
    BY <1>1, <2>2, <2>5, Zenon
  <2>7. "ids" \in b
    BY <1>3
  <2>8. ReceiptWith(z, b)
    BY <2>2, <2>4, <2>6, <2>7, Zenon DEF ReceiptWith
  <2> QED BY <2>8, Zenon
<1>4. CASE f \in TopFields
  <2>0. f # "ids" /\ f \notin ProductFields
    BY <1>4, PlacesDiffer
  <2>1. z = [r EXCEPT !.top[f] = 1]
    BY <1>4, <2>0, Zenon
  <2>2. /\ z.ids = r.ids /\ z.top = [t EXCEPT ![f] = 1] /\ z.products = q
        /\ z = [ids |-> z.ids, top |-> z.top, products |-> z.products]
    BY <1>1, <2>1
  <2>3. z.top = FieldsWith(TopFields, b) /\ z.products[2] = FieldsWith(ProductFields, b)
    BY <1>1, <1>4, <1>6, <2>0, <2>2, Zenon
  <2>4. "ids" \in b <=> "ids" \in a
    BY <1>2, <2>0, Zenon
  <2>6. ReceiptWith(z, b)
    BY <1>1, <2>2, <2>3, <2>4, Zenon DEF ReceiptWith
  <2> QED BY <2>6, Zenon
<1>5. CASE f \in ProductFields
  <2>0. f # "ids" /\ f \notin TopFields
    BY <1>5, PlacesDiffer
  <2>1. z = [r EXCEPT !.products[2][f] = 1]
    BY <2>0, Zenon
  <2>2. /\ z.ids = r.ids /\ z.top = t /\ z.products = [q EXCEPT ![2][f] = 1]
        /\ z = [ids |-> z.ids, top |-> z.top, products |-> z.products]
    BY <1>1, <2>1
  <2>3. DOMAIN z.products = 1 .. 5 /\ z.products[2] = [FieldsWith(ProductFields, a) EXCEPT ![f] = 1]
    BY <1>1, <2>2
  <2>4. "ids" \in b <=> "ids" \in a
    BY <1>2, <2>0, Zenon
  <2>5. z.products[2] = FieldsWith(ProductFields, b) /\ z.top = FieldsWith(TopFields, b)
    BY <1>1, <1>5, <1>6, <2>0, <2>2, <2>3, Zenon
  <2>6. ReceiptWith(z, b)
    BY <1>1, <2>2, <2>3, <2>4, <2>5, Zenon DEF ReceiptWith
  <2> QED BY <2>6, Zenon
<1> QED BY <1>3, <1>4, <1>5, PlacesDiffer

\* Only a rewrite that recomputed its ids validates.
LEMMA ValidIsRewrite ==
    ASSUME NEW a, a \subseteq AlterableFields, "ids" \notin a,
           FieldsWith(TopFields, a)["creates_second_ledger"] = 0, FieldsWith(TopFields, a)["canonical_writes"] = 0,
           ValidateProduct(FieldsWith(ProductFields, a))
    PROVE  RewriteReceipt(a)
<1>1. ASSUME NEW S, NEW f \in S PROVE FieldsWith(S, a)[f] = IF f \in a THEN 1 ELSE 0
  BY DEF FieldsWith
<1>2. /\ {"request", "request_id", "result", "result_id", "preserved", "negative"} \subseteq ProductFields
      /\ {"creates_second_ledger", "canonical_writes"} \subseteq TopFields
  BY DEF ProductFields, TopFields
<1>3. "creates_second_ledger" \notin a /\ "canonical_writes" \notin a
  BY <1>1, <1>2
<1> PICK q : q = FieldsWith(ProductFields, a)
  OBVIOUS
<1>4. q["request"] = q["request_id"] /\ q["result"] = q["result_id"] /\ q["negative"] = 0 /\ q["preserved"] = 0
  BY DEF ValidateProduct
<1>5. /\ q["request"] = (IF "request" \in a THEN 1 ELSE 0) /\ q["request_id"] = (IF "request_id" \in a THEN 1 ELSE 0)
      /\ q["result"] = (IF "result" \in a THEN 1 ELSE 0) /\ q["result_id"] = (IF "result_id" \in a THEN 1 ELSE 0)
      /\ q["negative"] = (IF "negative" \in a THEN 1 ELSE 0) /\ q["preserved"] = (IF "preserved" \in a THEN 1 ELSE 0)
  BY <1>1, <1>2
<1>6. /\ "preserved" \notin a /\ "negative" \notin a
      /\ ("request" \in a <=> "request_id" \in a) /\ ("result" \in a <=> "result_id" \in a)
  <2>1. 0 # 1
    OBVIOUS
  <2> QED BY <1>4, <1>5, <2>1, Zenon
<1>7. ASSUME NEW f \in a PROVE f \in UncheckedFields \cup {"request", "request_id", "result", "result_id"}
  BY <1>3, <1>6 DEF AlterableFields, TopFields, ProductFields, UncheckedFields
<1> QED BY <1>6, <1>7 DEF RewriteReceipt

\* Altering and validating a receipt keep it.
LEMMA A16ReceiptSteps ==
    ASSUME A16Inv, AlterReceipt \/ ValidateA16 PROVE A16Inv'
<1>0. subject = "a16" /\ subject' = "a16" /\ st.valid = {}
  BY Zenon DEF AlterReceipt, ValidateA16, Step
<1>1. PICK s, b, l, x, r, a, v : st = A16Record(s, b, l, x, r, a, v) /\ A16Facts(s, b, l, r, a, v)
  BY <1>0, Zenon DEF A16Inv
<1>2. st.receipts = s /\ st.built = b /\ st.loaded = l /\ st.receipt = r /\ st.altered = a /\ st.valid = v
  BY <1>1 DEF A16Record
<1>3. v = {} /\ a \subseteq AlterableFields /\ \A y \in r : ReceiptWith(y, a)
  BY <1>0, <1>1, <1>2, Zenon DEF A16Facts
<1>4. CASE AlterReceipt
  <2>1. PICK y \in r, f \in AlterableFields \ a :
          Step("a16", [st EXCEPT !.altered = @ \cup {f}, !.receipt =
               {CASE f = "ids"        -> [y EXCEPT !.ids = Tail(@)]
                  [] f \in TopFields -> [y EXCEPT !.top[f] = 1]
                  [] OTHER           -> [y EXCEPT !.products[2][f] = 1]}])
    BY <1>2, <1>4, Zenon DEF AlterReceipt, AlterableFields
  <2>2. f \in AlterableFields /\ f \notin a
    BY <2>1
  <2> PICK z : z = CASE f = "ids"        -> [y EXCEPT !.ids = Tail(@)]
                     [] f \in TopFields -> [y EXCEPT !.top[f] = 1]
                     [] OTHER           -> [y EXCEPT !.products[2][f] = 1]
    OBVIOUS
  <2> PICK c : c = a \cup {f}
    OBVIOUS
  <2>3. ReceiptWith(z, c) /\ c \subseteq AlterableFields
    <3>1. ReceiptWith(z, a \cup {f})
      BY <1>3, <2>2, AlteredReceipt, Zenon
    <3>2. a \cup {f} \subseteq AlterableFields
      BY <1>3, <2>2
    <3> QED BY <3>1, <3>2, Zenon
  <2>4. st' = [st EXCEPT !.altered = c, !.receipt = {z}]
    BY <1>2, <2>1, Zenon DEF Step
  <2>5. st' = A16Record(s, b, l, x, {z}, c, v)
    <3>1. ASSUME NEW w, NEW u, st' = [st EXCEPT !.altered = u, !.receipt = w] PROVE st' = A16Record(s, b, l, x, w, u, v)
      BY <1>1, <3>1 DEF A16Record
    <3> QED BY <2>4, <3>1, Zenon
  <2>6. (\A w \in {z} : ReceiptWith(w, c)) /\ {z} # {}
    BY <2>3
  <2>7. r # {} /\ TRUE \notin v
    BY <1>3, <2>1
  <2>8. A16Facts(s, b, l, {z}, c, v)
    BY <1>1, <2>3, <2>6, <2>7, Zenon DEF A16Facts
  <2> QED BY <2>5, <2>8, Zenon DEF A16Inv
<1>5. CASE ValidateA16
  <2>1. PICK y \in r :
           Step("a16", [st EXCEPT !.valid =
               {/\ y.ids = A16Products
                /\ y.top["creates_second_ledger"] = 0 /\ y.top["canonical_writes"] = 0
                /\ \A i \in DOMAIN y.products : ValidateProduct(y.products[i])}])
    BY <1>2, <1>5, Zenon DEF ValidateA16
  <2> PICK t : t = (/\ y.ids = A16Products
                    /\ y.top["creates_second_ledger"] = 0 /\ y.top["canonical_writes"] = 0
                    /\ \A i \in DOMAIN y.products : ValidateProduct(y.products[i]))
    OBVIOUS
  <2>2. st' = [st EXCEPT !.valid = {t}]
    BY <2>1, Zenon DEF Step
  <2>3. st' = A16Record(s, b, l, x, r, a, {t})
    <3>1. ASSUME NEW w, st' = [st EXCEPT !.valid = w] PROVE st' = A16Record(s, b, l, x, r, a, w)
      BY <1>1, <3>1 DEF A16Record
    <3> QED BY <2>2, <3>1, Zenon
  <2>4. ASSUME TRUE \in {t} PROVE RewriteReceipt(a)
    <3>1. /\ y.ids = A16Products /\ \A i \in DOMAIN y.products : ValidateProduct(y.products[i])
          /\ y.top["creates_second_ledger"] = 0 /\ y.top["canonical_writes"] = 0
      BY <2>4, Zenon
    <3>2. ReceiptWith(y, a) /\ 2 \in 1 .. 5
      BY <1>3
    <3>3. /\ "ids" \notin a /\ ValidateProduct(FieldsWith(ProductFields, a))
          /\ FieldsWith(TopFields, a)["creates_second_ledger"] = 0 /\ FieldsWith(TopFields, a)["canonical_writes"] = 0
      BY <3>1, <3>2, Zenon DEF ReceiptWith
    <3> QED BY <1>3, <3>3, ValidIsRewrite, Zenon
  <2>5. A16Facts(s, b, l, r, a, {t})
    BY <1>1, <2>4, Zenon DEF A16Facts
  <2> QED BY <2>3, <2>5, Zenon DEF A16Inv
<1> QED BY <1>4, <1>5

\* The product stages invariant gives the property its calls are checked for.
LEMMA A16InvHolds == A16Inv => ProductsAreBacked /\ ValidatedIsAsBuilt
<1> SUFFICES ASSUME A16Inv PROVE ProductsAreBacked /\ ValidatedIsAsBuilt
  OBVIOUS
<1>1. CASE subject # "a16"
  BY <1>1, Zenon DEF ProductsAreBacked, ValidatedIsAsBuilt
<1>2. CASE subject = "a16"
  <2>1. PICK s, b, l, x, r, a, v : st = A16Record(s, b, l, x, r, a, v) /\ A16Facts(s, b, l, r, a, v)
    BY <1>2, Zenon DEF A16Inv
  <2>2. st.receipts = s /\ st.built = b /\ st.loaded = l /\ st.receipt = r /\ st.altered = a /\ st.valid = v
    BY <2>1 DEF A16Record
  <2>3. ValidatedIsAsBuilt
    BY <2>1, <2>2, Zenon DEF ValidatedIsAsBuilt, A16Facts, RewriteReceipt
  <2>4. ASSUME r # {} PROVE ProductsAreBacked
    <3>1. Len(b) = 5 /\ \A i \in 1 .. Len(b) : Yields(s, i)
      BY <2>1, <2>4, Zenon DEF A16Facts
    <3>2. Yields(s, 1) /\ Yields(s, 2) /\ Yields(s, 3) /\ Yields(s, 4) /\ Yields(s, 5)
      BY <3>1
    <3>3. (\A z \in A16Stages : s[z].head = {}) /\ \A z \in A16Stages : ReceiptShaped(z, s[z])
      <4>1. Len(b) > 0
        BY <3>1
      <4> QED BY <2>1, <4>1, Zenon DEF A16Facts
    <3>4. A16Stages = {"A09", "A10", "A11", "A12", "A13", "A14"}
      BY DEF A16Stages, RequiredChecks
    <3>5. /\ ChecksIn(s, "A09") /\ ChecksIn(s, "A10") /\ ChecksIn(s, "A11")
          /\ ChecksIn(s, "A12") /\ ChecksIn(s, "A13") /\ ChecksIn(s, "A14")
      BY <3>2 DEF Yields
    <3>6. /\ s["A09"].checked /\ s["A10"].checked /\ ~s["A10"].claims /\ s["A13"].identified
          /\ s["A11"].sources >= 2
      BY <3>2, Zenon DEF Yields
    <3>7. ASSUME NEW z \in A16Stages
          PROVE  \A i \in DOMAIN RequiredPacks(z) : PackIn(s[z], RequiredPacks(z)[i])
      <4>1. CASE z = "A12"
        BY <3>2, <4>1, Zenon DEF Yields
      <4>2. CASE z = "A13"
        <5>1. RequiredPacks(z) = A13Packs /\ DOMAIN A13Packs = 1 .. 5
          BY <4>2 DEF RequiredPacks, StagePacks, A13Packs
        <5>2. (\A i \in 1 .. 3 : PackIn(s[z], A13Packs[i])) /\ \A i \in 3 .. 5 : PackIn(s[z], A13Packs[i])
          BY <3>2, <4>2 DEF Yields
        <5>3. \A i \in 1 .. 5 : i \in 1 .. 3 \/ i \in 3 .. 5
          OBVIOUS
        <5> QED BY <5>1, <5>2, <5>3, Zenon
      <4>3. CASE z = "A14"
        <5>1. RequiredPacks(z) = A14Packs /\ DOMAIN A14Packs = 1 .. 8
          BY <4>3 DEF RequiredPacks, StagePacks, A14Packs
        <5>2. \A i \in 1 .. 8 : PackIn(s[z], A14Packs[i])
          BY <3>2, <4>3 DEF Yields
        <5> QED BY <5>1, <5>2, Zenon
      <4>4. CASE z \in {"A09", "A10", "A11"}
        <5>1. DOMAIN RequiredPacks(z) = {}
          BY <4>4 DEF RequiredPacks, StagePacks
        <5> QED BY <5>1, Zenon
      <4> QED BY <3>4, <4>1, <4>2, <4>3, <4>4
    <3>8. ASSUME NEW z \in A16Stages PROVE s[z].checked /\ s[z].identified /\ s[z].sources >= 2 /\ ChecksIn(s, z)
      <4>1. ReceiptShaped(z, s[z])
        BY <3>3, Zenon
      <4>2. ChecksIn(s, z)
        BY <3>4, <3>5
      <4> QED BY <3>4, <3>6, <4>1, <4>2 DEF ReceiptShaped
    <3> QED BY <2>2, <3>3, <3>6, <3>7, <3>8, Zenon DEF ProductsAreBacked, ChecksIn, CheckIn, PackIn
  <2>5. CASE r = {}
    BY <2>2, <2>3, <2>5, Zenon DEF ProductsAreBacked
  <2> QED BY <2>3, <2>4, <2>5
<1> QED BY <1>1, <1>2
-----------------------------------------------------------------------------
(***************************************************************************)
(* Products: the law mined from a line.                                    *)
(***************************************************************************)
\* The running sums of the values at the observations.
RunningSum(s, f) ==
    s \in [0 .. LawPoints -> Int] /\ s[0] = 0 /\ \A i \in Indices : s[i] = s[i - 1] + f[i]

\* A sum is the last of its running sums.
LEMMA AddUpIs ==
    ASSUME NEW g \in [Indices -> Int]
    PROVE  \E f : RunningSum(f, g) /\ AddUp(g) = f[LawPoints]
<1> PICK n : n = LawPoints
  OBVIOUS
<1>0. n \in Nat /\ Indices = 1 .. n
  BY ProductsAssumption DEF Indices
<1> DEFINE Sums(f) == f = [i \in 0 .. n |-> IF i = 0 THEN 0 ELSE f[i - 1] + g[i]]
<1>1. PICK h \in [0 .. n -> Int] : h = [i \in 0 .. n |-> IF i = 0 THEN 0 ELSE h[i - 1] + g[i]]
  <2> DEFINE F == [x \in Int \X (1 .. n) |-> x[1] + g[x[2]]]
  <2>1. F \in [Int \X (1 .. n) -> Int]
    BY <1>0
  <2>2. \A v \in Int, i \in 1 .. n : F[<<v, i>>] = v + g[i]
    OBVIOUS
  <2> HIDE DEF F
  <2>3. PICK f : Carried(f, n, Int, 0, F)
    <3>1. 0 \in Int /\ Carrier(F, n, Int)
      BY <2>1 DEF Carrier
    <3> QED BY <1>0, <3>1, Recursion, Zenon
  <2>4. f \in [0 .. n -> Int]
    BY <2>3 DEF Carried
  <2>5. ASSUME NEW i \in 0 .. n PROVE f[i] = IF i = 0 THEN 0 ELSE f[i - 1] + g[i]
    <3>1. CASE i # 0
      <4>1. i \in 1 .. n /\ i - 1 \in 0 .. n
        BY <1>0, <3>1
      <4>2. f[i - 1] \in Int
        BY <2>4, <4>1
      <4> QED BY <2>2, <2>3, <3>1, <4>1, <4>2 DEF Carried
    <3> QED BY <2>3, <3>1 DEF Carried
  <2> QED BY <2>4, <2>5
<1>2. PICK f : Sums(f) /\ AddUp(g) = f[n]
  <2>1. Sums(CHOOSE f : Sums(f))
    BY <1>1, Zenon
  <2> QED BY <2>1, Zenon DEF AddUp
<1>3. f[0] = 0 /\ f = [i \in 0 .. n |-> f[i]]
  BY <1>0, <1>2
<1>4. ASSUME NEW i \in 1 .. n PROVE f[i] = f[i - 1] + g[i]
  BY <1>0, <1>2
<1> DEFINE S == {i \in 0 .. n : f[i] \in Int}
<1>5. \A i \in 0 .. n : i \in S
  <2>1. 0 \in S
    BY <1>0, <1>3
  <2>2. ASSUME NEW i \in 0 .. n - 1, i \in S PROVE i + 1 \in S
    <3>1. i + 1 \in 1 .. n /\ i + 1 - 1 = i /\ i + 1 \in 0 .. n
      BY <1>0
    <3>2. f[i] \in Int /\ g[i + 1] \in Int
      BY <1>0, <2>2, <3>1
    <3> QED BY <1>4, <3>1, <3>2
  <2> HIDE DEF S
  <2> QED BY <1>0, <2>1, <2>2, InductionUpTo
<1>6. f \in [0 .. n -> Int]
  BY <1>3, <1>5
<1> QED BY <1>0, <1>2, <1>3, <1>4, <1>6 DEF RunningSum

Combined(h, k, f, l, g, m, u) ==
    /\ h \in [Indices -> Int] /\ f \in [Indices -> Int] /\ g \in [Indices -> Int] /\ u \in [Indices -> Int]
    /\ k \in Int /\ l \in Int /\ m \in Int
    /\ \A i \in Indices : h[i] = k * f[i] + l * g[i] + m * u[i]

\* The sum of a combination of three is the combination of their sums.
LEMMA SumOfThree ==
    ASSUME NEW h, NEW k, NEW f, NEW l, NEW g, NEW m, NEW u, Combined(h, k, f, l, g, m, u)
    PROVE  AddUp(h) = k * AddUp(f) + l * AddUp(g) + m * AddUp(u)
<1> PICK n : n = LawPoints
  OBVIOUS
<1> USE DEF Combined
<1>0. n \in Nat /\ Indices = 1 .. n
  BY ProductsAssumption DEF Indices
<1>1. PICK sf : RunningSum(sf, f) /\ AddUp(f) = sf[n]
  BY AddUpIs
<1>2. PICK sg : RunningSum(sg, g) /\ AddUp(g) = sg[n]
  BY AddUpIs
<1>3. PICK su : RunningSum(su, u) /\ AddUp(u) = su[n]
  BY AddUpIs
<1>4. PICK sh : RunningSum(sh, h) /\ AddUp(h) = sh[n]
  BY AddUpIs
<1> DEFINE S == {i \in 0 .. n : sh[i] = k * sf[i] + l * sg[i] + m * su[i]}
<1>5. 0 \in S
  BY <1>0, <1>1, <1>2, <1>3, <1>4 DEF RunningSum
<1>6. ASSUME NEW i \in 0 .. n - 1, i \in S PROVE i + 1 \in S
  <2> PICK j : j = i + 1
    OBVIOUS
  <2>1. j \in 1 .. n /\ j - 1 = i /\ j \in 0 .. n /\ i \in 0 .. n
    BY <1>0
  <2>2. /\ sf[j] = sf[i] + f[j] /\ sg[j] = sg[i] + g[j] /\ su[j] = su[i] + u[j] /\ sh[j] = sh[i] + h[j]
        /\ sf[i] \in Int /\ sg[i] \in Int /\ su[i] \in Int /\ sh[i] \in Int
        /\ f[j] \in Int /\ g[j] \in Int /\ u[j] \in Int /\ h[j] \in Int
    BY <1>0, <1>1, <1>2, <1>3, <1>4, <2>1 DEF RunningSum
  <2>3. sh[i] = k * sf[i] + l * sg[i] + m * su[i]
    BY <1>6
  <2>4. h[j] = k * f[j] + l * g[j] + m * u[j]
    BY <1>0, <2>1 DEF Combined
  <2>5. \A a, b, c, d, e, z \in Int : (k * a + l * c + m * e) + (k * b + l * d + m * z) = k * (a + b) + l * (c + d) + m * (e + z)
    OBVIOUS
  <2>6. sh[j] = k * sf[j] + l * sg[j] + m * su[j]
    BY <2>2, <2>3, <2>4, <2>5
  <2> QED BY <2>1, <2>6
<1> HIDE DEF S
<1>7. n \in S
  <2>1. \A i \in 0 .. n : i \in S
    BY <1>0, <1>5, <1>6, InductionUpTo
  <2> QED BY <1>0, <2>1
<1> QED BY <1>1, <1>2, <1>3, <1>4, <1>7 DEF S

\* The sum of what is never negative is not negative.
LEMMA SumOfSquares ==
    ASSUME NEW f \in [Indices -> Int], \A i \in Indices : f[i] >= 0
    PROVE  AddUp(f) \in Int /\ AddUp(f) >= 0
<1> PICK n : n = LawPoints
  OBVIOUS
<1>0. n \in Nat /\ Indices = 1 .. n
  BY ProductsAssumption DEF Indices
<1>1. PICK s : RunningSum(s, f) /\ AddUp(f) = s[n]
  BY AddUpIs
<1> DEFINE S == {i \in 0 .. n : s[i] >= 0}
<1>2. 0 \in S
  BY <1>0, <1>1 DEF RunningSum
<1>3. ASSUME NEW i \in 0 .. n - 1, i \in S PROVE i + 1 \in S
  <2> PICK j : j = i + 1
    OBVIOUS
  <2>1. j \in 1 .. n /\ j - 1 = i /\ j \in 0 .. n /\ i \in 0 .. n
    BY <1>0
  <2>2. s[j] = s[i] + f[j] /\ s[i] \in Int /\ f[j] \in Int /\ f[j] >= 0
    BY <1>0, <1>1, <2>1 DEF RunningSum
  <2>3. s[i] >= 0
    BY <1>3
  <2>4. s[j] >= 0
    BY <2>2, <2>3
  <2> QED BY <2>1, <2>4
<1> HIDE DEF S
<1>4. n \in S
  <2>1. \A i \in 0 .. n : i \in S
    BY <1>0, <1>2, <1>3, InductionUpTo
  <2> QED BY <1>0, <2>1
<1>5. s[n] \in Int
  BY <1>0, <1>1 DEF RunningSum
<1> QED BY <1>1, <1>4, <1>5 DEF S

\* It is an integer.
LEMMA AddUpIsInt == ASSUME NEW f \in [Indices -> Int] PROVE AddUp(f) \in Int
<1>1. PICK s : RunningSum(s, f) /\ AddUp(f) = s[LawPoints]
  BY AddUpIs
<1> QED BY <1>1, ProductsAssumption DEF RunningSum

\* The values at the points of T, and zero elsewhere.
At(T, w) == [i \in Indices |-> IF i \in T THEN w[i] ELSE 0]
Ones == [i \in Indices |-> 1]
Mul(v, w) == [i \in Indices |-> v[i] * w[i]]

\* So is the sum over some of the points.
LEMMA AtIs ==
    ASSUME NEW T, NEW w \in [Indices -> Int]
    PROVE  At(T, w) \in [Indices -> Int] /\ AddUp(At(T, w)) \in Int
<1>1. At(T, w) \in [Indices -> Int]
  BY DEF At
<1> QED BY <1>1, AddUpIsInt, Zenon

\* One for every point: the sum is the number of points.
LEMMA SumOfOnes ==
    ASSUME NEW T \in SUBSET Indices PROVE AddUp(At(T, Ones)) = Cardinality(T)
<1> PICK n : n = LawPoints
  OBVIOUS
<1>0. n \in Nat /\ Indices = 1 .. n
  BY ProductsAssumption DEF Indices
<1>1. PICK f : f = At(T, Ones)
  OBVIOUS
<1>2. f \in [Indices -> Int] /\ \A i \in Indices : f[i] = IF i \in T THEN 1 ELSE 0
  BY <1>1 DEF At, Ones
<1>3. PICK s : RunningSum(s, f) /\ AddUp(f) = s[n]
  BY <1>2, AddUpIs
<1> DEFINE S == {i \in 0 .. n : IsFiniteSet(T \cap (1 .. i)) /\ s[i] = Cardinality(T \cap (1 .. i))}
<1>4. 0 \in S
  <2>1. T \cap (1 .. 0) = {}
    OBVIOUS
  <2>2. IsFiniteSet(T \cap (1 .. 0)) /\ Cardinality(T \cap (1 .. 0)) = 0
    BY <2>1, FS_EmptySet, Zenon
  <2> QED BY <1>0, <1>3, <2>2 DEF RunningSum
<1>5. ASSUME NEW i \in 0 .. n - 1, i \in S PROVE i + 1 \in S
  <2> PICK j : j = i + 1
    OBVIOUS
  <2>1. j \in 1 .. n /\ j - 1 = i /\ j \in 0 .. n /\ i \in 0 .. n
    BY <1>0
  <2>2. s[j] = s[i] + f[j] /\ s[i] \in Int /\ f[j] = IF j \in T THEN 1 ELSE 0
    BY <1>0, <1>2, <1>3, <2>1 DEF RunningSum
  <2> PICK A, B : A = T \cap (1 .. i) /\ B = T \cap (1 .. j)
    OBVIOUS
  <2>3. IsFiniteSet(A) /\ s[i] = Cardinality(A)
    BY <1>5
  <2>4. CASE j \in T
    <3>1. B = A \cup {j} /\ j \notin A
      BY <2>1, <2>4
    <3>2. IsFiniteSet(A \cup {j}) /\ Cardinality(A \cup {j}) = Cardinality(A) + 1
      BY <2>3, <3>1, FS_AddElement, Zenon
    <3>3. IsFiniteSet(B) /\ Cardinality(B) = Cardinality(A) + 1
      BY <3>1, <3>2, Zenon
    <3> QED BY <2>1, <2>2, <2>3, <2>4, <3>3
  <2>5. CASE j \notin T
    <3>1. B = A
      BY <2>1, <2>5
    <3>2. s[j] = s[i]
      BY <2>2, <2>5
    <3> QED BY <2>1, <2>3, <3>1, <3>2
  <2> QED BY <2>4, <2>5
<1> HIDE DEF S
<1>6. n \in S
  <2>1. \A i \in 0 .. n : i \in S
    BY <1>0, <1>4, <1>5, InductionUpTo
  <2> QED BY <1>0, <2>1
<1>7. T \cap (1 .. n) = T
  BY <1>0
<1> QED BY <1>1, <1>3, <1>6, <1>7 DEF S

\* The sums of a fit.
LEMMA FitIs ==
    ASSUME NEW x \in [Indices -> Int], NEW y \in [Indices -> Int], NEW T
    PROVE  /\ Denominator(x, T) = Cardinality(T) * AddUp(At(T, Mul(x, x))) - AddUp(At(T, x)) * AddUp(At(T, x))
           /\ SlopeNumerator(x, y, T) = Cardinality(T) * AddUp(At(T, Mul(x, y))) - AddUp(At(T, x)) * AddUp(At(T, y))
           /\ LinearFit(x, y, T) =
                [slope     |-> Cardinality(T) * SlopeNumerator(x, y, T),
                 intercept |-> AddUp(At(T, y)) * Denominator(x, T) - SlopeNumerator(x, y, T) * AddUp(At(T, x)),
                 over      |-> Cardinality(T) * Denominator(x, T)]
<1>1. ASSUME NEW v \in [Indices -> Int], NEW w \in [Indices -> Int]
      PROVE  [i \in Indices |-> IF i \in T THEN v[i] * w[i] ELSE 0] = At(T, Mul(v, w))
  BY DEF At, Mul
<1>2. /\ [i \in Indices |-> IF i \in T THEN x[i] * x[i] ELSE 0] = At(T, Mul(x, x))
      /\ [i \in Indices |-> IF i \in T THEN x[i] * y[i] ELSE 0] = At(T, Mul(x, y))
  BY <1>1, Zenon
<1>3. Denominator(x, T) = Cardinality(T) * AddUp(At(T, Mul(x, x))) - AddUp(At(T, x)) * AddUp(At(T, x))
  BY <1>2, Zenon DEF Denominator, SumOver, At
<1>4. SlopeNumerator(x, y, T) = Cardinality(T) * AddUp(At(T, Mul(x, y))) - AddUp(At(T, x)) * AddUp(At(T, y))
  BY <1>2, Zenon DEF SlopeNumerator, SumOver, At
<1>5. LinearFit(x, y, T) =
                [slope     |-> Cardinality(T) * SlopeNumerator(x, y, T),
                 intercept |-> AddUp(At(T, y)) * Denominator(x, T) - SlopeNumerator(x, y, T) * AddUp(At(T, x)),
                 over      |-> Cardinality(T) * Denominator(x, T)]
  BY Zenon DEF LinearFit, SumOver, At
<1> QED BY <1>3, <1>4, <1>5, Zenon

\* How far the line a, b over o is off at each point.
Residual(a, b, o, x, y) == [i \in Indices |-> a * x[i] + b - o * y[i]]

\* The squared residuals of a line, as a sum of products.
LEMMA SquaresAre ==
    ASSUME NEW x \in [Indices -> Int], NEW y \in [Indices -> Int], NEW T,
           NEW a \in Int, NEW b \in Int, NEW o \in Int
    PROVE  /\ Residual(a, b, o, x, y) \in [Indices -> Int]
           /\ Squares([slope |-> a, intercept |-> b, over |-> o], x, y, T)
                  = AddUp(At(T, Mul(Residual(a, b, o, x, y), Residual(a, b, o, x, y))))
<1> PICK e : e = Residual(a, b, o, x, y)
  OBVIOUS
<1>1. e \in [Indices -> Int] /\ \A i \in Indices : e[i] = a * x[i] + b - o * y[i]
  BY DEF Residual
<1>2. [i \in Indices |-> IF i \in T THEN (a * x[i] + b - o * y[i]) * (a * x[i] + b - o * y[i]) ELSE 0] = At(T, Mul(e, e))
  BY <1>1 DEF At, Mul
<1>3. Squares([slope |-> a, intercept |-> b, over |-> o], x, y, T)
        = AddUp([i \in Indices |-> IF i \in T THEN (a * x[i] + b - o * y[i]) * (a * x[i] + b - o * y[i]) ELSE 0])
  BY Zenon DEF Squares, SumOver
<1> QED BY <1>1, <1>2, <1>3, Zenon

\* A combination point by point, at the points of T.
LEMMA AtOfThree ==
    ASSUME NEW T, NEW h, NEW k, NEW f, NEW l, NEW g, NEW m, NEW u, Combined(h, k, f, l, g, m, u)
    PROVE  AddUp(At(T, h)) = k * AddUp(At(T, f)) + l * AddUp(At(T, g)) + m * AddUp(At(T, u))
<1>0. PICK F, G, U, H : F = At(T, f) /\ G = At(T, g) /\ U = At(T, u) /\ H = At(T, h)
  OBVIOUS
<1>1. F \in [Indices -> Int] /\ G \in [Indices -> Int] /\ U \in [Indices -> Int] /\ H \in [Indices -> Int]
  BY <1>0, AtIs, Zenon DEF Combined
<1>2. ASSUME NEW i \in Indices PROVE H[i] = k * F[i] + l * G[i] + m * U[i]
  <2>1. CASE i \in T
    <3>1. H[i] = h[i] /\ F[i] = f[i] /\ G[i] = g[i] /\ U[i] = u[i]
      BY <1>0, <2>1 DEF At
    <3> QED BY <3>1 DEF Combined
  <2>2. CASE i \notin T
    <3>1. H[i] = 0 /\ F[i] = 0 /\ G[i] = 0 /\ U[i] = 0
      BY <1>0, <2>2 DEF At
    <3> QED BY <3>1 DEF Combined
  <2> QED BY <2>1, <2>2
<1>3. AddUp(H) = k * AddUp(F) + l * AddUp(G) + m * AddUp(U)
  <2>1. Combined(H, k, F, l, G, m, U)
    BY <1>1, <1>2, Zenon DEF Combined
  <2> QED BY <2>1, SumOfThree, SMT
<1> QED BY <1>0, <1>3, Zenon

\* A square is not negative.
LEMMA SquareIsNat == \A z \in Int : z * z >= 0
<1>1. \A z \in Int : z >= 0 => z * z >= 0
  OBVIOUS
<1>2. \A z \in Int : z < 0 => z * z >= 0
  OBVIOUS
<1> QED BY <1>1, <1>2

\* Nor is a sum of squares.
LEMMA SquaresAtNat ==
    ASSUME NEW T, NEW w \in [Indices -> Int] PROVE AddUp(At(T, Mul(w, w))) >= 0
<1> PICK f : f = At(T, Mul(w, w))
  OBVIOUS
<1>1. Mul(w, w) \in [Indices -> Int]
  BY DEF Mul
<1>2. f \in [Indices -> Int]
  BY <1>1, AtIs
<1>3. ASSUME NEW i \in Indices PROVE f[i] >= 0
  <2>1. w[i] * w[i] >= 0
    BY SquareIsNat
  <2>2. f[i] = w[i] * w[i] \/ f[i] = 0
    BY DEF At, Mul
  <2> QED BY <2>1, <2>2
<1> QED BY <1>2, <1>3, SumOfSquares

\* The normal equations: the residuals of the fit, and their products with x, add up to
\* nothing.
LEMMA NormalEquations ==
    \A n, p, q, pp, pq \in Int :
        LET d == n * pp - p * p
            m == n * pq - p * q
            a == n * m
            b == q * d - m * p
            o == n * d
        IN  a * p + b * n + (-o) * q = 0 /\ a * pp + b * p + (-o) * pq = 0
OBVIOUS

\* Products are taken point by point.
LEMMA MulIs ==
    ASSUME NEW v \in [Indices -> Int], NEW w \in [Indices -> Int]
    PROVE  Mul(v, w) \in [Indices -> Int] /\ \A i \in Indices : Mul(v, w)[i] = v[i] * w[i]
BY DEF Mul

\* n times the denominator is a sum of squares.
LEMMA DenominatorIsNat ==
    ASSUME NEW x \in [Indices -> Int], NEW T \in SUBSET Indices, NEW n \in Int, n = Cardinality(T),
           NEW p \in Int, p = AddUp(At(T, x)), NEW pp \in Int, pp = AddUp(At(T, Mul(x, x)))
    PROVE  n * (n * pp - p * p) >= 0
<1> PICK w : w = [i \in Indices |-> n * x[i] - p]
  OBVIOUS
<1> PICK v, u, one : v = Mul(w, w) /\ u = Mul(x, x) /\ one = Ones
  OBVIOUS
<1>1. w \in [Indices -> Int] /\ one \in [Indices -> Int] /\ \A i \in Indices : one[i] = 1 /\ w[i] = n * x[i] - p
  BY DEF Ones
<1>2. v \in [Indices -> Int] /\ u \in [Indices -> Int] /\ \A i \in Indices : v[i] = w[i] * w[i] /\ u[i] = x[i] * x[i]
  <2>1. v \in [Indices -> Int] /\ \A i \in Indices : v[i] = w[i] * w[i]
    BY <1>1, MulIs, Zenon
  <2>2. u \in [Indices -> Int] /\ \A i \in Indices : u[i] = x[i] * x[i]
    BY MulIs, Zenon
  <2> QED BY <2>1, <2>2, Zenon
<1> PICK k, l, m : k = n * n /\ l = -(2 * n * p) /\ m = p * p
  OBVIOUS
<1>3. k \in Int /\ l \in Int /\ m \in Int
  OBVIOUS
<1>4. ASSUME NEW i \in Indices PROVE v[i] = k * u[i] + l * x[i] + m * one[i]
  <2>1. \A z \in Int : (n * z - p) * (n * z - p) = (n * n) * (z * z) + (-(2 * n * p)) * z + (p * p) * 1
    OBVIOUS
  <2>2. x[i] \in Int
    OBVIOUS
  <2>3. v[i] = (n * x[i] - p) * (n * x[i] - p) /\ u[i] = x[i] * x[i] /\ one[i] = 1
    BY <1>1, <1>2
  <2>4. (n * x[i] - p) * (n * x[i] - p) = (n * n) * (x[i] * x[i]) + (-(2 * n * p)) * x[i] + (p * p) * 1
    BY <2>1, <2>2, Zenon
  <2> QED BY <2>3, <2>4, Zenon
<1>5. AddUp(At(T, v)) = k * AddUp(At(T, u)) + l * AddUp(At(T, x)) + m * AddUp(At(T, one))
  <2>1. Combined(v, k, u, l, x, m, one)
    BY <1>1, <1>2, <1>3, <1>4, Zenon DEF Combined
  <2> QED BY <2>1, AtOfThree, SMT
<1>6. AddUp(At(T, v)) >= 0
  BY <1>1, SquaresAtNat, Zenon
<1>7. AddUp(At(T, one)) = n /\ AddUp(At(T, x)) = p /\ AddUp(At(T, u)) = pp
  BY SumOfOnes, Zenon
<1>8. (n * n) * pp + (-(2 * n * p)) * p + (p * p) * n >= 0
  BY <1>5, <1>6, <1>7, Zenon
<1>9. (n * n) * pp + (-(2 * n * p)) * p + (p * p) * n = n * (n * pp - p * p)
  OBVIOUS
<1> QED BY <1>8, <1>9

\* A line whose residuals are in balance fits best.
LEMMA BalancedIsBest ==
    ASSUME NEW T, NEW x \in [Indices -> Int], NEW e \in [Indices -> Int], NEW f \in [Indices -> Int],
           NEW a \in Int, NEW b \in Int, \A i \in Indices : f[i] = e[i] + (a * x[i] + b),
           AddUp(At(T, e)) = 0, AddUp(At(T, Mul(e, x))) = 0
    PROVE  AddUp(At(T, Mul(e, e))) <= AddUp(At(T, Mul(f, f)))
<1> PICK w : w = [i \in Indices |-> a * x[i] + b]
  OBVIOUS
<1>1. w \in [Indices -> Int] /\ \A i \in Indices : w[i] = a * x[i] + b
  OBVIOUS
<1> PICK ee, ff, ww, ex : ee = Mul(e, e) /\ ff = Mul(f, f) /\ ww = Mul(w, w) /\ ex = Mul(e, x)
  OBVIOUS
<1>2. /\ ee \in [Indices -> Int] /\ ff \in [Indices -> Int] /\ ww \in [Indices -> Int] /\ ex \in [Indices -> Int]
      /\ \A i \in Indices : ee[i] = e[i] * e[i] /\ ff[i] = f[i] * f[i] /\ ww[i] = w[i] * w[i] /\ ex[i] = e[i] * x[i]
  <2>1. ee \in [Indices -> Int] /\ \A i \in Indices : ee[i] = e[i] * e[i]
    BY MulIs, Zenon
  <2>2. ff \in [Indices -> Int] /\ \A i \in Indices : ff[i] = f[i] * f[i]
    BY MulIs, Zenon
  <2>3. ww \in [Indices -> Int] /\ \A i \in Indices : ww[i] = w[i] * w[i]
    BY <1>1, MulIs, Zenon
  <2>4. ex \in [Indices -> Int] /\ \A i \in Indices : ex[i] = e[i] * x[i]
    BY MulIs, Zenon
  <2> QED BY <2>1, <2>2, <2>3, <2>4, Zenon
<1> PICK g : g = [i \in Indices |-> ee[i] + ww[i]]
  OBVIOUS
<1>3. g \in [Indices -> Int] /\ \A i \in Indices : g[i] = 1 * ee[i] + 1 * ww[i] + 0 * ex[i]
  <2>2. \A i \in Indices : ee[i] \in Int /\ ww[i] \in Int /\ ex[i] \in Int
    <3>1. ASSUME NEW F \in [Indices -> Int] PROVE \A i \in Indices : F[i] \in Int
      OBVIOUS
    <3> QED BY <1>2, <3>1, Zenon
  <2>1. g \in [Indices -> Int] /\ \A i \in Indices : g[i] = ee[i] + ww[i]
    <3>1. \A i \in Indices : ee[i] + ww[i] \in Int
      BY <2>2
    <3> QED BY <3>1, Zenon
  <2> QED BY <2>1, <2>2
<1>4. AddUp(At(T, g)) = 1 * AddUp(At(T, ee)) + 1 * AddUp(At(T, ww)) + 0 * AddUp(At(T, ex))
  <2>1. Combined(g, 1, ee, 1, ww, 0, ex) 
    BY <1>2, <1>3 DEF Combined
  <2>2. PICK j, z : j = 1 /\ z = 0
    OBVIOUS
  <2>3. Combined(g, j, ee, j, ww, z, ex)
    BY <2>1, <2>2, Zenon
  <2>4. AddUp(At(T, g)) = j * AddUp(At(T, ee)) + j * AddUp(At(T, ww)) + z * AddUp(At(T, ex))
    BY <2>3, AtOfThree, SMT
  <2> QED BY <2>2, <2>4, Zenon
<1>5. PICK l, m : l = 2 * a /\ m = 2 * b
  OBVIOUS
<1>6. l \in Int /\ m \in Int
  BY <1>5
<1>7. ASSUME NEW i \in Indices PROVE ff[i] = 1 * g[i] + l * ex[i] + m * e[i]
  <2>1. \A s, z \in Int : (s + (a * z + b)) * (s + (a * z + b)) = (s * s + (a * z + b) * (a * z + b)) + (2 * a) * (s * z) + (2 * b) * s
    OBVIOUS
  <2>2. e[i] \in Int /\ x[i] \in Int
    OBVIOUS
  <2>3. ff[i] = (e[i] + (a * x[i] + b)) * (e[i] + (a * x[i] + b))
    BY <1>2
  <2>4. ff[i] = (e[i] * e[i] + (a * x[i] + b) * (a * x[i] + b)) + (2 * a) * (e[i] * x[i]) + (2 * b) * e[i]
    BY <2>1, <2>2, <2>3, Zenon
  <2>5. g[i] = e[i] * e[i] + (a * x[i] + b) * (a * x[i] + b) /\ ex[i] = e[i] * x[i] /\ g[i] \in Int
    BY <1>1, <1>2, <1>3
  <2>6. 1 * g[i] = g[i]
    BY <2>5
  <2> QED BY <1>5, <2>4, <2>5, <2>6, Zenon
<1>8. AddUp(At(T, ff)) = 1 * AddUp(At(T, g)) + l * AddUp(At(T, ex)) + m * AddUp(At(T, e))
  <2>1. Combined(ff, 1, g, l, ex, m, e) 
    BY <1>2, <1>3, <1>6, <1>7 DEF Combined
  <2> QED BY <2>1, AtOfThree, SMT
<1>9. AddUp(At(T, ww)) >= 0 /\ AddUp(At(T, ww)) \in Int /\ AddUp(At(T, ee)) \in Int /\ AddUp(At(T, g)) \in Int
  BY <1>1, <1>2, <1>3, SquaresAtNat, AtIs, Zenon
<1>10. AddUp(At(T, e)) = 0 /\ AddUp(At(T, ex)) = 0
  BY Zenon
<1>11. AddUp(At(T, g)) = AddUp(At(T, ee)) + AddUp(At(T, ww))
  BY <1>4, <1>9, <1>10
<1>12. AddUp(At(T, ff)) = AddUp(At(T, g))
  BY <1>6, <1>8, <1>9, <1>10
<1>13. AddUp(At(T, ee)) <= AddUp(At(T, ff))
  BY <1>9, <1>11, <1>12
<1> QED BY <1>13, Zenon

\* The fit of _linear_fit is the best line, and its denominator is positive.
LEMMA LeastSquares ==
    ASSUME NEW x \in [Indices -> Int], NEW y \in [Indices -> Int], NEW T \in SUBSET Indices,
           Cardinality(T) >= 2, Denominator(x, T) # 0,
           NEW line, line = LinearFit(x, y, T)
    PROVE  /\ line.over > 0
           /\ \A s, c \in Int :
                  Squares(line, x, y, T)
                      <= Squares([slope |-> s * line.over, intercept |-> c * line.over, over |-> line.over], x, y, T)
<1> PICK xx, xy, one : xx = Mul(x, x) /\ xy = Mul(x, y) /\ one = Ones
  OBVIOUS
<1>1. /\ xx \in [Indices -> Int] /\ xy \in [Indices -> Int] /\ one \in [Indices -> Int]
      /\ \A i \in Indices : xx[i] = x[i] * x[i] /\ xy[i] = x[i] * y[i] /\ one[i] = 1
  <2>1. one \in [Indices -> Int] /\ \A i \in Indices : one[i] = 1
    BY DEF Ones
  <2> QED BY <2>1, MulIs, Zenon
<1>2. PICK n, p, q, pp, pq : /\ n = AddUp(At(T, one)) /\ p = AddUp(At(T, x)) /\ q = AddUp(At(T, y))
                             /\ pp = AddUp(At(T, xx)) /\ pq = AddUp(At(T, xy))
  OBVIOUS
<1>3. n \in Int /\ p \in Int /\ q \in Int /\ pp \in Int /\ pq \in Int
  BY <1>1, <1>2, AtIs, Zenon
<1>4. n = Cardinality(T)
  BY <1>2, SumOfOnes, Zenon
<1>5. PICK d, m : d = n * pp - p * p /\ m = n * pq - p * q
  OBVIOUS
<1>6. PICK a, b, o : a = n * m /\ b = q * d - m * p /\ o = n * d
  OBVIOUS
<1>7. d \in Int /\ m \in Int /\ a \in Int /\ b \in Int /\ o \in Int
  BY <1>3, <1>5, <1>6
<1>8. Denominator(x, T) = d /\ SlopeNumerator(x, y, T) = m
  <2>1. Denominator(x, T) = Cardinality(T) * AddUp(At(T, Mul(x, x))) - AddUp(At(T, x)) * AddUp(At(T, x))
    BY FitIs, Zenon
  <2>2. SlopeNumerator(x, y, T) = Cardinality(T) * AddUp(At(T, Mul(x, y))) - AddUp(At(T, x)) * AddUp(At(T, y))
    BY FitIs, Zenon
  <2> QED BY <1>2, <1>4, <1>5, <2>1, <2>2, Zenon
<1>9. line = [slope |-> a, intercept |-> b, over |-> o]
  <2>1. line =
                [slope     |-> Cardinality(T) * SlopeNumerator(x, y, T),
                 intercept |-> AddUp(At(T, y)) * Denominator(x, T) - SlopeNumerator(x, y, T) * AddUp(At(T, x)),
                 over      |-> Cardinality(T) * Denominator(x, T)]
    BY FitIs, Zenon
  <2> QED BY <1>2, <1>4, <1>6, <1>8, <2>1, Zenon
<1>10. n >= 2 /\ d # 0
  BY <1>4, <1>8
<1>11. o > 0
  <2>1. n * (n * pp - p * p) >= 0
    BY <1>2, <1>3, <1>4, DenominatorIsNat, Zenon
  <2>2. n * d >= 0
    BY <1>5, <2>1, Zenon
  <2>3. \A u, v \in Int : u >= 2 /\ v # 0 /\ u * v >= 0 => u * v > 0
    OBVIOUS
  <2> QED BY <1>3, <1>6, <1>7, <1>10, <2>2, <2>3
<1>12. PICK e : e = Residual(a, b, o, x, y)
  OBVIOUS
<1>13. e \in [Indices -> Int] /\ Squares(line, x, y, T) = AddUp(At(T, Mul(e, e)))
  <2>1. /\ Residual(a, b, o, x, y) \in [Indices -> Int]
        /\ Squares([slope |-> a, intercept |-> b, over |-> o], x, y, T)
               = AddUp(At(T, Mul(Residual(a, b, o, x, y), Residual(a, b, o, x, y))))
    BY <1>7, SquaresAre
  <2> QED BY <1>9, <1>12, <2>1, Zenon
<1>14. \A i \in Indices : e[i] = a * x[i] + b - o * y[i]
  BY <1>12 DEF Residual
<1>15. PICK r : r = -o
  OBVIOUS
<1>16. r \in Int /\ a * p + b * n + r * q = 0 /\ a * pp + b * p + r * pq = 0
  BY <1>3, <1>5, <1>6, <1>7, <1>15, NormalEquations
<1>17. AddUp(At(T, e)) = 0
  <2>1. \A i \in Indices : e[i] = a * x[i] + b * one[i] + r * y[i]
    BY <1>1, <1>7, <1>14, <1>15
  <2>2. AddUp(At(T, e)) = a * AddUp(At(T, x)) + b * AddUp(At(T, one)) + r * AddUp(At(T, y))
    <3>1. Combined(e, a, x, b, one, r, y)
      BY <1>1, <1>7, <1>13, <1>16, <2>1, Zenon DEF Combined
    <3> QED BY <3>1, AtOfThree, SMT
  <2> QED BY <1>2, <1>16, <2>2, Zenon
<1>18. AddUp(At(T, Mul(e, x))) = 0
  <2> PICK ex : ex = Mul(e, x)
    OBVIOUS
  <2>1. ex \in [Indices -> Int] /\ \A i \in Indices : ex[i] = e[i] * x[i]
    BY <1>13, MulIs
  <2>2. ASSUME NEW i \in Indices PROVE ex[i] = a * xx[i] + b * x[i] + r * xy[i]
    <3>1. \A u, v \in Int : (a * u + b - o * v) * u = a * (u * u) + b * u + (-o) * (u * v)
      BY <1>7
    <3>2. x[i] \in Int /\ y[i] \in Int
      OBVIOUS
    <3>3. ex[i] = (a * x[i] + b - o * y[i]) * x[i]
      BY <1>14, <2>1
    <3>4. ex[i] = a * (x[i] * x[i]) + b * x[i] + (-o) * (x[i] * y[i])
      BY <3>1, <3>2, <3>3, Zenon
    <3> QED BY <1>1, <1>15, <3>4, Zenon
  <2>3. AddUp(At(T, ex)) = a * AddUp(At(T, xx)) + b * AddUp(At(T, x)) + r * AddUp(At(T, xy))
    <3>1. Combined(ex, a, xx, b, x, r, xy)
      BY <1>1, <1>7, <1>16, <2>1, <2>2, Zenon DEF Combined
    <3> QED BY <3>1, AtOfThree, SMT
  <2> QED BY <1>2, <1>16, <2>3, Zenon
<1>19. ASSUME NEW s \in Int, NEW c \in Int
       PROVE  Squares(line, x, y, T)
                  <= Squares([slope |-> s * line.over, intercept |-> c * line.over, over |-> line.over], x, y, T)
  <2>1. PICK u, v : u = s * o /\ v = c * o
    OBVIOUS
  <2>2. u \in Int /\ v \in Int
    BY <1>7, <2>1
  <2>3. line.over = o
    BY <1>9
  <2>4. PICK f : f = Residual(u, v, o, x, y)
    OBVIOUS
  <2>5. f \in [Indices -> Int]
        /\ Squares([slope |-> u, intercept |-> v, over |-> o], x, y, T) = AddUp(At(T, Mul(f, f)))
    <3>1. /\ Residual(u, v, o, x, y) \in [Indices -> Int]
          /\ Squares([slope |-> u, intercept |-> v, over |-> o], x, y, T)
               = AddUp(At(T, Mul(Residual(u, v, o, x, y), Residual(u, v, o, x, y))))
      BY <1>7, <2>2, SquaresAre
    <3> QED BY <2>4, <3>1, Zenon
  <2>6. PICK g, h : g = u - a /\ h = v - b
    OBVIOUS
  <2>7. g \in Int /\ h \in Int
    BY <1>7, <2>2, <2>6
  <2>8. ASSUME NEW i \in Indices PROVE f[i] = e[i] + (g * x[i] + h)
    <3>1. f[i] = u * x[i] + v - o * y[i]
      BY <2>4 DEF Residual
    <3>2. e[i] = a * x[i] + b - o * y[i] /\ x[i] \in Int /\ y[i] \in Int
      BY <1>14
    <3>3. \A z, w \in Int : u * z + v - o * w = (a * z + b - o * w) + ((u - a) * z + (v - b))
      BY <1>7, <2>2
    <3> QED BY <2>6, <3>1, <3>2, <3>3, Zenon
  <2>9. AddUp(At(T, Mul(e, e))) <= AddUp(At(T, Mul(f, f)))
    BY <1>13, <1>17, <1>18, <2>5, <2>7, <2>8, BalancedIsBest
  <2> QED BY <1>13, <2>1, <2>3, <2>5, <2>9, Zenon
<1>20. line.over > 0
  BY <1>9, <1>11
<1> QED BY <1>19, <1>20

\* The fitted line has integer coefficients over a common denominator.
LEMMA FitIsInt ==
    ASSUME NEW x \in [Indices -> Int], NEW y \in [Indices -> Int], NEW T \in SUBSET Indices
    PROVE  \E a \in Int, b \in Int, o \in Int : LinearFit(x, y, T) = [slope |-> a, intercept |-> b, over |-> o]
<1>1. PICK n, p, q, pp, pq : /\ n = AddUp(At(T, Ones)) /\ p = AddUp(At(T, x)) /\ q = AddUp(At(T, y))
                             /\ pp = AddUp(At(T, Mul(x, x))) /\ pq = AddUp(At(T, Mul(x, y)))
  OBVIOUS
<1>2. Ones \in [Indices -> Int] /\ Mul(x, x) \in [Indices -> Int] /\ Mul(x, y) \in [Indices -> Int]
  BY DEF Ones, Mul
<1>3. n \in Int /\ p \in Int /\ q \in Int /\ pp \in Int /\ pq \in Int
  BY <1>1, <1>2, AtIs, Zenon
<1>4. n = Cardinality(T)
  BY <1>1, SumOfOnes, Zenon
<1>5. PICK d, m : d = n * pp - p * p /\ m = n * pq - p * q
  OBVIOUS
<1>6. PICK a, b, o : a = n * m /\ b = q * d - m * p /\ o = n * d
  OBVIOUS
<1>7. a \in Int /\ b \in Int /\ o \in Int
  BY <1>3, <1>5, <1>6
<1>8. Denominator(x, T) = d
  <2>1. Denominator(x, T) = Cardinality(T) * AddUp(At(T, Mul(x, x))) - AddUp(At(T, x)) * AddUp(At(T, x))
    BY FitIs, Zenon
  <2> QED BY <1>1, <1>4, <1>5, <2>1, Zenon
<1>9. SlopeNumerator(x, y, T) = m
  <2>1. SlopeNumerator(x, y, T) = Cardinality(T) * AddUp(At(T, Mul(x, y))) - AddUp(At(T, x)) * AddUp(At(T, y))
    BY FitIs, Zenon
  <2> QED BY <1>1, <1>4, <1>5, <2>1, Zenon
<1>10. LinearFit(x, y, T) = [slope |-> a, intercept |-> b, over |-> o]
  <2>1. LinearFit(x, y, T) =
                [slope     |-> Cardinality(T) * SlopeNumerator(x, y, T),
                 intercept |-> AddUp(At(T, y)) * Denominator(x, T) - SlopeNumerator(x, y, T) * AddUp(At(T, x)),
                 over      |-> Cardinality(T) * Denominator(x, T)]
    BY FitIs, Zenon
  <2> QED BY <1>1, <1>4, <1>6, <1>8, <1>9, <2>1, Zenon
<1> QED BY <1>7, <1>10, Zenon

\* A law that is being fitted: a line is the fit of enough points that are not all at
\* one place, and no candidate is reported against a null that is the line itself.
LawFacts(x, y, T, L, R) ==
    /\ x \in [Indices -> Int] /\ y \in [Indices -> Int]
    /\ L # {} => /\ T \in SUBSET Indices /\ Cardinality(T) >= 2 /\ Denominator(x, T) # 0
                 /\ L = {LinearFit(x, y, T)}
    /\ \A line \in L, r \in R : r.null = line => r.status = "null_or_inconclusive"
    /\ R # {} => L # {}
LawRecord(x, y, T, V, L, R, E) ==
    [x |-> x, y |-> y, train |-> T, validation |-> V, line |-> L, receipt |-> R, error |-> E]
LawInv ==
    subject = "law" =>
        \E x, y, T, V, L, R, E : st = LawRecord(x, y, T, V, L, R, E) /\ LawFacts(x, y, T, L, R)

\* The initial states satisfy the scaling law invariant.
LEMMA LawInits == LawInit => LawInv
<1> SUFFICES ASSUME LawInit PROVE LawInv
  OBVIOUS
<1>1. PICK x \in {x \in [Indices -> LawValues] : \A i, j \in Indices : i < j => x[i] <= x[j]},
          y \in [Indices -> {0, 1}], train \in SUBSET (0 .. LawPoints),
          validation \in AtMostTwo(Indices) :
           /\ Cardinality(train) <= 3
           /\ Cardinality(validation) <= 1
           /\ st = [x |-> x, y |-> y, train |-> train, validation |-> validation,
                    line |-> {}, receipt |-> {}, error |-> FALSE]
  BY Zenon DEF LawInit
<1>2. x \in [Indices -> Int] /\ y \in [Indices -> Int]
  <2>1. LawValues \subseteq Int /\ {0, 1} \subseteq Int
    BY ProductsAssumption
  <2> QED BY <2>1
<1>3. PICK none : none = {}
  OBVIOUS
<1>4. LawFacts(x, y, train, none, none)
  BY <1>2, <1>3, Zenon DEF LawFacts
<1>5. st = LawRecord(x, y, train, validation, none, none, FALSE)
  BY <1>1, <1>3, Zenon DEF LawRecord
<1> QED BY <1>4, <1>5, Zenon DEF LawInv

\* Every step of such a call keeps the scaling law invariant.
LEMMA LawSteps == ASSUME LawInv, FitLaw \/ CompareWithNull PROVE LawInv'
<1>0. subject = "law" /\ subject' = "law"
  BY Zenon DEF FitLaw, CompareWithNull, Step
<1>1. PICK x, y, T, V, L, R, E : st = LawRecord(x, y, T, V, L, R, E) /\ LawFacts(x, y, T, L, R)
  BY <1>0, Zenon DEF LawInv
<1>2. st.x = x /\ st.y = y /\ st.train = T /\ st.validation = V /\ st.line = L /\ st.receipt = R
  BY <1>1 DEF LawRecord
<1>3. CASE FitLaw
  <2>1. L = {} /\ R = {}
    BY <1>1, <1>2, <1>3, Zenon DEF FitLaw, LawFacts
  <2>2. CASE st' = [st EXCEPT !.error = TRUE]
    <3>1. st' = LawRecord(x, y, T, V, L, R, TRUE)
      BY <1>1, <2>2 DEF LawRecord
    <3> QED BY <1>1, <3>1, Zenon DEF LawInv
  <2>3. CASE /\ SplitHolds /\ Cardinality(T) >= 2 /\ Denominator(x, T) # 0
             /\ st' = [st EXCEPT !.line = {LinearFit(x, y, T)}]
    <3> PICK M : M = {LinearFit(x, y, T)}
      OBVIOUS
    <3>1. T \in SUBSET Indices
      BY <1>2, <2>3 DEF SplitHolds
    <3>2. LawFacts(x, y, T, M, R)
      BY <1>1, <2>1, <2>3, <3>1, Zenon DEF LawFacts
    <3>3. st' = LawRecord(x, y, T, V, M, R, E)
      <4>1. ASSUME NEW z, st' = [st EXCEPT !.line = z] PROVE st' = LawRecord(x, y, T, V, z, R, E)
        BY <1>1, <4>1 DEF LawRecord
      <4> QED BY <2>3, <4>1, Zenon
    <3> QED BY <3>2, <3>3, Zenon DEF LawInv
  <2> QED BY <1>2, <1>3, <2>2, <2>3, Zenon DEF FitLaw, Step
<1>4. CASE CompareWithNull
  <2>1. PICK line \in L : \E shuffled \in Shuffles(y, T) :
           LET null == LinearFit(x, shuffled, T)
               beats == Squares(line, x, y, V) < Squares(null, x, y, V)
           IN  Step("law", [st EXCEPT !.receipt =
                   {[status |-> IF beats THEN "candidate_observation" ELSE "null_or_inconclusive",
                     null |-> null]}])
    BY <1>2, <1>4, Zenon DEF CompareWithNull
  <2>2. PICK shuffled \in Shuffles(y, T) :
           LET null == LinearFit(x, shuffled, T)
               beats == Squares(line, x, y, V) < Squares(null, x, y, V)
           IN  Step("law", [st EXCEPT !.receipt =
                   {[status |-> IF beats THEN "candidate_observation" ELSE "null_or_inconclusive",
                     null |-> null]}])
    BY <2>1, Zenon
  <2>3. PICK null : null = LinearFit(x, shuffled, T)
    OBVIOUS
  <2>4. PICK s : s = IF Squares(line, x, y, V) < Squares(null, x, y, V) THEN "candidate_observation" ELSE "null_or_inconclusive"
    OBVIOUS
  <2>5. PICK r : r = [status |-> s, null |-> null]
    OBVIOUS
  <2>6. st' = [st EXCEPT !.receipt = {r}]
    BY <2>2, <2>3, <2>4, <2>5, Zenon DEF Step
  <2>7. st' = LawRecord(x, y, T, V, L, {r}, E)
    <3>1. ASSUME NEW z, st' = [st EXCEPT !.receipt = z] PROVE st' = LawRecord(x, y, T, V, L, z, E)
      BY <1>1, <3>1 DEF LawRecord
    <3> QED BY <2>6, <3>1, Zenon
  <2>8. ASSUME NEW ln \in L, NEW q \in {r}, q.null = ln PROVE q.status = "null_or_inconclusive"
    <3>1. T \in SUBSET Indices /\ L = {LinearFit(x, y, T)} /\ x \in [Indices -> Int] /\ y \in [Indices -> Int]
          /\ Cardinality(T) >= 2 /\ Denominator(x, T) # 0
      BY <1>1, <2>1, Zenon DEF LawFacts
    <3>2. ln = line /\ r.null = null /\ r.status = s /\ q = r
      BY <2>1, <2>5, <3>1
    <3>3. null = line
      BY <2>8, <3>2
    <3>4. Squares(line, x, y, V) \in Int
      <4>1. line = LinearFit(x, y, T)
        BY <2>1, <3>1
      <4>2. PICK a \in Int, b \in Int, o \in Int : line = [slope |-> a, intercept |-> b, over |-> o]
        BY <3>1, <4>1, FitIsInt, Zenon
      <4>3. PICK e : e = Residual(a, b, o, x, y)
        OBVIOUS
      <4>4. e \in [Indices -> Int] /\ Squares(line, x, y, V) = AddUp(At(V, Mul(e, e)))
        <5>1. /\ Residual(a, b, o, x, y) \in [Indices -> Int]
              /\ Squares([slope |-> a, intercept |-> b, over |-> o], x, y, V)
                     = AddUp(At(V, Mul(Residual(a, b, o, x, y), Residual(a, b, o, x, y))))
          BY <3>1, SquaresAre
        <5> QED BY <4>2, <4>3, <5>1, Zenon
      <4>5. Mul(e, e) \in [Indices -> Int]
        BY <4>4, MulIs, Zenon
      <4>6. AddUp(At(V, Mul(e, e))) \in Int
        BY <4>5, AtIs, Zenon
      <4> QED BY <4>4, <4>6, Zenon
    <3>5. ~(Squares(line, x, y, V) < Squares(null, x, y, V))
      <4>1. \A z \in Int : ~(z < z)
        OBVIOUS
      <4> QED BY <3>3, <3>4, <4>1, Zenon
    <3>6. s = "null_or_inconclusive"
      BY <2>4, <3>5, Zenon
    <3> QED BY <3>2, <3>6, Zenon
  <2>9. LawFacts(x, y, T, L, {r})
    BY <1>1, <2>1, <2>8, Zenon DEF LawFacts
  <2> QED BY <2>7, <2>9, Zenon DEF LawInv
<1> QED BY <1>3, <1>4

\* The scaling law invariant gives the property its calls are checked for.
LEMMA LawInvHolds == LawInv => FitIsLeastSquares
<1> SUFFICES ASSUME LawInv, subject = "law", NEW line \in st.line
    PROVE LET own == Squares(line, st.x, st.y, st.train)
            IN  /\ line.over > 0
                /\ \A s, c \in -2 .. 2 :
                       own <= Squares([slope |-> s * line.over, intercept |-> c * line.over,
                                       over |-> line.over], st.x, st.y, st.train)
                /\ \A r \in st.receipt :
                       r.null = line => r.status = "null_or_inconclusive"
  BY Zenon DEF FitIsLeastSquares
<1>1. PICK x, y, T, V, L, R, E : st = LawRecord(x, y, T, V, L, R, E) /\ LawFacts(x, y, T, L, R)
  BY Zenon DEF LawInv
<1>2. st.x = x /\ st.y = y /\ st.train = T /\ st.line = L /\ st.receipt = R
  BY <1>1 DEF LawRecord
<1>3. x \in [Indices -> Int] /\ y \in [Indices -> Int] /\ \A r \in R : r.null = line => r.status = "null_or_inconclusive"
  BY <1>1, <1>2, Zenon DEF LawFacts
<1>4. T \in SUBSET Indices /\ Cardinality(T) >= 2 /\ Denominator(x, T) # 0 /\ L = {LinearFit(x, y, T)}
  BY <1>1, <1>2, Zenon DEF LawFacts
<1>5. line = LinearFit(x, y, T)
  BY <1>2, <1>4
<1>6. /\ line.over > 0
      /\ \A s, c \in Int :
             Squares(line, x, y, T)
                 <= Squares([slope |-> s * line.over, intercept |-> c * line.over, over |-> line.over], x, y, T)
  BY <1>3, <1>4, <1>5, LeastSquares, Zenon
<1>7. \A s \in -2 .. 2 : s \in Int
  OBVIOUS
<1> QED BY <1>2, <1>3, <1>6, <1>7, Zenon
-----------------------------------------------------------------------------
(***************************************************************************)
(* Products: the elimination of a three by three system.                   *)
(***************************************************************************)
\* Identities of whole numbers.
LEMMA Cancel == \A x, y, d \in Int : d # 0 /\ x * d = y * d => x = y
OBVIOUS
\* Integers have no zero divisors.
LEMMA NotZero == \A a, b \in Int : a # 0 /\ b # 0 => a * b # 0
OBVIOUS
\* Integers are closed under product and difference.
LEMMA Whole == \A a, b \in Int : a * b \in Int /\ a - b \in Int
OBVIOUS

\* The fraction f is n over d.
Rep(f, n, d) ==
    /\ f = <<f[1], f[2]>> /\ f[1] \in Int /\ f[2] \in Nat /\ f[2] > 0
    /\ n \in Int /\ d \in Int /\ d # 0 /\ f[1] * d = n * f[2]

\* A reduced fraction represents the pair it was made from.
LEMMA FracRep == ASSUME NEW n \in Int, NEW d \in Int, d # 0 PROVE Rep(Frac(n, d), n, d)
<1>1. CASE d < 0
  <2>1. Frac(n, d) = <<-n, -d>>
    BY <1>1 DEF Frac
  <2>2. -d \in Nat /\ -d > 0 /\ (-n) * d = n * (-d)
    BY <1>1
  <2> QED BY <2>1, <2>2 DEF Rep
<1>2. CASE ~(d < 0)
  <2>1. Frac(n, d) = <<n, d>>
    BY <1>2 DEF Frac
  <2>2. d \in Nat /\ d > 0
    BY <1>2
  <2> QED BY <2>1, <2>2 DEF Rep
<1> QED BY <1>1, <1>2

Proportional(n, d, m, e) == n * e = m * d

\* A fraction in another representation.
LEMMA SameRep ==
    ASSUME NEW f, NEW n \in Int, NEW d \in Int, NEW m \in Int, NEW e \in Int, d # 0, e # 0,
           Rep(f, n, d), Proportional(n, d, m, e)
    PROVE  Rep(f, m, e)
<1> PICK a, b : a = f[1] /\ b = f[2]
  OBVIOUS
<1>1. a \in Int /\ b \in Int
  BY DEF Rep
<1>5. a * d = n * b
  BY DEF Rep
<1>2. (a * e) * d = (m * b) * d
  <2>1. (a * e) * d = (a * d) * e /\ (n * b) * e = (n * e) * b /\ (m * d) * b = (m * b) * d
    BY <1>1
  <2>2. (a * d) * e = (n * b) * e
    BY <1>5, Zenon
  <2>3. (n * e) * b = (m * d) * b
    BY Zenon DEF Proportional
  <2> QED BY <2>1, <2>2, <2>3, Zenon
<1>3. a * e \in Int /\ m * b \in Int
  BY <1>1, Whole, Zenon
<1>4. a * e = m * b
  BY <1>2, <1>3, Cancel, Zenon
<1> QED BY <1>4, Zenon DEF Rep

\* A difference represents the difference.
LEMMA MinusRep ==
    ASSUME NEW a, NEW b, NEW n, NEW d, NEW m, NEW e, Rep(a, n, d), Rep(b, m, e)
    PROVE  Rep(Minus(a, b), n * e - m * d, d * e)
<1>11. PICK a1 \in Int, a2 \in Int, b1 \in Int, b2 \in Int : a1 = a[1] /\ a2 = a[2] /\ b1 = b[1] /\ b2 = b[2]
  BY DEF Rep
<1>1. /\ a1 \in Int /\ a2 \in Int /\ a2 > 0 /\ n \in Int /\ d \in Int /\ d # 0
      /\ b1 \in Int /\ b2 \in Int /\ b2 > 0 /\ m \in Int /\ e \in Int /\ e # 0
  BY <1>11 DEF Rep
<1>10. a1 * d = n * a2 /\ b1 * e = m * b2
  BY <1>11, Zenon DEF Rep
<1>0. PICK x, y : x = a1 * b2 - b1 * a2 /\ y = a2 * b2
  OBVIOUS
<1>2. x \in Int /\ y \in Int /\ y # 0 /\ n * e - m * d \in Int /\ d * e \in Int /\ d * e # 0
  <2>1. a2 # 0 /\ b2 # 0
    BY <1>1
  <2> QED BY <1>0, <1>1, <2>1, NotZero, Whole, Zenon
<1>3. Rep(Frac(x, y), x, y)
  BY <1>2, FracRep, Zenon
<1>4. x * (d * e) = (n * e - m * d) * y
  <2>6. (a1 * b2 - b1 * a2) * (d * e) = (a1 * d) * (b2 * e) - (b1 * e) * (a2 * d)
    <3>1. ASSUME NEW u \in Int, NEW v \in Int PROVE (a1 * b2 - b1 * a2) * (u * v) = (a1 * u) * (b2 * v) - (b1 * v) * (a2 * u)
      OBVIOUS
    <3> QED BY <1>1, <3>1, Zenon
  <2>3. x * (d * e) = (a1 * d) * (b2 * e) - (b1 * e) * (a2 * d)
    BY <1>0, <2>6, Zenon
  <2>5. (n * a2) * (b2 * e) - (m * b2) * (a2 * d) = (n * e - m * d) * (a2 * b2)
    BY <1>1
  <2>4. (n * a2) * (b2 * e) - (m * b2) * (a2 * d) = (n * e - m * d) * y
    BY <1>0, <2>5, Zenon
  <2> QED BY <1>10, <2>3, <2>4, Zenon
<1>5. Rep(Frac(x, y), n * e - m * d, d * e)
  <2>1. PICK g, h : g = n * e - m * d /\ h = d * e
    OBVIOUS
  <2>2. g \in Int /\ h \in Int /\ h # 0 /\ Proportional(x, y, g, h)
    BY <1>2, <1>4, <2>1, Zenon DEF Proportional
  <2>3. Rep(Frac(x, y), g, h)
    BY <1>2, <1>3, <2>2, SameRep, Zenon
  <2> QED BY <2>1, <2>3, Zenon
<1> QED BY <1>0, <1>5, <1>11, Zenon DEF Minus

\* A product represents the product.
LEMMA TimesRep ==
    ASSUME NEW a, NEW b, NEW n, NEW d, NEW m, NEW e, Rep(a, n, d), Rep(b, m, e)
    PROVE  Rep(Times(a, b), n * m, d * e)
<1> PICK a1, a2, b1, b2 : a1 = a[1] /\ a2 = a[2] /\ b1 = b[1] /\ b2 = b[2]
  OBVIOUS
<1>1. /\ a1 \in Int /\ a2 \in Int /\ a2 > 0 /\ n \in Int /\ d \in Int /\ d # 0
      /\ b1 \in Int /\ b2 \in Int /\ b2 > 0 /\ m \in Int /\ e \in Int /\ e # 0
  BY DEF Rep
<1>10. a1 * d = n * a2 /\ b1 * e = m * b2
  BY Zenon DEF Rep
<1>0. PICK x, y : x = a1 * b1 /\ y = a2 * b2
  OBVIOUS
<1>2. x \in Int /\ y \in Int /\ y # 0 /\ n * m \in Int /\ d * e \in Int /\ d * e # 0
  <2>1. a2 # 0 /\ b2 # 0
    BY <1>1
  <2> QED BY <1>0, <1>1, <2>1, NotZero, Whole, Zenon
<1>3. Rep(Frac(x, y), x, y)
  BY <1>2, FracRep, Zenon
<1>4. x * (d * e) = (n * m) * y
  <2>1. x * (d * e) = (a1 * d) * (b1 * e)
    BY <1>0, <1>1
  <2>2. (n * a2) * (m * b2) = (n * m) * y
    BY <1>0, <1>1
  <2> QED BY <1>10, <2>1, <2>2, Zenon
<1>5. Rep(Frac(x, y), n * m, d * e)
  BY <1>2, <1>3, <1>4, SameRep, Zenon DEF Proportional
<1> QED BY <1>0, <1>5, Zenon DEF Times

\* Two entries of one row: their quotient is that of their numerators.
LEMMA QuotientRep ==
    ASSUME NEW a, NEW b, NEW n, NEW m, NEW w, Rep(a, n, w), Rep(b, m, w), m # 0
    PROVE  Rep(Quotient(a, b), n, m)
<1> PICK a1, a2, b1, b2 : a1 = a[1] /\ a2 = a[2] /\ b1 = b[1] /\ b2 = b[2]
  OBVIOUS
<1>1. /\ a1 \in Int /\ a2 \in Int /\ a2 > 0 /\ n \in Int /\ w \in Int /\ w # 0
      /\ b1 \in Int /\ b2 \in Int /\ b2 > 0 /\ m \in Int
  BY DEF Rep
<1>10. a1 * w = n * a2 /\ b1 * w = m * b2
  BY Zenon DEF Rep
<1>2. b1 # 0
  <2>1. b2 # 0
    BY <1>1
  <2>2. m * b2 # 0
    BY <1>1, <2>1, NotZero, Zenon
  <2>3. 0 * w = 0
    BY <1>1
  <2> QED BY <1>10, <2>2, <2>3, Zenon
<1>0. PICK x, y : x = a1 * b2 /\ y = a2 * b1
  OBVIOUS
<1>3. x \in Int /\ y \in Int /\ y # 0
  <2>1. a2 # 0
    BY <1>1
  <2> QED BY <1>0, <1>1, <1>2, <2>1, NotZero, Whole, Zenon
<1>4. Rep(Frac(x, y), x, y)
  BY <1>3, FracRep, Zenon
<1>5. x * m = n * y
  <2>2. (x * m) * w = (a1 * w) * (m * b2) /\ (n * y) * w = (n * a2) * (b1 * w)
    BY <1>0, <1>1
  <2>3. (x * m) * w = (n * y) * w
    BY <1>10, <2>2, Zenon
  <2>4. x * m \in Int /\ n * y \in Int
    BY <1>1, <1>3, Whole, Zenon
  <2>5. w \in Int /\ w # 0
    BY <1>1
  <2> QED BY <2>3, <2>4, <2>5, Cancel
<1>6. Rep(Frac(x, y), n, m)
  BY <1>1, <1>3, <1>4, <1>5, SameRep, Zenon DEF Proportional
<1> QED BY <1>0, <1>6, Zenon DEF Quotient

\* Fractions are equal when cross products are.
LEMMA EqualRep ==
    ASSUME NEW a, NEW b, NEW n, NEW d, NEW m, NEW e, Rep(a, n, d), Rep(b, m, e)
    PROVE  Equal(a, b) <=> n * e = m * d
<1> PICK a1, a2, b1, b2 : a1 = a[1] /\ a2 = a[2] /\ b1 = b[1] /\ b2 = b[2]
  OBVIOUS
<1>1. /\ a1 \in Int /\ a2 \in Int /\ a2 > 0 /\ n \in Int /\ d \in Int /\ d # 0
      /\ b1 \in Int /\ b2 \in Int /\ b2 > 0 /\ m \in Int /\ e \in Int /\ e # 0
  BY DEF Rep
<1>10. a1 * d = n * a2 /\ b1 * e = m * b2
  BY Zenon DEF Rep
<1>2. Equal(a, b) <=> a1 * b2 = b1 * a2
  BY Zenon DEF Equal
<1>3. /\ (a1 * b2) * (d * e) = (a1 * d) * (b2 * e) /\ (b1 * a2) * (d * e) = (b1 * e) * (a2 * d)
      /\ (n * a2) * (b2 * e) = (n * e) * (a2 * b2) /\ (m * b2) * (a2 * d) = (m * d) * (a2 * b2)
  BY <1>1
<1>4. (a1 * b2) * (d * e) = (n * e) * (a2 * b2) /\ (b1 * a2) * (d * e) = (m * d) * (a2 * b2)
  BY <1>3, <1>10, Zenon
<1>6. d * e \in Int /\ d * e # 0 /\ a2 * b2 \in Int /\ a2 * b2 # 0
  <2>1. a2 # 0 /\ b2 # 0
    BY <1>1
  <2> QED BY <1>1, <2>1, NotZero, Whole, Zenon
<1>7. a1 * b2 \in Int /\ b1 * a2 \in Int /\ n * e \in Int /\ m * d \in Int
  BY <1>1, Whole, Zenon
<1>8. ASSUME a1 * b2 = b1 * a2 PROVE n * e = m * d
  <2>1. (n * e) * (a2 * b2) = (m * d) * (a2 * b2)
    BY <1>4, <1>8, Zenon
  <2> QED BY <1>6, <1>7, <2>1, Cancel, Zenon
<1>9. ASSUME n * e = m * d PROVE a1 * b2 = b1 * a2
  <2>1. (a1 * b2) * (d * e) = (b1 * a2) * (d * e)
    BY <1>4, <1>9, Zenon
  <2> QED BY <1>6, <1>7, <2>1, Cancel, Zenon
<1> QED BY <1>2, <1>8, <1>9, Zenon

\* A fraction with a positive denominator.
IsFrac(f) == f[1] \in Int /\ f[2] \in Nat /\ f[2] > 0

\* Only zero has no magnitude.
LEMMA AbsIs == ASSUME NEW n \in Int PROVE Abs(n) \in Nat /\ (Abs(n) = 0 => n = 0)
BY DEF Abs

\* Cross products order fractions transitively.
LEMMA CrossOrder ==
    ASSUME NEW A \in Nat, NEW B \in Nat, NEW C \in Nat, NEW a \in Nat, NEW b \in Nat, NEW c \in Nat,
           a > 0, b > 0, c > 0, A * b > B * a, ~(C * b > B * c)
    PROVE  A * c > C * a
<1>1. \A x, y, z \in Int : z > 0 /\ x > y => x * z > y * z
  OBVIOUS
<1>2. \A x, y, z \in Int : z > 0 /\ ~(x > y) => ~(x * z > y * z)
  OBVIOUS
<1>3. PICK p \in Int, q \in Int, r \in Int, s \in Int : p = A * b /\ q = B * a /\ r = C * b /\ s = B * c
  OBVIOUS
<1>4. p > q /\ ~(r > s)
  BY <1>3, Zenon
<1>5. p * c > q * c /\ ~(r * a > s * a)
  BY <1>1, <1>2, <1>4
<1>6. p * c = (A * c) * b /\ r * a = (C * a) * b /\ q * c = s * a
  <2>1. (A * b) * c = (A * c) * b
    OBVIOUS
  <2>2. (C * b) * a = (C * a) * b
    OBVIOUS
  <2>3. (B * a) * c = (B * c) * a
    OBVIOUS
  <2> QED BY <1>3, <2>1, <2>2, <2>3, Zenon
<1>7. PICK u \in Int, v \in Int, x \in Int, y \in Int : u = p * c /\ v = q * c /\ x = r * a /\ y = s * a
  OBVIOUS
<1>8. u > v /\ ~(x > y) /\ v = y
  BY <1>5, <1>6, <1>7, Zenon
<1>9. u > x
  BY <1>8
<1>10. (A * c) * b > (C * a) * b
  BY <1>6, <1>7, <1>9, Zenon
<1>11. \A g, h \in Int : g * b > h * b => g > h
  OBVIOUS
<1>12. A * c \in Int /\ C * a \in Int
  OBVIOUS
<1> QED BY <1>10, <1>11, <1>12, Zenon

\* So magnitude orders them.
LEMMA LargerOrder ==
    ASSUME NEW x, NEW y, NEW z, IsFrac(x), IsFrac(y), IsFrac(z)
    PROVE  /\ Larger(x, y) => ~Larger(y, x)
           /\ Larger(x, y) /\ ~Larger(z, y) => Larger(x, z)
<1>1. PICK A \in Nat, B \in Nat, C \in Nat, a \in Nat, b \in Nat, c \in Nat :
        /\ A = Abs(x[1]) /\ B = Abs(y[1]) /\ C = Abs(z[1]) /\ a = x[2] /\ b = y[2] /\ c = z[2]
        /\ a > 0 /\ b > 0 /\ c > 0
  BY AbsIs, Zenon DEF IsFrac
<1>2. (Larger(x, y) <=> A * b > B * a) /\ (Larger(y, x) <=> B * a > A * b)
      /\ (Larger(z, y) <=> C * b > B * c) /\ (Larger(x, z) <=> A * c > C * a)
  BY <1>1, Zenon DEF Larger
<1>3. A * b > B * a => ~(B * a > A * b)
  <2>1. \A g, h \in Int : g > h => ~(h > g)
    OBVIOUS
  <2>2. A * b \in Int /\ B * a \in Int
    OBVIOUS
  <2> QED BY <2>1, <2>2, Zenon
<1>4. ASSUME A * b > B * a, ~(C * b > B * c) PROVE A * c > C * a
  BY <1>1, <1>4, CrossOrder, Zenon
<1> QED BY <1>2, <1>3, <1>4, Zenon

\* There is a first largest entry.
LEMMA BestRowIs ==
    ASSUME NEW p \in Three, \A i \in Three : IsFrac(st.rows[i][p])
    PROVE  BestRow(p) \in p .. 3 /\ \A q \in p .. 3 : ~Larger(st.rows[q][p], st.rows[BestRow(p)][p])
<1> DEFINE L(q, r) == Larger(st.rows[q][p], st.rows[r][p])
           Best(r) == (\A q \in p .. 3 : ~L(q, r)) /\ \A q \in p .. r - 1 : L(r, q)
<1>1. ASSUME NEW x \in Three, NEW y \in Three, NEW z \in Three
      PROVE  (L(x, y) => ~L(y, x)) /\ (L(x, y) /\ ~L(z, y) => L(x, z))
  BY <1>1, LargerOrder, Zenon
<1>2. \E r \in p .. 3 : Best(r)
  <2>0. p = 1 \/ p = 2 \/ p = 3
    BY DEF Three
  <2>1. \A x, y \in Three : L(x, y) => ~L(y, x)
    BY <1>1, Zenon
  <2>2. \A x, y, z \in Three : L(x, y) /\ ~L(z, y) => L(x, z)
    BY <1>1, Zenon
  <2> HIDE DEF L
  <2>3. 1 \in Three /\ 2 \in Three /\ 3 \in Three
    BY DEF Three
  <2>4. CASE p = 3
    <3>1. ~L(3, 3)
      BY <2>1, <2>3, Zenon
    <3>2. p .. 3 = {3} /\ p .. 3 - 1 = {}
      BY <2>4
    <3>3. Best(3)
      BY <3>1, <3>2, Zenon
    <3> QED BY <3>2, <3>3
  <2>5. CASE p = 2
    <3>1. p .. 3 = {2, 3} /\ p .. 2 - 1 = {} /\ p .. 3 - 1 = {2}
      BY <2>5
    <3>2. CASE L(3, 2)
      <4>1. ~L(2, 3) /\ ~L(3, 3)
        BY <2>1, <2>3, <3>2, Zenon
      <4>2. \A q \in {2, 3} : ~L(q, 3)
        BY <4>1
      <4>3. \A q \in {2} : L(3, q)
        BY <3>2
      <4>4. Best(3)
        BY <3>1, <4>2, <4>3, Zenon
      <4> QED BY <3>1, <4>4
    <3>3. CASE ~L(3, 2)
      <4>1. ~L(2, 2)
        BY <2>1, <2>3, Zenon
      <4>2. \A q \in {2, 3} : ~L(q, 2)
        BY <3>3, <4>1
      <4>3. Best(2)
        BY <3>1, <4>2, Zenon
      <4> QED BY <3>1, <4>3
    <3> QED BY <3>2, <3>3
  <2>6. CASE p = 1
    <3>1. p .. 3 = {1, 2, 3} /\ p .. 1 - 1 = {} /\ p .. 2 - 1 = {1} /\ p .. 3 - 1 = {1, 2}
      BY <2>6
    <3>2. CASE ~L(2, 1) /\ ~L(3, 1)
      <4>1. ~L(1, 1)
        BY <2>1, <2>3, Zenon
      <4>2. \A q \in {1, 2, 3} : ~L(q, 1)
        BY <3>2, <4>1
      <4>3. Best(1)
        BY <3>1, <4>2, Zenon
      <4> QED BY <3>1, <4>3
    <3>3. CASE L(2, 1) /\ ~L(3, 2)
      <4>1. ~L(1, 2) /\ ~L(2, 2)
        BY <2>1, <2>3, <3>3, Zenon
      <4>2. \A q \in {1, 2, 3} : ~L(q, 2)
        BY <3>3, <4>1
      <4>3. \A q \in {1} : L(2, q)
        BY <3>3
      <4>4. Best(2)
        BY <3>1, <4>2, <4>3, Zenon
      <4> QED BY <3>1, <4>4
    <3>4. CASE L(3, 2) /\ L(3, 1)
      <4>1. ~L(1, 3) /\ ~L(2, 3) /\ ~L(3, 3)
        BY <2>1, <2>3, <3>4, Zenon
      <4>2. \A q \in {1, 2, 3} : ~L(q, 3)
        BY <4>1
      <4>3. \A q \in {1, 2} : L(3, q)
        BY <3>4
      <4>4. Best(3)
        BY <3>1, <4>2, <4>3, Zenon
      <4> QED BY <3>1, <4>4
    <3>5. ASSUME L(2, 1), L(3, 2) PROVE L(3, 1)
      <4>1. ~L(1, 2)
        BY <2>1, <2>3, <3>5, Zenon
      <4> QED BY <2>2, <2>3, <3>5, <4>1, Zenon
    <3>6. ASSUME ~L(2, 1), L(3, 1) PROVE L(3, 2)
      BY <2>2, <2>3, <3>6, Zenon
    <3> QED BY <3>2, <3>3, <3>4, <3>5, <3>6, Zenon
  <2> QED BY <2>0, <2>4, <2>5, <2>6
<1>3. BestRow(p) = CHOOSE r \in p .. 3 : Best(r)
  BY Zenon DEF BestRow
<1>4. BestRow(p) \in p .. 3 /\ Best(BestRow(p))
  <2> HIDE DEF Best
  <2> QED BY <1>2, <1>3, Zenon
<1> QED BY <1>4, Zenon

\* No entry is bigger than the pivot, so none is big when the pivot is not.
LEMMA NoneIsBigger ==
    ASSUME NEW x, NEW y, IsFrac(x), IsFrac(y), ~Larger(x, y), TooSmall(y) PROVE TooSmall(x)
<1>1. PICK a \in Int, c \in Int, b \in Int, d \in Int, T \in Int :
        /\ a = Abs(x[1]) /\ b = x[2] /\ c = Abs(y[1]) /\ d = y[2] /\ T = PivotScale
        /\ a >= 0 /\ c >= 0 /\ b > 0 /\ d > 0 /\ T > 0
  BY ProductsAssumption DEF IsFrac, Abs
<1>2. ~(a * d > c * b) /\ c * T < d
  BY <1>1, Zenon DEF Larger, TooSmall
<1>3. a * d <= c * b
  BY <1>2
<1>4. (a * d) * T <= (c * b) * T /\ (c * T) * b < d * b
  BY <1>1, <1>2, <1>3
<1>5. (a * T) * d < b * d
  <2>1. (a * d) * T = (a * T) * d /\ (c * b) * T = (c * T) * b /\ d * b = b * d
    OBVIOUS
  <2>2. (a * d) * T \in Int /\ (c * b) * T \in Int /\ d * b \in Int
    OBVIOUS
  <2> QED BY <1>4, <2>1, <2>2
<1>6. a * T < b
  <2>1. PICK n \in Int : n = a * T
    OBVIOUS
  <2>2. n * d < b * d
    BY <1>5, <2>1
  <2> QED BY <1>1, <2>1, <2>2
<1> QED BY <1>1, <1>6, Zenon DEF TooSmall

\* A pivot that is not small is not zero.
LEMMA ZeroIsSmall == ASSUME NEW x, IsFrac(x), ~TooSmall(x) PROVE ~Equal(x, Zero)
<1>1. x[1] \in Int /\ x[2] \in Int /\ x[2] > 0
  BY DEF IsFrac
<1>2. ASSUME x[1] = 0 PROVE FALSE
  BY <1>1, <1>2, ProductsAssumption DEF TooSmall, Abs
<1> QED BY <1>1, <1>2 DEF Equal, Zero

\* The entries of a column weighed by u.
Dot(u, M, j) == u[1] * M[1][j] + u[2] * M[2][j] + u[3] * M[3][j]

\* The rows of the elimination are the whole rows R over the weights w, R is U times
\* the system A, and B takes R back to k times A.
Tied(A, U, R, B, k, w, rows) ==
    /\ A \in [Three -> [1 .. 4 -> Int]] /\ R \in [Three -> [1 .. 4 -> Int]]
    /\ U \in [Three -> [Three -> Int]] /\ B \in [Three -> [Three -> Int]]
    /\ k \in Int /\ k # 0 /\ w \in [Three -> Int]
    /\ \A i \in Three, j \in 1 .. 4 : Rep(rows[i][j], R[i][j], w[i])
    /\ \A i \in Three, j \in 1 .. 4 : R[i][j] = Dot(U[i], A, j)
    /\ \A i \in Three, j \in 1 .. 4 : k * A[i][j] = Dot(B[i], R, j)

\* Three terms have the same sum in any order.
LEMMA ThreeOrders ==
    ASSUME NEW g \in [Three -> Three], \A i, j \in Three : g[i] = g[j] => i = j, NEW z \in [Three -> Int]
    PROVE  z[g[1]] + z[g[2]] + z[g[3]] = z[1] + z[2] + z[3]
<1>1. 1 \in Three /\ 2 \in Three /\ 3 \in Three /\ \A i \in Three : i = 1 \/ i = 2 \/ i = 3
  BY DEF Three
<1>2. g[1] \in Three /\ g[2] \in Three /\ g[3] \in Three /\ z[1] \in Int /\ z[2] \in Int /\ z[3] \in Int
  BY <1>1
<1>3. g[1] # g[2] /\ g[1] # g[3] /\ g[2] # g[3]
  <2>1. 1 # 2 /\ 1 # 3 /\ 2 # 3
    OBVIOUS
  <2> QED BY <1>1, <2>1, Zenon
<1>4. g[1] \in {1, 2, 3} /\ g[2] \in {1, 2, 3} /\ g[3] \in {1, 2, 3}
  BY <1>1, <1>2
<1> QED BY <1>2, <1>3, <1>4

\* Rows in another order: what the tie becomes when row i is the former row g[i].
Reordered(g, U, R, B, w, rows, U2, R2, B2, w2, rows2) ==
    /\ g \in [Three -> Three] /\ \A i, j \in Three : g[i] = g[j] => i = j
    /\ U2 = [i \in Three |-> U[g[i]]] /\ R2 = [i \in Three |-> R[g[i]]]
    /\ B2 = [i \in Three |-> [q \in Three |-> B[i][g[q]]]] /\ w2 = [i \in Three |-> w[g[i]]]
    /\ rows2 = [i \in Three |-> rows[g[i]]]

\* Exchanging rows keeps the working matrix tied to the input.
LEMMA SwapTied ==
    ASSUME NEW A, NEW U, NEW R, NEW B, NEW k, NEW w, NEW rows, Tied(A, U, R, B, k, w, rows),
           NEW g, NEW U2, NEW R2, NEW B2, NEW w2, NEW rows2,
           Reordered(g, U, R, B, w, rows, U2, R2, B2, w2, rows2)
    PROVE  Tied(A, U2, R2, B2, k, w2, rows2)
<1> g \in [Three -> Three] /\ \A i, j \in Three : g[i] = g[j] => i = j
  BY Zenon DEF Reordered
<1>0. /\ U2 = [i \in Three |-> U[g[i]]] /\ R2 = [i \in Three |-> R[g[i]]]
      /\ B2 = [i \in Three |-> [q \in Three |-> B[i][g[q]]]] /\ w2 = [i \in Three |-> w[g[i]]]
      /\ rows2 = [i \in Three |-> rows[g[i]]]
  BY Zenon DEF Reordered
<1>1. /\ A \in [Three -> [1 .. 4 -> Int]] /\ R \in [Three -> [1 .. 4 -> Int]]
      /\ U \in [Three -> [Three -> Int]] /\ B \in [Three -> [Three -> Int]]
      /\ k \in Int /\ k # 0 /\ w \in [Three -> Int]
  BY Zenon DEF Tied
<1>2. /\ R2 \in [Three -> [1 .. 4 -> Int]] /\ U2 \in [Three -> [Three -> Int]]
      /\ B2 \in [Three -> [Three -> Int]] /\ w2 \in [Three -> Int]
  BY <1>0, <1>1
<1>3. \A i \in Three : U2[i] = U[g[i]] /\ R2[i] = R[g[i]] /\ w2[i] = w[g[i]] /\ rows2[i] = rows[g[i]] /\ g[i] \in Three
  BY <1>0
<1>4. \A i \in Three, q \in Three : B2[i][q] = B[i][g[q]]
  BY <1>0
<1>5. ASSUME NEW i \in Three, NEW j \in 1 .. 4
      PROVE  Rep(rows2[i][j], R2[i][j], w2[i]) /\ R2[i][j] = Dot(U2[i], A, j)
  <2>1. Rep(rows[g[i]][j], R[g[i]][j], w[g[i]]) /\ R[g[i]][j] = Dot(U[g[i]], A, j)
    BY <1>3, Zenon DEF Tied
  <2> QED BY <1>3, <2>1, Zenon
<1>6. ASSUME NEW i \in Three, NEW j \in 1 .. 4 PROVE k * A[i][j] = Dot(B2[i], R2, j)
  <2>1. PICK z : z = [q \in Three |-> B[i][q] * R[q][j]]
    OBVIOUS
  <2>2. z \in [Three -> Int]
    BY <1>1, <2>1
  <2>3. 1 \in Three /\ 2 \in Three /\ 3 \in Three
    BY DEF Three
  <2>4. k * A[i][j] = z[1] + z[2] + z[3]
    BY <2>1, <2>3, Zenon DEF Tied, Dot
  <2>5. ASSUME NEW q \in Three PROVE B2[i][q] * R2[q][j] = z[g[q]]
    <3>1. z[g[q]] = B[i][g[q]] * R[g[q]][j]
      BY <1>3, <2>1, Zenon
    <3> QED BY <1>3, <1>4, <3>1, Zenon
  <2>6. Dot(B2[i], R2, j) = z[g[1]] + z[g[2]] + z[g[3]]
    BY <2>3, <2>5, Zenon DEF Dot
  <2>7. z[g[1]] + z[g[2]] + z[g[3]] = z[1] + z[2] + z[3]
    BY <2>2, ThreeOrders, Zenon
  <2> QED BY <2>4, <2>6, <2>7, Zenon
<1>7. Tied(A, U2, R2, B2, k, w2, rows2)
  BY <1>1, <1>2, <1>5, <1>6, Zenon DEF Tied
<1> QED BY <1>0, <1>7, Zenon

\* An entry after the pivot row has been taken away from its row.
LEMMA EliminatedRep ==
    ASSUME NEW x, NEW y, NEW s, NEW n, NEW k, NEW w, NEW q, NEW m, Rep(x, n, w), Rep(y, k, w), Rep(s, q, m)
    PROVE  Rep(Minus(x, Times(y, s)), m * n - k * q, w * m)
<1>1. n \in Int /\ k \in Int /\ w \in Int /\ q \in Int /\ m \in Int /\ w # 0 /\ m # 0
  BY Zenon DEF Rep
<1>2. Rep(Times(y, s), k * q, w * m)
  BY TimesRep, Zenon
<1>3. Rep(Minus(x, Times(y, s)), n * (w * m) - (k * q) * w, w * (w * m))
  BY <1>2, MinusRep, Zenon
<1>4. PICK a \in Int, b \in Int, c \in Int, d \in Int :
        /\ a = n * (w * m) - (k * q) * w /\ b = w * (w * m) /\ c = m * n - k * q /\ d = w * m
  BY <1>1
<1>5. b # 0 /\ d # 0
  <2>1. w * m \in Int /\ w * m # 0
    BY <1>1, NotZero, Whole, Zenon
  <2> QED BY <1>1, <1>4, <2>1, NotZero, Zenon
<1>6. Proportional(a, b, c, d)
  <2>1. PICK n1 \in Int, k1 \in Int, w1 \in Int, q1 \in Int, m1 \in Int :
          n1 = n /\ k1 = k /\ w1 = w /\ q1 = q /\ m1 = m
    BY <1>1, Zenon
  <2>3. (n1 * (w1 * m1) - (k1 * q1) * w1) * (w1 * m1) = (m1 * n1 - k1 * q1) * (w1 * (w1 * m1))
    OBVIOUS
  <2>2. (n * (w * m) - (k * q) * w) * (w * m) = (m * n - k * q) * (w * (w * m))
    BY <2>1, <2>3, Zenon
  <2> QED BY <1>4, <2>2, Zenon DEF Proportional
<1>7. Rep(Minus(x, Times(y, s)), a, b)
  BY <1>3, <1>4, Zenon
<1>8. Rep(Minus(x, Times(y, s)), c, d)
  BY <1>5, <1>6, <1>7, SameRep, Zenon
<1> QED BY <1>4, <1>8, Zenon

\* The rows one round of the elimination leaves.
EliminatedRows(p, swapped) ==
    LET scaled == [j \in 1 .. 4 |-> Quotient(swapped[p][j], swapped[p][p])]
    IN  [i \in Three |-> IF i = p THEN scaled
           ELSE [j \in 1 .. 4 |-> Minus(swapped[i][j], Times(swapped[i][p], scaled[j]))]]

\* Taking the pivot row away from the others: what the tie becomes.
Eliminated(A, U, R, B, k, w, rows, p, d, U2, R2, B2, k2, w2, rows2) ==
    /\ p \in Three /\ d = R[p][p] /\ d # 0
    /\ U2 = [i \in Three |-> IF i = p THEN U[p] ELSE [q \in Three |-> d * U[i][q] - R[i][p] * U[p][q]]]
    /\ R2 = [i \in Three |-> IF i = p THEN R[p] ELSE [j \in 1 .. 4 |-> d * R[i][j] - R[i][p] * R[p][j]]]
    /\ B2 = [i \in Three |-> [q \in Three |-> IF q = p THEN k * A[i][p] ELSE B[i][q]]]
    /\ k2 = k * d /\ w2 = [i \in Three |-> IF i = p THEN d ELSE w[i] * d]
    /\ rows2 = EliminatedRows(p, rows)

\* So does clearing a column.
LEMMA EliminateTied ==
    ASSUME NEW A, NEW U, NEW R, NEW B, NEW k, NEW w, NEW rows, Tied(A, U, R, B, k, w, rows),
           NEW p, NEW d, NEW U2, NEW R2, NEW B2, NEW k2, NEW w2, NEW rows2,
           Eliminated(A, U, R, B, k, w, rows, p, d, U2, R2, B2, k2, w2, rows2)
    PROVE  Tied(A, U2, R2, B2, k2, w2, rows2)
<1> PICK scaled : scaled = [j \in 1 .. 4 |-> Quotient(rows[p][j], rows[p][p])]
  OBVIOUS
<1> rows2 = [i \in Three |-> IF i = p THEN scaled
                ELSE [j \in 1 .. 4 |-> Minus(rows[i][j], Times(rows[i][p], scaled[j]))]]
  BY Zenon DEF Eliminated, EliminatedRows
<1> /\ p \in Three /\ d = R[p][p] /\ d # 0
    /\ U2 = [i \in Three |-> IF i = p THEN U[p] ELSE [q \in Three |-> d * U[i][q] - R[i][p] * U[p][q]]]
    /\ R2 = [i \in Three |-> IF i = p THEN R[p] ELSE [j \in 1 .. 4 |-> d * R[i][j] - R[i][p] * R[p][j]]]
    /\ B2 = [i \in Three |-> [q \in Three |-> IF q = p THEN k * A[i][p] ELSE B[i][q]]]
    /\ k2 = k * d /\ w2 = [i \in Three |-> IF i = p THEN d ELSE w[i] * d]
  BY Zenon DEF Eliminated
<1>1. /\ A \in [Three -> [1 .. 4 -> Int]] /\ R \in [Three -> [1 .. 4 -> Int]]
      /\ U \in [Three -> [Three -> Int]] /\ B \in [Three -> [Three -> Int]]
      /\ k \in Int /\ k # 0 /\ w \in [Three -> Int]
  BY Zenon DEF Tied
<1>2. p \in 1 .. 4 /\ \A q \in Three : q \in 1 .. 4
  BY DEF Three
<1>3. d \in Int /\ \A i \in Three : R[i][p] \in Int /\ A[i][p] \in Int
  <2>1. ASSUME NEW M \in [Three -> [1 .. 4 -> Int]], NEW i \in Three, NEW j \in 1 .. 4 PROVE M[i][j] \in Int
    OBVIOUS
  <2> QED BY <1>1, <1>2, <2>1, Zenon
<1>4. k2 \in Int /\ k2 # 0
  BY <1>1, <1>3, NotZero, Whole, Zenon
<1>5. /\ U2 \in [Three -> [Three -> Int]] /\ R2 \in [Three -> [1 .. 4 -> Int]]
      /\ B2 \in [Three -> [Three -> Int]] /\ w2 \in [Three -> Int]
  <2>1. U2 \in [Three -> [Three -> Int]]
    BY <1>1, <1>3
  <2>2. R2 \in [Three -> [1 .. 4 -> Int]]
    BY <1>1, <1>3
  <2>3. B2 \in [Three -> [Three -> Int]]
    BY <1>1, <1>3
  <2>4. w2 \in [Three -> Int]
    BY <1>1, <1>3
  <2> QED BY <2>1, <2>2, <2>3, <2>4
<1>6. ASSUME NEW i \in Three, NEW j \in 1 .. 4 PROVE Rep(rows2[i][j], R2[i][j], w2[i])
  <2>1. Rep(rows[p][j], R[p][j], w[p]) /\ Rep(rows[p][p], d, w[p])
    BY <1>2, Zenon DEF Tied
  <2>2. Rep(Quotient(rows[p][j], rows[p][p]), R[p][j], d)
    BY <2>1, QuotientRep, Zenon
  <2>3. scaled[j] = Quotient(rows[p][j], rows[p][p])
    BY Zenon
  <2>4. CASE i = p
    <3>1. rows2[i][j] = scaled[j] /\ R2[i][j] = R[p][j] /\ w2[i] = d
      BY <2>4, Zenon
    <3> QED BY <2>2, <2>3, <3>1, Zenon
  <2>5. CASE i # p
    <3>1. rows2[i][j] = Minus(rows[i][j], Times(rows[i][p], scaled[j])) /\ w2[i] = w[i] * d
          /\ R2[i][j] = d * R[i][j] - R[i][p] * R[p][j]
      BY <2>5, Zenon
    <3>2. Rep(rows[i][j], R[i][j], w[i]) /\ Rep(rows[i][p], R[i][p], w[i]) /\ Rep(scaled[j], R[p][j], d)
      BY <1>2, <2>2, <2>3, Zenon DEF Tied
    <3>3. Rep(Minus(rows[i][j], Times(rows[i][p], scaled[j])), d * R[i][j] - R[i][p] * R[p][j], w[i] * d)
      BY <3>2, EliminatedRep
    <3> QED BY <3>1, <3>3, Zenon
  <2> QED BY <2>4, <2>5
<1>7. ASSUME NEW i \in Three, NEW j \in 1 .. 4 PROVE R2[i][j] = Dot(U2[i], A, j)
  <2>1. R[i][j] = Dot(U[i], A, j) /\ R[p][j] = Dot(U[p], A, j)
    BY Zenon DEF Tied
  <2>2. CASE i = p
    <3>1. R2[i][j] = R[p][j] /\ U2[i] = U[p]
      BY <2>2, Zenon
    <3> QED BY <2>1, <3>1, Zenon
  <2>3. CASE i # p
    <3>0. 1 \in Three /\ 2 \in Three /\ 3 \in Three
      BY DEF Three
    <3>1. R2[i][j] = d * R[i][j] - R[i][p] * R[p][j] /\ \A q \in Three : U2[i][q] = d * U[i][q] - R[i][p] * U[p][q]
      BY <2>3, Zenon
    <3>2. PICK e \in Int, r \in Int, u1 \in Int, u2 \in Int, u3 \in Int, v1 \in Int, v2 \in Int, v3 \in Int,
               a1 \in Int, a2 \in Int, a3 \in Int :
            /\ e = d /\ r = R[i][p] /\ u1 = U[i][1] /\ u2 = U[i][2] /\ u3 = U[i][3]
            /\ v1 = U[p][1] /\ v2 = U[p][2] /\ v3 = U[p][3] /\ a1 = A[1][j] /\ a2 = A[2][j] /\ a3 = A[3][j]
      <4>1. d \in Int /\ R[i][p] \in Int
        BY <1>3, Zenon
      <4>2. ASSUME NEW M \in [Three -> [Three -> Int]], NEW x \in Three PROVE M[x][1] \in Int /\ M[x][2] \in Int /\ M[x][3] \in Int
        BY <3>0
      <4>3. U[i][1] \in Int /\ U[i][2] \in Int /\ U[i][3] \in Int /\ U[p][1] \in Int /\ U[p][2] \in Int /\ U[p][3] \in Int
        BY <1>1, <4>2, Zenon
      <4>4. ASSUME NEW M \in [Three -> [1 .. 4 -> Int]] PROVE M[1][j] \in Int /\ M[2][j] \in Int /\ M[3][j] \in Int
        BY <3>0
      <4>5. A[1][j] \in Int /\ A[2][j] \in Int /\ A[3][j] \in Int
        BY <1>1, <4>4, Zenon
      <4> QED BY <4>1, <4>3, <4>5, Zenon
    <3>3. R[i][j] = u1 * a1 + u2 * a2 + u3 * a3 /\ R[p][j] = v1 * a1 + v2 * a2 + v3 * a3
      BY <2>1, <3>2, Zenon DEF Dot
    <3>4. R2[i][j] = e * (u1 * a1 + u2 * a2 + u3 * a3) - r * (v1 * a1 + v2 * a2 + v3 * a3)
      BY <3>1, <3>2, <3>3, Zenon
    <3>5. Dot(U2[i], A, j) = (e * u1 - r * v1) * a1 + (e * u2 - r * v2) * a2 + (e * u3 - r * v3) * a3
      BY <3>0, <3>1, <3>2, Zenon DEF Dot
    <3>6. e * (u1 * a1 + u2 * a2 + u3 * a3) - r * (v1 * a1 + v2 * a2 + v3 * a3)
            = (e * u1 - r * v1) * a1 + (e * u2 - r * v2) * a2 + (e * u3 - r * v3) * a3
      OBVIOUS
    <3> QED BY <3>4, <3>5, <3>6, Zenon
  <2> QED BY <2>2, <2>3
<1>8. ASSUME NEW i \in Three, NEW j \in 1 .. 4 PROVE k2 * A[i][j] = Dot(B2[i], R2, j)
  <2>0. 1 \in Three /\ 2 \in Three /\ 3 \in Three /\ (p = 1 \/ p = 2 \/ p = 3)
    BY DEF Three
  <2>1. k * A[i][j] = Dot(B[i], R, j) /\ k * A[i][p] = Dot(B[i], R, p)
    BY <1>2, Zenon DEF Tied
  <2>2. PICK e \in Int, h \in Int, b1 \in Int, b2 \in Int, b3 \in Int, c1 \in Int, c2 \in Int, c3 \in Int,
             r1 \in Int, r2 \in Int, r3 \in Int, a \in Int :
          /\ e = d /\ h = k /\ b1 = B[i][1] /\ b2 = B[i][2] /\ b3 = B[i][3]
          /\ c1 = R[1][p] /\ c2 = R[2][p] /\ c3 = R[3][p] /\ r1 = R[1][j] /\ r2 = R[2][j] /\ r3 = R[3][j]
          /\ a = A[i][j]
    <3>1. d \in Int /\ R[1][p] \in Int /\ R[2][p] \in Int /\ R[3][p] \in Int
      BY <1>3, <2>0, Zenon
    <3>2. ASSUME NEW M \in [Three -> [Three -> Int]], NEW x \in Three PROVE M[x][1] \in Int /\ M[x][2] \in Int /\ M[x][3] \in Int
      BY <2>0
    <3>3. ASSUME NEW M \in [Three -> [1 .. 4 -> Int]] PROVE M[1][j] \in Int /\ M[2][j] \in Int /\ M[3][j] \in Int /\ M[i][j] \in Int
      BY <2>0
    <3>4. R[1][j] \in Int /\ R[2][j] \in Int /\ R[3][j] \in Int /\ A[i][j] \in Int
      BY <1>1, <3>3, Zenon
    <3>5. B[i][1] \in Int /\ B[i][2] \in Int /\ B[i][3] \in Int
      BY <1>1, <3>2, Zenon
    <3> QED BY <1>1, <3>1, <3>4, <3>5, Zenon
  <2>3. h * a = b1 * r1 + b2 * r2 + b3 * r3 /\ k * A[i][p] = b1 * c1 + b2 * c2 + b3 * c3
    BY <2>1, <2>2, Zenon DEF Dot
  <2>4. k2 * A[i][j] = (h * e) * a
    BY <2>2, Zenon
  <2>5. (h * e) * a = e * (b1 * r1 + b2 * r2 + b3 * r3)
    <3>1. (h * e) * a = e * (h * a)
      OBVIOUS
    <3> QED BY <2>3, <3>1, Zenon
  <2>6. CASE p = 1
    <3>1. 1 = p /\ 2 # p /\ 3 # p
      BY <2>6
    <3>2. B2[i][1] = b1 * c1 + b2 * c2 + b3 * c3 /\ B2[i][2] = b2 /\ B2[i][3] = b3
      BY <2>0, <2>2, <2>3, <3>1, Zenon
    <3>3. R2[1][j] = r1 /\ R2[2][j] = e * r2 - c2 * r1 /\ R2[3][j] = e * r3 - c3 * r1 /\ c1 = e
      BY <2>0, <2>2, <3>1, Zenon
    <3>4. Dot(B2[i], R2, j) = (b1 * e + b2 * c2 + b3 * c3) * r1 + b2 * (e * r2 - c2 * r1) + b3 * (e * r3 - c3 * r1)
      BY <3>2, <3>3, Zenon DEF Dot
    <3>5. (b1 * e + b2 * c2 + b3 * c3) * r1 + b2 * (e * r2 - c2 * r1) + b3 * (e * r3 - c3 * r1) = e * (b1 * r1 + b2 * r2 + b3 * r3)
      OBVIOUS
    <3> QED BY <2>4, <2>5, <3>4, <3>5, Zenon
  <2>7. CASE p = 2
    <3>1. 2 = p /\ 1 # p /\ 3 # p
      BY <2>7
    <3>2. B2[i][2] = b1 * c1 + b2 * c2 + b3 * c3 /\ B2[i][1] = b1 /\ B2[i][3] = b3
      BY <2>0, <2>2, <2>3, <3>1, Zenon
    <3>3. R2[2][j] = r2 /\ R2[1][j] = e * r1 - c1 * r2 /\ R2[3][j] = e * r3 - c3 * r2 /\ c2 = e
      BY <2>0, <2>2, <3>1, Zenon
    <3>4. Dot(B2[i], R2, j) = b1 * (e * r1 - c1 * r2) + (b1 * c1 + b2 * e + b3 * c3) * r2 + b3 * (e * r3 - c3 * r2)
      BY <3>2, <3>3, Zenon DEF Dot
    <3>5. b1 * (e * r1 - c1 * r2) + (b1 * c1 + b2 * e + b3 * c3) * r2 + b3 * (e * r3 - c3 * r2) = e * (b1 * r1 + b2 * r2 + b3 * r3)
      OBVIOUS
    <3> QED BY <2>4, <2>5, <3>4, <3>5, Zenon
  <2>8. CASE p = 3
    <3>1. 3 = p /\ 1 # p /\ 2 # p
      BY <2>8
    <3>2. B2[i][3] = b1 * c1 + b2 * c2 + b3 * c3 /\ B2[i][1] = b1 /\ B2[i][2] = b2
      BY <2>0, <2>2, <2>3, <3>1, Zenon
    <3>3. R2[3][j] = r3 /\ R2[1][j] = e * r1 - c1 * r3 /\ R2[2][j] = e * r2 - c2 * r3 /\ c3 = e
      BY <2>0, <2>2, <3>1, Zenon
    <3>4. Dot(B2[i], R2, j) = b1 * (e * r1 - c1 * r3) + b2 * (e * r2 - c2 * r3) + (b1 * c1 + b2 * c2 + b3 * e) * r3
      BY <3>2, <3>3, Zenon DEF Dot
    <3>5. b1 * (e * r1 - c1 * r3) + b2 * (e * r2 - c2 * r3) + (b1 * c1 + b2 * c2 + b3 * e) * r3 = e * (b1 * r1 + b2 * r2 + b3 * r3)
      OBVIOUS
    <3> QED BY <2>4, <2>5, <3>4, <3>5, Zenon
  <2> QED BY <2>0, <2>6, <2>7, <2>8
<1> QED BY <1>1, <1>4, <1>5, <1>6, <1>7, <1>8, Zenon DEF Tied

\* The determinant of a product is the product of the determinants.
LEMMA DeterminantOfProduct ==
    ASSUME NEW U, NEW A, NEW R, \A i, j \in Three : U[i][j] \in Int /\ A[i][j] \in Int,
           \A i, j \in Three : R[i][j] = Dot(U[i], A, j)
    PROVE  Determinant(R) = Determinant(U) * Determinant(A)
<1>0. 1 \in Three /\ 2 \in Three /\ 3 \in Three
  BY DEF Three
<1>1. PICK u11 \in Int, u12 \in Int, u13 \in Int, u21 \in Int, u22 \in Int, u23 \in Int, u31 \in Int, u32 \in Int, u33 \in Int :
        /\ u11 = U[1][1] /\ u12 = U[1][2] /\ u13 = U[1][3] /\ u21 = U[2][1] /\ u22 = U[2][2] /\ u23 = U[2][3]
        /\ u31 = U[3][1] /\ u32 = U[3][2] /\ u33 = U[3][3]
  BY <1>0, Zenon
<1>2. PICK a11 \in Int, a12 \in Int, a13 \in Int, a21 \in Int, a22 \in Int, a23 \in Int, a31 \in Int, a32 \in Int, a33 \in Int :
        /\ a11 = A[1][1] /\ a12 = A[1][2] /\ a13 = A[1][3] /\ a21 = A[2][1] /\ a22 = A[2][2] /\ a23 = A[2][3]
        /\ a31 = A[3][1] /\ a32 = A[3][2] /\ a33 = A[3][3]
  BY <1>0, Zenon
<1>3. /\ R[1][1] = (u11 * a11 + u12 * a21 + u13 * a31) /\ R[1][2] = (u11 * a12 + u12 * a22 + u13 * a32) /\ R[1][3] = (u11 * a13 + u12 * a23 + u13 * a33)
      /\ R[2][1] = (u21 * a11 + u22 * a21 + u23 * a31) /\ R[2][2] = (u21 * a12 + u22 * a22 + u23 * a32) /\ R[2][3] = (u21 * a13 + u22 * a23 + u23 * a33)
      /\ R[3][1] = (u31 * a11 + u32 * a21 + u33 * a31) /\ R[3][2] = (u31 * a12 + u32 * a22 + u33 * a32) /\ R[3][3] = (u31 * a13 + u32 * a23 + u33 * a33)
  BY <1>0, <1>1, <1>2, Zenon DEF Dot
<1>4. Determinant(R) = (u11 * a11 + u12 * a21 + u13 * a31) * ((u21 * a12 + u22 * a22 + u23 * a32) * (u31 * a13 + u32 * a23 + u33 * a33)
        - (u21 * a13 + u22 * a23 + u23 * a33) * (u31 * a12 + u32 * a22 + u33 * a32))
        - (u11 * a12 + u12 * a22 + u13 * a32) * ((u21 * a11 + u22 * a21 + u23 * a31) * (u31 * a13 + u32 * a23 + u33 * a33)
        - (u21 * a13 + u22 * a23 + u23 * a33) * (u31 * a11 + u32 * a21 + u33 * a31))
        + (u11 * a13 + u12 * a23 + u13 * a33) * ((u21 * a11 + u22 * a21 + u23 * a31) * (u31 * a12 + u32 * a22 + u33 * a32)
        - (u21 * a12 + u22 * a22 + u23 * a32) * (u31 * a11 + u32 * a21 + u33 * a31))
  BY <1>3, Zenon DEF Determinant
<1>5. Determinant(U) = u11 * (u22 * u33 - u23 * u32) - u12 * (u21 * u33 - u23 * u31) + u13 * (u21 * u32 - u22 * u31) /\ Determinant(A) = a11 * (a22 * a33 - a23 * a32) - a12 * (a21 * a33 - a23 * a31) + a13 * (a21 * a32 - a22 * a31)
  BY <1>1, <1>2, Zenon DEF Determinant
<1>6. (u11 * a11 + u12 * a21 + u13 * a31) * ((u21 * a12 + u22 * a22 + u23 * a32) * (u31 * a13 + u32 * a23 + u33 * a33)
        - (u21 * a13 + u22 * a23 + u23 * a33) * (u31 * a12 + u32 * a22 + u33 * a32))
        - (u11 * a12 + u12 * a22 + u13 * a32) * ((u21 * a11 + u22 * a21 + u23 * a31) * (u31 * a13 + u32 * a23 + u33 * a33)
        - (u21 * a13 + u22 * a23 + u23 * a33) * (u31 * a11 + u32 * a21 + u33 * a31))
        + (u11 * a13 + u12 * a23 + u13 * a33) * ((u21 * a11 + u22 * a21 + u23 * a31) * (u31 * a12 + u32 * a22 + u33 * a32)
        - (u21 * a12 + u22 * a22 + u23 * a32) * (u31 * a11 + u32 * a21 + u33 * a31)) = (u11 * (u22 * u33 - u23 * u32) - u12 * (u21 * u33 - u23 * u31) + u13 * (u21 * u32 - u22 * u31)) * (a11 * (a22 * a33 - a23 * a32) - a12 * (a21 * a33 - a23 * a31) + a13 * (a21 * a32 - a22 * a31))
  OBVIOUS
<1> QED BY <1>4, <1>5, <1>6, Zenon

\* Columns that are done hold their weight on the diagonal and nothing else.
UnitColumns(R, w, p) == \A i, j \in Three : j < p => R[i][j] = IF i = j THEN w[i] ELSE 0

SameSystem(matrix, vector, A) ==
    \A i \in Three : vector[i] = A[i][4] /\ \A j \in Three : matrix[i][j] = A[i][j]

NoPivotLeft(matrix, p, rows) ==
    /\ \A q \in p .. 3 : TooSmall(rows[q][p])
    /\ (\A q \in p .. 3 : Equal(rows[q][p], Zero)) => Determinant(matrix) = 0

SolveFacts(matrix, vector, p, singular, rows) ==
    /\ p \in 1 .. 4 /\ rows = [i \in Three |-> rows[i]]
    /\ \E A, U, R, B, k, w : /\ Tied(A, U, R, B, k, w, rows) /\ UnitColumns(R, w, p)
                             /\ SameSystem(matrix, vector, A)
    /\ singular => NoPivotLeft(matrix, p, rows)
SolveRecord(matrix, vector, p, singular, rows) ==
    [matrix |-> matrix, vector |-> vector, pivot |-> p, singular |-> singular, rows |-> rows]
SolveInv ==
    subject = "solve" =>
        \E matrix, vector, p, singular, rows :
            /\ st = SolveRecord(matrix, vector, p, singular, rows)
            /\ SolveFacts(matrix, vector, p, singular, rows)

\* The initial states satisfy the linear solver invariant.
LEMMA SolveInits == SolveInit => SolveInv
<1> SUFFICES ASSUME SolveInit PROVE SolveInv
  OBVIOUS
<1>1. PICK e \in [1 .. 6 -> -1 .. MatrixBound], v \in [Three -> {0, 1}] :
       LET m == <<<<e[1], e[2], e[3]>>, <<e[2], e[4], e[5]>>, <<e[3], e[5], e[6]>>>>
       IN  st = [matrix |-> m, vector |-> v, pivot |-> 1, singular |-> FALSE,
                 rows |-> [i \in Three |-> [j \in 1 .. 4 |->
                              <<IF j = 4 THEN v[i] ELSE m[i][j], 1>>]]]
  BY Zenon DEF SolveInit
<1>2. PICK m : m = <<<<e[1], e[2], e[3]>>, <<e[2], e[4], e[5]>>, <<e[3], e[5], e[6]>>>>
  OBVIOUS
<1>3. PICK rows : rows = [i \in Three |-> [j \in 1 .. 4 |-> <<IF j = 4 THEN v[i] ELSE m[i][j], 1>>]]
  OBVIOUS
<1>4. st = SolveRecord(m, v, 1, FALSE, rows)
  BY <1>1, <1>2, <1>3, Zenon DEF SolveRecord
<1>5. PICK A : A = [i \in Three |-> [j \in 1 .. 4 |-> IF j = 4 THEN v[i] ELSE m[i][j]]]
  OBVIOUS
<1>6. PICK I : I = [i \in Three |-> [q \in Three |-> IF i = q THEN 1 ELSE 0]]
  OBVIOUS
<1>7. PICK w : w = [i \in Three |-> 1]
  OBVIOUS
<1>8. 1 \in Three /\ 2 \in Three /\ 3 \in Three /\ \A i \in Three : (i = 1 \/ i = 2 \/ i = 3) /\ i \in 1 .. 4 /\ i # 4
  BY DEF Three
<1>9. \A i, j \in Three : m[i][j] \in Int
  <2>1. e[1] \in Int /\ e[2] \in Int /\ e[3] \in Int /\ e[4] \in Int /\ e[5] \in Int /\ e[6] \in Int
    <3>1. -1 .. MatrixBound \subseteq Int
      BY ProductsAssumption
    <3> QED BY <3>1
  <2>2. m[1] = <<e[1], e[2], e[3]>> /\ m[2] = <<e[2], e[4], e[5]>> /\ m[3] = <<e[3], e[5], e[6]>>
    BY <1>2
  <2>3. m[1][1] \in Int /\ m[1][2] \in Int /\ m[1][3] \in Int
    BY <2>1, <2>2
  <2>4. m[2][1] \in Int /\ m[2][2] \in Int /\ m[2][3] \in Int
    BY <2>1, <2>2
  <2>5. m[3][1] \in Int /\ m[3][2] \in Int /\ m[3][3] \in Int
    BY <2>1, <2>2
  <2> QED BY <1>8, <2>3, <2>4, <2>5, Zenon
<1>10. \A i \in Three : v[i] \in Int
  OBVIOUS
<1>11. \A i \in Three, j \in 1 .. 4 : (IF j = 4 THEN v[i] ELSE m[i][j]) \in Int
  <2>1. \A j \in 1 .. 4 : j = 4 \/ j \in Three
    BY DEF Three
  <2> QED BY <1>9, <1>10, <2>1, Zenon
<1>12. A \in [Three -> [1 .. 4 -> Int]] /\ \A i \in Three, j \in 1 .. 4 : A[i][j] = IF j = 4 THEN v[i] ELSE m[i][j]
  <2>1. \A i \in Three, j \in 1 .. 4 : A[i][j] = IF j = 4 THEN v[i] ELSE m[i][j]
    BY <1>5, Zenon
  <2>2. ASSUME NEW i \in Three PROVE A[i] \in [1 .. 4 -> Int]
    <3>1. A[i] = [j \in 1 .. 4 |-> IF j = 4 THEN v[i] ELSE m[i][j]]
      BY <1>5, Zenon
    <3> QED BY <1>11, <3>1, Zenon
  <2>3. A = [i \in Three |-> A[i]]
    BY <1>5
  <2> QED BY <2>1, <2>2, <2>3, Zenon
<1>13. I \in [Three -> [Three -> Int]] /\ \A i, q \in Three : I[i][q] = IF i = q THEN 1 ELSE 0
  BY <1>6
<1>14. ASSUME NEW i \in Three, NEW j \in 1 .. 4 PROVE A[i][j] = Dot(I[i], A, j)
  <2>1. PICK a1 \in Int, a2 \in Int, a3 \in Int : a1 = A[1][j] /\ a2 = A[2][j] /\ a3 = A[3][j]
    <3>1. ASSUME NEW M \in [Three -> [1 .. 4 -> Int]] PROVE M[1][j] \in Int /\ M[2][j] \in Int /\ M[3][j] \in Int
      BY <1>8
    <3> QED BY <1>12, <3>1, Zenon
  <2>2. CASE i = 1
    <3>1. I[i][1] = 1 /\ I[i][2] = 0 /\ I[i][3] = 0
      BY <1>8, <1>13, <2>2
    <3>2. Dot(I[i], A, j) = 1 * a1 + 0 * a2 + 0 * a3
      BY <2>1, <3>1, Zenon DEF Dot
    <3> QED BY <2>1, <2>2, <3>2
  <2>3. CASE i = 2
    <3>1. I[i][1] = 0 /\ I[i][2] = 1 /\ I[i][3] = 0
      BY <1>8, <1>13, <2>3
    <3>2. Dot(I[i], A, j) = 0 * a1 + 1 * a2 + 0 * a3
      BY <2>1, <3>1, Zenon DEF Dot
    <3> QED BY <2>1, <2>3, <3>2
  <2>4. CASE i = 3
    <3>1. I[i][1] = 0 /\ I[i][2] = 0 /\ I[i][3] = 1
      BY <1>8, <1>13, <2>4
    <3>2. Dot(I[i], A, j) = 0 * a1 + 0 * a2 + 1 * a3
      BY <2>1, <3>1, Zenon DEF Dot
    <3> QED BY <2>1, <2>4, <3>2
  <2> QED BY <1>8, <2>2, <2>3, <2>4
<1>15. ASSUME NEW i \in Three, NEW j \in 1 .. 4 PROVE Rep(rows[i][j], A[i][j], w[i]) /\ 1 * A[i][j] = Dot(I[i], A, j)
  <2>1. rows[i][j] = <<A[i][j], 1>> /\ w[i] = 1
    BY <1>3, <1>7, <1>12, Zenon
  <2>2. A[i][j] \in Int
    BY <1>12
  <2>3. ASSUME NEW x \in Int PROVE Rep(<<x, 1>>, x, 1) /\ 1 * x = x
    BY DEF Rep
  <2>4. Rep(rows[i][j], A[i][j], w[i])
    BY <2>1, <2>2, <2>3, Zenon
  <2> QED BY <1>14, <2>2, <2>3, <2>4, Zenon
<1>16. PICK one : one = 1
  OBVIOUS
<1>17. one \in Int /\ one # 0 /\ w \in [Three -> Int]
  BY <1>7, <1>16
<1>18. Tied(A, I, A, I, one, w, rows)
  BY <1>12, <1>13, <1>14, <1>15, <1>16, <1>17, Zenon DEF Tied
<1>19. UnitColumns(A, w, 1)
  <2>1. \A j \in Three : ~(j < 1)
    BY DEF Three
  <2> QED BY <2>1, Zenon DEF UnitColumns
<1>20. SameSystem(m, v, A)
  <2>1. 4 \in 1 .. 4
    OBVIOUS
  <2> QED BY <1>8, <1>12, <2>1, Zenon DEF SameSystem
<1>21. rows = [i \in Three |-> rows[i]] /\ 1 \in 1 .. 4
  BY <1>3
<1>22. SolveFacts(m, v, 1, FALSE, rows)
  BY <1>18, <1>19, <1>20, <1>21, Zenon DEF SolveFacts
<1> QED BY <1>4, <1>22, Zenon DEF SolveInv

\* What the tie gives entry by entry.
TiedEntries(A, U, R, B, k, w, rows) ==
    /\ k \in Int /\ k # 0
    /\ \A i, j \in Three : A[i][j] \in Int /\ U[i][j] \in Int /\ R[i][j] \in Int /\ B[i][j] \in Int
    /\ \A i \in Three : A[i][4] \in Int /\ R[i][4] \in Int /\ w[i] \in Int /\ w[i] # 0
    /\ \A i, j \in Three : Rep(rows[i][j], R[i][j], w[i]) /\ IsFrac(rows[i][j])
    /\ \A i \in Three : Rep(rows[i][4], R[i][4], w[i])
    /\ \A i, j \in Three : R[i][j] = Dot(U[i], A, j) /\ k * A[i][j] = Dot(B[i], R, j)
    /\ \A i \in Three : k * A[i][4] = Dot(B[i], R, 4)

\* The entries of a tied matrix are integers over its weights.
LEMMA EntriesAre ==
    ASSUME NEW A, NEW U, NEW R, NEW B, NEW k, NEW w, NEW rows, Tied(A, U, R, B, k, w, rows)
    PROVE  TiedEntries(A, U, R, B, k, w, rows)
<1>1. 4 \in 1 .. 4 /\ \A j \in Three : j \in 1 .. 4
  BY DEF Three
<1>2. ASSUME NEW M \in [Three -> [1 .. 4 -> Int]], NEW i \in Three, NEW j \in 1 .. 4 PROVE M[i][j] \in Int
  OBVIOUS
<1>3. ASSUME NEW M \in [Three -> [Three -> Int]], NEW i \in Three, NEW j \in Three PROVE M[i][j] \in Int
  OBVIOUS
<1>4. \A i, j \in Three : A[i][j] \in Int /\ U[i][j] \in Int /\ R[i][j] \in Int /\ B[i][j] \in Int
  BY <1>1, <1>2, <1>3, Zenon DEF Tied
<1>5. ASSUME NEW i \in Three PROVE A[i][4] \in Int /\ R[i][4] \in Int /\ Rep(rows[i][4], R[i][4], w[i])
  BY <1>1, <1>2, Zenon DEF Tied
<1>6. \A i \in Three : w[i] \in Int /\ w[i] # 0
  BY <1>5, Zenon DEF Rep
<1>7. ASSUME NEW i \in Three, NEW j \in Three PROVE Rep(rows[i][j], R[i][j], w[i]) /\ IsFrac(rows[i][j])
  BY <1>1, Zenon DEF Tied, Rep, IsFrac
<1>8. \A i, j \in Three : R[i][j] = Dot(U[i], A, j) /\ k * A[i][j] = Dot(B[i], R, j)
  BY <1>1, Zenon DEF Tied
<1>9. \A i \in Three : k * A[i][4] = Dot(B[i], R, 4)
  BY <1>1, Zenon DEF Tied
<1>10. k \in Int /\ k # 0
  BY Zenon DEF Tied
<1> QED BY <1>4, <1>5, <1>6, <1>7, <1>8, <1>9, <1>10, Zenon DEF TiedEntries

\* With no pivot left in its column the rows, and with them the system, are singular.
LEMMA NoPivotIsSingular ==
    ASSUME NEW A, NEW U, NEW R, NEW B, NEW k, NEW w, NEW rows, Tied(A, U, R, B, k, w, rows),
           NEW p \in Three, UnitColumns(R, w, p), \A q \in p .. 3 : R[q][p] = 0
    PROVE  Determinant(A) = 0
<1>0. 1 \in Three /\ 2 \in Three /\ 3 \in Three /\ (p = 1 \/ p = 2 \/ p = 3)
  BY DEF Three
<1>e. TiedEntries(A, U, R, B, k, w, rows)
  BY EntriesAre, SMT
<1>1. \A i, j \in Three : A[i][j] \in Int /\ R[i][j] \in Int /\ B[i][j] \in Int
  BY <1>e, Zenon DEF TiedEntries
<1>2. PICK r11 \in Int, r12 \in Int, r13 \in Int, r21 \in Int, r22 \in Int, r23 \in Int, r31 \in Int, r32 \in Int, r33 \in Int :
        /\ r11 = R[1][1] /\ r12 = R[1][2] /\ r13 = R[1][3] /\ r21 = R[2][1] /\ r22 = R[2][2] /\ r23 = R[2][3]
        /\ r31 = R[3][1] /\ r32 = R[3][2] /\ r33 = R[3][3]
  BY <1>0, <1>1, Zenon
<1>3. Determinant(R) = r11 * (r22 * r33 - r23 * r32) - r12 * (r21 * r33 - r23 * r31) + r13 * (r21 * r32 - r22 * r31)
  BY <1>2, Zenon DEF Determinant
<1>4. Determinant(R) = 0
  <2>1. CASE p = 1
    <3>1. p .. 3 = {1, 2, 3}
      BY <2>1
    <3>2. r11 = 0 /\ r21 = 0 /\ r31 = 0
      BY <1>2, <2>1, <3>1
    <3> QED BY <1>3, <3>2
  <2>2. CASE p = 2
    <3>1. p .. 3 = {2, 3} /\ 1 < p
      BY <2>2
    <3>2. r22 = 0 /\ r32 = 0
      BY <1>2, <2>2, <3>1
    <3>3. r21 = 0 /\ r31 = 0
      BY <1>0, <1>2, <3>1 DEF UnitColumns
    <3> QED BY <1>3, <3>2, <3>3
  <2>3. CASE p = 3
    <3>1. p .. 3 = {3} /\ 1 < p /\ 2 < p
      BY <2>3
    <3>2. r33 = 0
      BY <1>2, <2>3, <3>1
    <3>3. r21 = 0 /\ r31 = 0 /\ r32 = 0
      BY <1>0, <1>2, <3>1 DEF UnitColumns
    <3> QED BY <1>3, <3>2, <3>3
  <2> QED BY <1>0, <2>1, <2>2, <2>3
<1>5. PICK M : M = [i \in Three |-> [j \in Three |-> k * A[i][j]]]
  OBVIOUS
<1>6. \A i, j \in Three : M[i][j] = k * A[i][j]
  BY <1>5, Zenon
<1>7. \A i, j \in Three : M[i][j] = Dot(B[i], R, j)
  BY <1>e, <1>6, Zenon DEF TiedEntries
<1>8. Determinant(M) = Determinant(B) * Determinant(R)
  BY <1>1, <1>7, DeterminantOfProduct, Zenon
<1>9. PICK a11 \in Int, a12 \in Int, a13 \in Int, a21 \in Int, a22 \in Int, a23 \in Int, a31 \in Int, a32 \in Int, a33 \in Int :
        /\ a11 = A[1][1] /\ a12 = A[1][2] /\ a13 = A[1][3] /\ a21 = A[2][1] /\ a22 = A[2][2] /\ a23 = A[2][3]
        /\ a31 = A[3][1] /\ a32 = A[3][2] /\ a33 = A[3][3]
  BY <1>0, <1>1, Zenon
<1>10. PICK h \in Int : h = k /\ h # 0
  BY <1>e, Zenon DEF TiedEntries
<1>11. PICK x \in Int : x = a11 * (a22 * a33 - a23 * a32) - a12 * (a21 * a33 - a23 * a31) + a13 * (a21 * a32 - a22 * a31)
  OBVIOUS
<1>12. Determinant(A) = x
  BY <1>9, <1>11, Zenon DEF Determinant
<1>13. Determinant(M) = (h * a11) * ((h * a22) * (h * a33) - (h * a23) * (h * a32))
          - (h * a12) * ((h * a21) * (h * a33) - (h * a23) * (h * a31))
          + (h * a13) * ((h * a21) * (h * a32) - (h * a22) * (h * a31))
  BY <1>0, <1>6, <1>9, <1>10, Zenon DEF Determinant
<1>14. Determinant(M) = (h * h * h) * x
  <2>1. (h * a11) * ((h * a22) * (h * a33) - (h * a23) * (h * a32))
          - (h * a12) * ((h * a21) * (h * a33) - (h * a23) * (h * a31))
          + (h * a13) * ((h * a21) * (h * a32) - (h * a22) * (h * a31))
        = (h * h * h) * (a11 * (a22 * a33 - a23 * a32) - a12 * (a21 * a33 - a23 * a31) + a13 * (a21 * a32 - a22 * a31))
    OBVIOUS
  <2> QED BY <1>11, <1>13, <2>1, Zenon
<1>15. Determinant(B) \in Int
  <2>1. \A i, j \in Three : B[i][j] \in Int
    BY <1>1, Zenon
  <2>2. /\ B[1][1] \in Int /\ B[1][2] \in Int /\ B[1][3] \in Int /\ B[2][1] \in Int /\ B[2][2] \in Int /\ B[2][3] \in Int
        /\ B[3][1] \in Int /\ B[3][2] \in Int /\ B[3][3] \in Int
    BY <1>0, <2>1, Zenon
  <2> QED BY <2>2 DEF Determinant
<1>16. Determinant(M) = 0
  <2>1. \A z \in Int : z * 0 = 0
    OBVIOUS
  <2> QED BY <1>4, <1>8, <1>15, <2>1, Zenon
<1>17. (h * h * h) * x = 0
  BY <1>14, <1>16, Zenon
<1>18. h * h * h \in Int /\ h * h * h # 0
  <2>1. h * h \in Int /\ h * h # 0
    BY <1>10, NotZero, Whole, Zenon
  <2> QED BY <1>10, <2>1, NotZero, Whole, Zenon
<1>19. x = 0
  BY <1>17, <1>18, NotZero, Zenon
<1> QED BY <1>12, <1>19, Zenon

\* The system solved has the determinant of the system given.
LEMMA SameDeterminant ==
    ASSUME NEW m, NEW v, NEW A, SameSystem(m, v, A) PROVE Determinant(m) = Determinant(A)
<1>0. 1 \in Three /\ 2 \in Three /\ 3 \in Three
  BY DEF Three
<1>1. /\ m[1][1] = A[1][1] /\ m[1][2] = A[1][2] /\ m[1][3] = A[1][3]
      /\ m[2][1] = A[2][1] /\ m[2][2] = A[2][2] /\ m[2][3] = A[2][3]
      /\ m[3][1] = A[3][1] /\ m[3][2] = A[3][2] /\ m[3][3] = A[3][3]
  BY <1>0, Zenon DEF SameSystem
<1> QED BY <1>1, Zenon DEF Determinant

\* Every step of such a call keeps the linear solver invariant.
LEMMA SolveSteps == ASSUME SolveInv, Eliminate PROVE SolveInv'
<1>0. subject = "solve" /\ subject' = "solve"
  BY Zenon DEF Eliminate, Step
<1>1. PICK m, v, p, s, rows : st = SolveRecord(m, v, p, s, rows) /\ SolveFacts(m, v, p, s, rows)
  BY <1>0, Zenon DEF SolveInv
<1>2. st.matrix = m /\ st.vector = v /\ st.pivot = p /\ st.rows = rows /\ st.singular = s
  BY <1>1 DEF SolveRecord
<1>3. p \in Three /\ ~s
  BY <1>2, Zenon DEF Eliminate
<1>4. PICK A, U, R, B, k, w : Tied(A, U, R, B, k, w, rows) /\ UnitColumns(R, w, p) /\ SameSystem(m, v, A)
  BY <1>1, Zenon DEF SolveFacts
<1>e. TiedEntries(A, U, R, B, k, w, rows)
  BY <1>4, EntriesAre, SMT
<1>5. PICK b : b = BestRow(p)
  OBVIOUS
<1>6. b \in p .. 3 /\ \A q \in p .. 3 : ~Larger(rows[q][p], rows[b][p])
  <2>1. \A i \in Three : IsFrac(st.rows[i][p])
    BY <1>e, <1>2, <1>3, Zenon DEF TiedEntries
  <2> QED BY <1>2, <1>3, <1>5, <2>1, BestRowIs, Zenon
<1>7. b \in Three /\ \A q \in p .. 3 : q \in Three
  BY <1>3, <1>6 DEF Three
<1>8. PICK g : g = [i \in Three |-> IF i = p THEN b ELSE IF i = b THEN p ELSE i]
  OBVIOUS
<1>9. g \in [Three -> Three] /\ (\A i \in Three : g[i] = IF i = p THEN b ELSE IF i = b THEN p ELSE i)
      /\ \A i, j \in Three : g[i] = g[j] => i = j
  BY <1>3, <1>7, <1>8
<1>10. PICK sw : sw = [i \in Three |-> rows[g[i]]]
  OBVIOUS
<1>11. [rows EXCEPT ![p] = rows[b], ![b] = rows[p]] = sw
  <2>1. rows = [i \in Three |-> rows[i]]
    BY <1>1, Zenon DEF SolveFacts
  <2> QED BY <1>3, <1>7, <1>9, <1>10, <2>1
<1>12. sw[p] = rows[b]
  <2>1. g[p] = b
    BY <1>3, <1>9
  <2> QED BY <1>3, <1>10, <2>1, Zenon
<1>13. Rep(rows[b][p], R[b][p], w[b]) /\ R[b][p] \in Int /\ w[b] \in Int
  BY <1>e, <1>3, <1>7, Zenon DEF TiedEntries
<1>14. Equal(sw[p][p], Zero) <=> R[b][p] = 0
  <2>1. Rep(Zero, 0, 1)
    BY DEF Zero, Rep
  <2>2. Equal(rows[b][p], Zero) <=> R[b][p] * 1 = 0 * w[b]
    BY <1>13, <2>1, EqualRep, SMT
  <2>3. R[b][p] * 1 = R[b][p] /\ 0 * w[b] = 0
    BY <1>13
  <2> QED BY <1>12, <2>2, <2>3, Zenon
<1>15. CASE TooSmall(sw[p][p])
  <2>1. st' = [st EXCEPT !.singular = TRUE]
    BY <1>2, <1>5, <1>11, <1>15, Zenon DEF Eliminate, Step
  <2>2. st' = SolveRecord(m, v, p, TRUE, rows)
    BY <1>1, <2>1 DEF SolveRecord
  <2>3. ASSUME NEW q \in p .. 3 PROVE TooSmall(rows[q][p])
    <3>1. q \in Three /\ ~Larger(rows[q][p], rows[b][p])
      BY <1>6, <1>7, Zenon
    <3>2. IsFrac(rows[q][p]) /\ IsFrac(rows[b][p])
      BY <1>e, <1>3, <1>7, <3>1, Zenon DEF TiedEntries
    <3>3. TooSmall(rows[b][p])
      BY <1>12, <1>15, Zenon
    <3> QED BY <3>1, <3>2, <3>3, NoneIsBigger, Zenon
  <2>4. ASSUME \A q \in p .. 3 : Equal(rows[q][p], Zero) PROVE Determinant(m) = 0
    <3>1. ASSUME NEW q \in p .. 3 PROVE R[q][p] = 0
      <4>1. q \in Three
        BY <1>7, Zenon
      <4>2. Rep(rows[q][p], R[q][p], w[q]) /\ R[q][p] \in Int /\ w[q] \in Int
        BY <1>e, <1>3, <4>1, Zenon DEF TiedEntries
      <4>3. Rep(Zero, 0, 1)
        BY DEF Zero, Rep
      <4>4. Equal(rows[q][p], Zero) <=> R[q][p] * 1 = 0 * w[q]
        BY <4>2, <4>3, EqualRep, SMT
      <4>5. R[q][p] * 1 = R[q][p] /\ 0 * w[q] = 0
        BY <4>2
      <4> QED BY <2>4, <4>4, <4>5, Zenon
    <3>2. Determinant(A) = 0
      BY <1>3, <1>4, <3>1, NoPivotIsSingular
    <3> QED BY <1>4, <3>2, SameDeterminant, Zenon
  <2>5. NoPivotLeft(m, p, rows)
    BY <2>3, <2>4, Zenon DEF NoPivotLeft
  <2>6. SolveFacts(m, v, p, TRUE, rows)
    BY <1>1, <2>5, Zenon DEF SolveFacts
  <2> QED BY <2>2, <2>6, Zenon DEF SolveInv
<1>16. CASE ~TooSmall(sw[p][p])
  <2>1. PICK scaled : scaled = [j \in 1 .. 4 |-> Quotient(sw[p][j], sw[p][p])]
    OBVIOUS
  <2>2. PICK new : new = [i \in Three |-> IF i = p THEN scaled
                        ELSE [j \in 1 .. 4 |-> Minus(sw[i][j], Times(sw[i][p], scaled[j]))]]
    OBVIOUS
  <2>3. st' = [st EXCEPT !.pivot = p + 1, !.rows = new]
    <3> DEFINE p0 == st.pivot
               swapped0 == [st.rows EXCEPT ![p0] = st.rows[BestRow(p0)], ![BestRow(p0)] = st.rows[p0]]
    <3>1. TooSmall(swapped0[p0][p0]) = TooSmall(sw[p][p]) /\ p0 = p /\ swapped0 = sw
      BY <1>2, <1>5, <1>11, Zenon
    <3>2. st' = [st EXCEPT !.pivot = p0 + 1, !.rows = EliminatedRows(p0, swapped0)]
      BY <1>16, <3>1, Zenon DEF Eliminate, Step, EliminatedRows
    <3>3. EliminatedRows(p, sw) = new
      BY <2>1, <2>2, Zenon DEF EliminatedRows
    <3>4. EliminatedRows(p0, swapped0) = EliminatedRows(p, sw)
      BY <3>1, Zenon
    <3> QED BY <3>1, <3>2, <3>3, <3>4, Zenon
  <2>4. st' = SolveRecord(m, v, p + 1, s, new)
    <3>1. ASSUME NEW y, NEW z, st' = [st EXCEPT !.pivot = y, !.rows = z] PROVE st' = SolveRecord(m, v, y, s, z)
      BY <1>1, <3>1 DEF SolveRecord
    <3> QED BY <2>3, <3>1, Zenon
  <2>5. PICK U1, R1, B1, w1 :
           /\ U1 = [i \in Three |-> U[g[i]]] /\ R1 = [i \in Three |-> R[g[i]]]
           /\ B1 = [i \in Three |-> [q \in Three |-> B[i][g[q]]]] /\ w1 = [i \in Three |-> w[g[i]]]
    OBVIOUS
  <2>6. Tied(A, U1, R1, B1, k, w1, sw)
    <3>1. Reordered(g, U, R, B, w, rows, U1, R1, B1, w1, sw)
      BY <1>9, <1>10, <2>5, Zenon DEF Reordered
    <3> QED BY <1>4, <3>1, SwapTied, SMT
  <2>7. PICK d : d = R1[p][p]
    OBVIOUS
  <2>8. d # 0
    <3>1. g[p] = b
      BY <1>3, <1>9
    <3>2. R1[p] = R[b]
      BY <1>3, <2>5, <3>1, Zenon
    <3>3. IsFrac(rows[b][p])
      BY <1>e, <1>3, <1>7, Zenon DEF TiedEntries
    <3>4. ~Equal(sw[p][p], Zero)
      BY <1>12, <1>16, <3>3, ZeroIsSmall, Zenon
    <3> QED BY <1>14, <2>7, <3>2, <3>4, Zenon
  <2>9. PICK U2, R2, B2, k2, w2 :
           /\ U2 = [i \in Three |-> IF i = p THEN U1[p] ELSE [q \in Three |-> d * U1[i][q] - R1[i][p] * U1[p][q]]]
           /\ R2 = [i \in Three |-> IF i = p THEN R1[p] ELSE [j \in 1 .. 4 |-> d * R1[i][j] - R1[i][p] * R1[p][j]]]
           /\ B2 = [i \in Three |-> [q \in Three |-> IF q = p THEN k * A[i][p] ELSE B1[i][q]]]
           /\ k2 = k * d /\ w2 = [i \in Three |-> IF i = p THEN d ELSE w1[i] * d]
    OBVIOUS
  <2>10. Tied(A, U2, R2, B2, k2, w2, new)
    <3>1. Eliminated(A, U1, R1, B1, k, w1, sw, p, d, U2, R2, B2, k2, w2, new)
      <4>1. new = EliminatedRows(p, sw)
        BY <2>1, <2>2, Zenon DEF EliminatedRows
      <4> QED BY <1>3, <2>7, <2>8, <2>9, <4>1, Zenon DEF Eliminated
    <3> QED BY <2>6, <3>1, EliminateTied, SMT
  <2>11. UnitColumns(R2, w2, p + 1)
    <3>1. SUFFICES ASSUME NEW i \in Three, NEW j \in Three, j < p + 1 PROVE R2[i][j] = IF i = j THEN w2[i] ELSE 0
      BY Zenon DEF UnitColumns
    <3>e. TiedEntries(A, U1, R1, B1, k, w1, sw)
      BY <2>6, EntriesAre, SMT
    <3>2. \A x, y \in Three : R1[x][y] \in Int /\ w1[x] \in Int
      BY <3>e, Zenon DEF TiedEntries
    <3>3. j \in 1 .. 4 /\ d \in Int
      BY <1>3, <2>7, <3>2 DEF Three
    <3>4. CASE j = p
      <4>1. CASE i = p
        <5>1. R2[i][j] = R1[p][p] /\ w2[i] = d
          BY <2>9, <3>3, <3>4, <4>1, Zenon
        <5> QED BY <2>7, <3>4, <4>1, <5>1, Zenon
      <4>2. CASE i # p
        <5>1. R2[i][j] = d * R1[i][p] - R1[i][p] * d
          BY <2>7, <2>9, <3>3, <3>4, <4>2, Zenon
        <5>2. \A x, y \in Int : x * y - y * x = 0
          OBVIOUS
        <5>3. R2[i][j] = 0
          BY <1>3, <3>2, <3>3, <5>1, <5>2, Zenon
        <5> QED BY <3>4, <4>2, <5>3, Zenon
      <4> QED BY <4>1, <4>2
    <3>5. CASE j # p
      <4>1. j < p
        BY <1>3, <3>1, <3>5 DEF Three
      <4>2. ASSUME NEW x \in Three PROVE R1[x][j] = IF x = j THEN w1[x] ELSE 0
        <5>1. R1[x] = R[g[x]] /\ w1[x] = w[g[x]] /\ g[x] \in Three
          BY <1>9, <2>5
        <5>2. R[g[x]][j] = IF g[x] = j THEN w[g[x]] ELSE 0
          BY <1>4, <4>1, <5>1, Zenon DEF UnitColumns
        <5>3. g[x] = j <=> x = j
          BY <1>3, <1>6, <1>7, <1>9, <4>1 DEF Three
        <5> QED BY <5>1, <5>2, <5>3, Zenon
      <4>3. R1[p][j] = 0
        BY <1>3, <3>5, <4>2, Zenon
      <4>4. CASE i = p
        <5>1. R2[i][j] = R1[p][j]
          BY <2>9, <4>4, Zenon
        <5> QED BY <3>5, <4>3, <4>4, <5>1, Zenon
      <4>5. CASE i # p
        <5>1. R2[i][j] = d * R1[i][j] - R1[i][p] * R1[p][j] /\ w2[i] = w1[i] * d
          BY <2>9, <3>3, <4>5, Zenon
        <5>2. R2[i][j] = d * R1[i][j] - R1[i][p] * 0
          BY <4>3, <5>1, Zenon
        <5>3. PICK x \in Int, y \in Int, z \in Int, u \in Int : x = d /\ y = R1[i][j] /\ z = R1[i][p] /\ u = w1[i]
          BY <1>3, <3>2, <3>3, Zenon
        <5>4. x * y - z * 0 = x * y /\ (y = 0 => x * y = 0) /\ x * u = u * x
          OBVIOUS
        <5>5. R2[i][j] = x * y /\ y = (IF i = j THEN u ELSE 0) /\ w2[i] = u * x
          BY <4>2, <5>1, <5>2, <5>3, <5>4, Zenon
        <5> QED BY <5>4, <5>5, Zenon
      <4> QED BY <4>4, <4>5
    <3> QED BY <3>4, <3>5
  <2>12. p + 1 \in 1 .. 4 /\ new = [i \in Three |-> new[i]]
    BY <1>3, <2>2 DEF Three
  <2>13. s => NoPivotLeft(m, p + 1, new)
    BY <1>3, Zenon
  <2>14. SolveFacts(m, v, p + 1, s, new)
    BY <1>4, <2>10, <2>11, <2>12, <2>13, Zenon DEF SolveFacts
  <2> QED BY <2>4, <2>14, Zenon DEF SolveInv
<1> QED BY <1>15, <1>16

\* A difference, for every pair it may represent.
LEMMA MinusRepOf ==
    ASSUME NEW a, NEW b
    PROVE  \A n, d, m, e : Rep(a, n, d) /\ Rep(b, m, e) => Rep(Minus(a, b), n * e - m * d, d * e)
  BY MinusRep, SMT

\* An integer is itself over one.
LEMMA OverOneRep == ASSUME NEW n \in Int PROVE Rep(<<n, 1>>, n, 1)
  BY DEF Rep

\* Once every column is done the right-hand sides over their weights solve each row.
LEMMA RowIsSolved ==
    ASSUME NEW A, NEW U, NEW R, NEW B, NEW k, NEW w, NEW rows, Tied(A, U, R, B, k, w, rows), UnitColumns(R, w, 4),
           NEW i \in Three, NEW z, z = Zero
    PROVE  Equal(Minus(<<A[i][4], 1>>, Times(<<A[i][1], 1>>, rows[1][4])),
                 Minus(z, Minus(Minus(z, Times(<<A[i][2], 1>>, rows[2][4])), Times(<<A[i][3], 1>>, rows[3][4]))))
<1>0. 1 \in Three /\ 2 \in Three /\ 3 \in Three /\ \A j \in Three : j < 4
  BY DEF Three
<1>e. TiedEntries(A, U, R, B, k, w, rows)
  BY EntriesAre, SMT
<1>1. PICK h \in Int, y \in Int, a1 \in Int, a2 \in Int, a3 \in Int, b1 \in Int, b2 \in Int, b3 \in Int :
        /\ h = k /\ y = A[i][4] /\ a1 = A[i][1] /\ a2 = A[i][2] /\ a3 = A[i][3]
        /\ b1 = B[i][1] /\ b2 = B[i][2] /\ b3 = B[i][3]
  BY <1>e, <1>0, Zenon DEF TiedEntries
<1>2. PICK c1 \in Int, c2 \in Int, c3 \in Int, x1 \in Int, x2 \in Int, x3 \in Int :
        /\ c1 = R[1][4] /\ c2 = R[2][4] /\ c3 = R[3][4] /\ x1 = w[1] /\ x2 = w[2] /\ x3 = w[3]
  BY <1>e, <1>0, Zenon DEF TiedEntries
<1>3. h # 0 /\ x1 # 0 /\ x2 # 0 /\ x3 # 0
  BY <1>e, <1>0, <1>1, <1>2, Zenon DEF TiedEntries
<1>4. h * a1 = b1 * x1 /\ h * a2 = b2 * x2 /\ h * a3 = b3 * x3
  <2>1. /\ R[1][1] = x1 /\ R[2][1] = 0 /\ R[3][1] = 0
        /\ R[1][2] = 0 /\ R[2][2] = x2 /\ R[3][2] = 0
        /\ R[1][3] = 0 /\ R[2][3] = 0 /\ R[3][3] = x3
    <3>1. \A q, j \in Three : R[q][j] = IF q = j THEN w[q] ELSE 0
      BY <1>0, Zenon DEF UnitColumns
    <3>2. 1 # 2 /\ 1 # 3 /\ 2 # 3
      OBVIOUS
    <3> QED BY <1>0, <1>2, <3>1, <3>2, Zenon
  <2>2. h * a1 = b1 * x1 + b2 * 0 + b3 * 0
    BY <1>e, <1>0, <1>1, <2>1, Zenon DEF TiedEntries, Dot
  <2>3. h * a2 = b1 * 0 + b2 * x2 + b3 * 0
    BY <1>e, <1>0, <1>1, <2>1, Zenon DEF TiedEntries, Dot
  <2>4. h * a3 = b1 * 0 + b2 * 0 + b3 * x3
    BY <1>e, <1>0, <1>1, <2>1, Zenon DEF TiedEntries, Dot
  <2>5. /\ b1 * x1 + b2 * 0 + b3 * 0 = b1 * x1 /\ b1 * 0 + b2 * x2 + b3 * 0 = b2 * x2
        /\ b1 * 0 + b2 * 0 + b3 * x3 = b3 * x3
    OBVIOUS
  <2> QED BY <2>2, <2>3, <2>4, <2>5, Zenon
<1>5. h * y = b1 * c1 + b2 * c2 + b3 * c3
  BY <1>e, <1>0, <1>1, <1>2, Zenon DEF TiedEntries, Dot
<1>6. ((y * x1 - a1 * c1) * (x2 * x3)) * h = (((a2 * c2) * x3 + (a3 * c3) * x2) * x1) * h
  <2>1. ((y * x1 - a1 * c1) * (x2 * x3)) * h = (h * y) * ((x1 * x2) * x3) - (h * a1) * (c1 * (x2 * x3))
    OBVIOUS
  <2>2. (((a2 * c2) * x3 + (a3 * c3) * x2) * x1) * h = (h * a2) * ((c2 * x3) * x1) + (h * a3) * ((c3 * x2) * x1)
    OBVIOUS
  <2>3. (b1 * c1 + b2 * c2 + b3 * c3) * ((x1 * x2) * x3) - (b1 * x1) * (c1 * (x2 * x3))
          = (b2 * x2) * ((c2 * x3) * x1) + (b3 * x3) * ((c3 * x2) * x1)
    OBVIOUS
  <2> QED BY <1>4, <1>5, <2>1, <2>2, <2>3, Zenon
<1>7. PICK n1 \in Int, n2 \in Int, n3 \in Int : n1 = a1 * c1 /\ n2 = a2 * c2 /\ n3 = a3 * c3
  OBVIOUS
<1>8. PICK t1, t2, t3 : /\ t1 = Times(<<a1, 1>>, rows[1][4]) /\ t2 = Times(<<a2, 1>>, rows[2][4])
                        /\ t3 = Times(<<a3, 1>>, rows[3][4])
  OBVIOUS
<1>9. Rep(t1, n1, x1) /\ Rep(t2, n2, x2) /\ Rep(t3, n3, x3)
  <2>1. ASSUME NEW a \in Int, NEW f, NEW c, NEW x \in Int, Rep(f, c, x) PROVE Rep(Times(<<a, 1>>, f), a * c, x)
    <3>1. PICK g, o : g = <<a, 1>> /\ o = 1
      OBVIOUS
    <3>2. Rep(g, a, o)
      BY <3>1, OverOneRep, Zenon
    <3>3. Rep(Times(g, f), a * c, o * x)
      BY <2>1, <3>2, TimesRep, SMT
    <3>4. 1 * x = x
      OBVIOUS
    <3> QED BY <3>1, <3>3, <3>4, Zenon
  <2>2. Rep(rows[1][4], c1, x1) /\ Rep(rows[2][4], c2, x2) /\ Rep(rows[3][4], c3, x3)
    BY <1>e, <1>0, <1>2, Zenon DEF TiedEntries
  <2>3. Rep(t1, a1 * c1, x1) /\ Rep(t2, a2 * c2, x2) /\ Rep(t3, a3 * c3, x3)
    BY <1>8, <2>1, <2>2, Zenon
  <2> QED BY <1>7, <2>3, Zenon
<1>10. PICK l, r1, r2, r : /\ l = Minus(<<y, 1>>, t1) /\ r1 = Minus(z, t2) /\ r2 = Minus(r1, t3) /\ r = Minus(z, r2)
  OBVIOUS
<1>11. Rep(z, 0, 1)
  BY DEF Zero, Rep
<1>12. Rep(l, y * x1 - n1, x1)
  <2>1. PICK g, o : g = <<y, 1>> /\ o = 1
    OBVIOUS
  <2>2. Rep(g, y, o)
    BY <2>1, OverOneRep, Zenon
  <2>3. Rep(Minus(g, t1), y * x1 - n1 * o, o * x1)
    BY <1>9, <2>2, MinusRep, SMT
  <2>4. n1 * 1 = n1 /\ 1 * x1 = x1
    OBVIOUS
  <2> QED BY <1>10, <2>1, <2>3, <2>4, Zenon
<1>13. ASSUME NEW f, NEW n \in Int, NEW x \in Int, Rep(f, n, x) PROVE Rep(Minus(z, f), 0 - n, x)
  <2>1. PICK nil, o : nil = 0 /\ o = 1
    OBVIOUS
  <2>2. Rep(z, nil, o)
    BY <1>11, <2>1, Zenon
  <2>3. Rep(Minus(z, f), nil * x - n * o, o * x)
    BY <1>13, <2>2, MinusRep, SMT
  <2>4. 0 * x - n * 1 = 0 - n /\ 1 * x = x
    OBVIOUS
  <2> QED BY <2>1, <2>3, <2>4, Zenon
<1>14. Rep(r1, 0 - n2, x2)
  BY <1>9, <1>10, <1>13, Zenon
<1>15. PICK m \in Int, e \in Int : m = (0 - n2) * x3 - n3 * x2 /\ e = x2 * x3
  <2>1. (0 - n2) * x3 - n3 * x2 \in Int /\ x2 * x3 \in Int
    OBVIOUS
  <2> QED BY <2>1, Zenon
<1>16. Rep(r2, m, e)
  <2>1. PICK u : u = 0 - n2
    OBVIOUS
  <2>2. Rep(Minus(r1, t3), u * x3 - n3 * x2, x2 * x3)
    <3>1. Rep(r1, u, x2) /\ Rep(t3, n3, x3)
      BY <1>9, <1>14, <2>1, Zenon
    <3> QED BY <3>1, MinusRepOf, Zenon
  <2> QED BY <1>10, <1>15, <2>1, <2>2, Zenon
<1>17. Rep(r, 0 - m, e)
  BY <1>10, <1>13, <1>16, Zenon
<1>18. Equal(l, r) <=> (y * x1 - n1) * e = (0 - m) * x1
  <2>1. PICK u, v : u = y * x1 - n1 /\ v = 0 - m
    OBVIOUS
  <2>2. Rep(l, u, x1) /\ Rep(r, v, e)
    BY <1>12, <1>17, <2>1, Zenon
  <2>3. Equal(l, r) <=> u * e = v * x1
    BY <2>2, EqualRep, SMT
  <2> QED BY <2>1, <2>3, Zenon
<1>19. (y * x1 - n1) * e = (0 - m) * x1
  <2>1. (y * x1 - a1 * c1) * (x2 * x3) = ((a2 * c2) * x3 + (a3 * c3) * x2) * x1
    <3>1. (y * x1 - a1 * c1) * (x2 * x3) \in Int /\ ((a2 * c2) * x3 + (a3 * c3) * x2) * x1 \in Int
      OBVIOUS
    <3> QED BY <1>3, <1>6, <3>1, Cancel, Zenon
  <2>2. (y * x1 - n1) * (x2 * x3) = (n2 * x3 + n3 * x2) * x1
    BY <1>7, <2>1, Zenon
  <2>3. 0 - ((0 - n2) * x3 - n3 * x2) = n2 * x3 + n3 * x2
    OBVIOUS
  <2> QED BY <1>15, <2>2, <2>3, Zenon
<1> QED BY <1>1, <1>8, <1>10, <1>18, <1>19, Zenon

\* A system whose columns are all done is regular.
LEMMA DoneIsRegular ==
    ASSUME NEW A, NEW U, NEW R, NEW B, NEW k, NEW w, NEW rows, Tied(A, U, R, B, k, w, rows), UnitColumns(R, w, 4)
    PROVE  Determinant(A) # 0
<1>0. 1 \in Three /\ 2 \in Three /\ 3 \in Three /\ \A j \in Three : j < 4
  BY DEF Three
<1>e. TiedEntries(A, U, R, B, k, w, rows)
  BY EntriesAre, SMT
<1>1. PICK x1 \in Int, x2 \in Int, x3 \in Int : x1 = w[1] /\ x2 = w[2] /\ x3 = w[3] /\ x1 # 0 /\ x2 # 0 /\ x3 # 0
  <2>1. \A i \in Three : w[i] \in Int /\ w[i] # 0
    BY <1>e, Zenon DEF TiedEntries
  <2> QED BY <1>0, <2>1
<1>2. /\ R[1][1] = x1 /\ R[2][1] = 0 /\ R[3][1] = 0
      /\ R[1][2] = 0 /\ R[2][2] = x2 /\ R[3][2] = 0
      /\ R[1][3] = 0 /\ R[2][3] = 0 /\ R[3][3] = x3
  <2>1. \A q, j \in Three : R[q][j] = IF q = j THEN w[q] ELSE 0
    BY <1>0, Zenon DEF UnitColumns
  <2>2. 1 # 2 /\ 1 # 3 /\ 2 # 3
    OBVIOUS
  <2> QED BY <1>0, <1>1, <2>1, <2>2, Zenon
<1>3. Determinant(R) = x1 * (x2 * x3 - 0 * 0) - 0 * (0 * x3 - 0 * 0) + 0 * (0 * 0 - x2 * 0)
  BY <1>2, Zenon DEF Determinant
<1>4. x1 * (x2 * x3 - 0 * 0) - 0 * (0 * x3 - 0 * 0) + 0 * (0 * 0 - x2 * 0) = x1 * (x2 * x3)
  OBVIOUS
<1>5. Determinant(R) # 0
  <2>1. x2 * x3 \in Int /\ x2 * x3 # 0
    BY <1>1, NotZero, Whole, Zenon
  <2>2. x1 * (x2 * x3) # 0
    BY <1>1, <2>1, NotZero, Zenon
  <2> QED BY <1>3, <1>4, <2>2, Zenon
<1>6. Determinant(R) = Determinant(U) * Determinant(A)
  <2>1. (\A i, j \in Three : U[i][j] \in Int /\ A[i][j] \in Int) /\ \A i, j \in Three : R[i][j] = Dot(U[i], A, j)
    BY <1>e, Zenon DEF TiedEntries
  <2> QED BY <2>1, DeterminantOfProduct, Zenon
<1>7. Determinant(U) \in Int
  <2>1. \A i, j \in Three : U[i][j] \in Int
    BY <1>e, Zenon DEF TiedEntries
  <2>2. /\ U[1][1] \in Int /\ U[1][2] \in Int /\ U[1][3] \in Int /\ U[2][1] \in Int /\ U[2][2] \in Int /\ U[2][3] \in Int
        /\ U[3][1] \in Int /\ U[3][2] \in Int /\ U[3][3] \in Int
    BY <1>0, <2>1, Zenon
  <2> QED BY <2>2 DEF Determinant
<1>8. \A x \in Int : x * 0 = 0
  OBVIOUS
<1> QED BY <1>5, <1>6, <1>7, <1>8, Zenon

\* The linear solver invariant gives the property its calls are checked for.
LEMMA SolveInvHolds == SolveInv => SolutionSolves
<1> SUFFICES ASSUME SolveInv, subject = "solve"
             PROVE  /\ st.singular =>
                           /\ \A q \in st.pivot .. 3 : TooSmall(st.rows[q][st.pivot])
                           /\ (\A q \in st.pivot .. 3 : Equal(st.rows[q][st.pivot], Zero))
                                  => Determinant(st.matrix) = 0
                    /\ st.pivot = 4 =>
                           /\ Determinant(st.matrix) # 0
                           /\ \A i \in Three :
                                  Equal(Minus(<<st.vector[i], 1>>, Times(<<st.matrix[i][1], 1>>, st.rows[1][4])),
                                        Minus(Zero, Minus(Minus(Zero, Times(<<st.matrix[i][2], 1>>, st.rows[2][4])),
                                                          Times(<<st.matrix[i][3], 1>>, st.rows[3][4]))))
  BY Zenon DEF SolutionSolves
<1>1. PICK m, v, p, s, rows : st = SolveRecord(m, v, p, s, rows) /\ SolveFacts(m, v, p, s, rows)
  BY Zenon DEF SolveInv
<1>2. st.matrix = m /\ st.vector = v /\ st.pivot = p /\ st.rows = rows /\ st.singular = s
  BY <1>1 DEF SolveRecord
<1>3. st.singular => NoPivotLeft(m, p, rows)
  BY <1>1, <1>2, Zenon DEF SolveFacts
<1>4. PICK A, U, R, B, k, w : Tied(A, U, R, B, k, w, rows) /\ UnitColumns(R, w, p) /\ SameSystem(m, v, A)
  BY <1>1, Zenon DEF SolveFacts
<1>5. ASSUME p = 4 PROVE Determinant(st.matrix) # 0
  <2>1. Determinant(A) # 0
    <3>1. PICK c : c = 4
      OBVIOUS
    <3>2. UnitColumns(R, w, 4)
      BY <1>4, <1>5, Zenon
    <3> QED BY <1>4, <3>2, DoneIsRegular, SMT
  <2> QED BY <1>2, <1>4, <2>1, SameDeterminant, Zenon
<1>6. ASSUME p = 4, NEW i \in Three
      PROVE  Equal(Minus(<<v[i], 1>>, Times(<<m[i][1], 1>>, rows[1][4])),
                   Minus(Zero, Minus(Minus(Zero, Times(<<m[i][2], 1>>, rows[2][4])), Times(<<m[i][3], 1>>, rows[3][4]))))
  <2>1. UnitColumns(R, w, 4)
    BY <1>4, <1>6, Zenon
  <2>2. PICK z : z = Zero
    OBVIOUS
  <2>3. Equal(Minus(<<A[i][4], 1>>, Times(<<A[i][1], 1>>, rows[1][4])),
              Minus(z, Minus(Minus(z, Times(<<A[i][2], 1>>, rows[2][4])), Times(<<A[i][3], 1>>, rows[3][4]))))
    BY <1>4, <2>1, <2>2, RowIsSolved, SMT
  <2>4. v[i] = A[i][4] /\ m[i][1] = A[i][1] /\ m[i][2] = A[i][2] /\ m[i][3] = A[i][3]
    <3>1. 1 \in Three /\ 2 \in Three /\ 3 \in Three
      BY DEF Three
    <3> QED BY <1>4, <3>1, Zenon DEF SameSystem
  <2> QED BY <2>2, <2>3, <2>4, Zenon
<1> QED BY <1>2, <1>3, <1>5, <1>6, Zenon DEF NoPivotLeft
-----------------------------------------------------------------------------
(***************************************************************************)
(* Products: the whole.                                                    *)
(***************************************************************************)
ProductsInv == LawInv /\ SolveInv /\ StageInv /\ A16Inv

\* The part of the invariant about a product says nothing while another is computed.
LEMMA ProductsElse ==
    /\ (subject # "law" => LawInv) /\ (subject' # "law" => LawInv')
    /\ (subject # "solve" => SolveInv) /\ (subject' # "solve" => SolveInv')
    /\ (subject # "stage" => StageInv) /\ (subject' # "stage" => StageInv')
    /\ (subject # "a16" => A16Inv) /\ (subject' # "a16" => A16Inv')
<1>1. (subject # "law" => LawInv) /\ (subject' # "law" => LawInv')
  BY Zenon DEF LawInv
<1>2. (subject # "solve" => SolveInv) /\ (subject' # "solve" => SolveInv')
  BY Zenon DEF SolveInv
<1>3. (subject # "stage" => StageInv) /\ (subject' # "stage" => StageInv')
  BY Zenon DEF StageInv
<1>4. (subject # "a16" => A16Inv) /\ (subject' # "a16" => A16Inv')
  BY Zenon DEF A16Inv
<1> QED BY <1>1, <1>2, <1>3, <1>4

\* One part is enough for the product it is about.
LEMMA ProductsOne ==
    /\ (subject = "law" /\ LawInv => ProductsInv) /\ (subject' = "law" /\ LawInv' => ProductsInv')
    /\ (subject = "solve" /\ SolveInv => ProductsInv) /\ (subject' = "solve" /\ SolveInv' => ProductsInv')
    /\ (subject = "stage" /\ StageInv => ProductsInv) /\ (subject' = "stage" /\ StageInv' => ProductsInv')
    /\ (subject = "a16" /\ A16Inv => ProductsInv) /\ (subject' = "a16" /\ A16Inv' => ProductsInv')
<1>1. (subject = "law" /\ LawInv => ProductsInv) /\ (subject' = "law" /\ LawInv' => ProductsInv')
  BY ProductsElse DEF ProductsInv
<1>2. (subject = "solve" /\ SolveInv => ProductsInv) /\ (subject' = "solve" /\ SolveInv' => ProductsInv')
  BY ProductsElse DEF ProductsInv
<1>3. (subject = "stage" /\ StageInv => ProductsInv) /\ (subject' = "stage" /\ StageInv' => ProductsInv')
  BY ProductsElse DEF ProductsInv
<1>4. (subject = "a16" /\ A16Inv => ProductsInv) /\ (subject' = "a16" /\ A16Inv' => ProductsInv')
  BY ProductsElse DEF ProductsInv
<1> QED BY <1>1, <1>2, <1>3, <1>4

\* A computation that has not begun.
LEMMA ProductsInits == ProductsInit => ProductsInv
<1>1. ASSUME LawInit PROVE ProductsInv
  <2>1. subject = "law"
    BY <1>1, Zenon DEF LawInit
  <2> QED BY <1>1, <2>1, LawInits, ProductsOne
<1>2. ASSUME SolveInit PROVE ProductsInv
  <2>1. subject = "solve"
    BY <1>2, Zenon DEF SolveInit
  <2> QED BY <1>2, <2>1, SolveInits, ProductsOne
<1>3. ASSUME StageInit PROVE ProductsInv
  <2>1. subject = "stage"
    BY <1>3, Zenon DEF StageInit
  <2> QED BY <1>3, <2>1, StageInits, ProductsOne
<1>4. ASSUME A16Init PROVE ProductsInv
  <2>1. subject = "a16"
    BY <1>4, Zenon DEF A16Init
  <2> QED BY <1>4, <2>1, A16Inits, ProductsOne
<1> QED BY <1>1, <1>2, <1>3, <1>4 DEF ProductsInit

\* Every step of a product keeps the invariant.
LEMMA ProductsSteps == ProductsInv /\ ProductsNext => ProductsInv'
<1> SUFFICES ASSUME ProductsInv, ProductsNext PROVE ProductsInv'
  OBVIOUS
<1>0. LawInv /\ SolveInv /\ StageInv /\ A16Inv
  BY DEF ProductsInv
<1>1. CASE FitLaw \/ CompareWithNull
  <2>1. subject' = "law"
    BY <1>1, Zenon DEF FitLaw, CompareWithNull, Step
  <2> QED BY <1>0, <1>1, <2>1, LawSteps, ProductsOne
<1>2. CASE Eliminate
  <2>1. subject' = "solve"
    BY <1>2, Zenon DEF Eliminate, Step
  <2> QED BY <1>0, <1>2, <2>1, SolveSteps, ProductsOne
<1>3. CASE ResolveRuntime \/ RunWorkload \/ ValidateStage
  <2>1. subject' = "stage"
    BY <1>3, Zenon DEF ResolveRuntime, RunWorkload, ValidateStage, StageRaise, Step
  <2> QED BY <1>0, <1>3, <2>1, StageSteps, ProductsOne
<1>4. CASE LoadStages \/ BuildProduct \/ IssueReceipt \/ AlterReceipt \/ ValidateA16
  <2>1. subject' = "a16"
    BY <1>4, Zenon DEF LoadStages, BuildProduct, IssueReceipt, AlterReceipt, ValidateA16, A16UnderWay, A16Refuse, Step
  <2> QED BY <1>0, <1>4, <2>1, A16BuildSteps, A16ReceiptSteps, ProductsOne
<1> QED BY <1>1, <1>2, <1>3, <1>4 DEF ProductsNext

\* A step of anything else leaves the products alone.
LEMMA ProductsUnmoved == ProductsInv /\ UNCHANGED frame => ProductsInv'
<1> SUFFICES ASSUME ProductsInv, UNCHANGED frame PROVE ProductsInv'
  OBVIOUS
<1>0. subject' = subject /\ st' = st
  BY DEF frame
<1>5. LawInv /\ SolveInv /\ StageInv /\ A16Inv
  BY DEF ProductsInv
<1>1. LawInv'
  BY <1>0, <1>5, Zenon DEF LawInv
<1>2. SolveInv'
  BY <1>0, <1>5, Zenon DEF SolveInv
<1>3. StageInv'
  BY <1>0, <1>5, Zenon DEF StageInv
<1>4. A16Inv'
  BY <1>0, <1>5, Zenon DEF A16Inv
<1> QED BY <1>1, <1>2, <1>3, <1>4 DEF ProductsInv

\* The invariant gives what a product promises.
LEMMA ProductsInvHolds == ProductsInv => ProductsEarned
BY LawInvHolds, SolveInvHolds, StageInvHolds, A16InvHolds DEF ProductsInv, ProductsEarned
=============================================================================
