--------------------------- MODULE AlgorithmProofs ---------------------------
(***************************************************************************)
(* What the algorithms of the catalog, the autonomy policy, the planner,   *)
(* the packs and the contract layer return for inputs of any length, and   *)
(* the invariants of those components: walks along a path, orders of       *)
(* steps, sorting, hash trees, traversals, encodings.  A recursive         *)
(* function is shown to satisfy its own equation first (Recursion); an     *)
(* induction is one over the set of numbers that have the property         *)
(* (Induction).  ServicesProofs makes theorems of the whole system of it.  *)
(***************************************************************************)
EXTENDS Catalog, Autonomy, Planning, Packs, Contracts, FiniteSetTheorems, SequenceTheorems,
        NaturalsInduction, TLAPS

\* Every set of numbers that is not empty has a least one.
LEMMA LeastOfNat == ASSUME NEW S \in SUBSET Nat, S # {} PROVE \E i \in S : \A j \in S : i <= j
<1>1. \E i \in S : \A j \in S : <<j, i>> \notin OpToRel(<, Nat)
  BY NatLessThanWellFounded, WFMin
<1>2. ASSUME NEW i \in S, NEW j \in S, <<j, i>> \notin OpToRel(<, Nat) PROVE i <= j
  BY <1>2 DEF OpToRel
<1> QED BY <1>1, <1>2

\* A set of naturals that holds zero and every successor holds all of them.
LEMMA Induction ==
    ASSUME NEW S \in SUBSET Nat, 0 \in S, \A n \in S : n + 1 \in S
    PROVE  S = Nat
<1> SUFFICES ASSUME Nat \ S # {} PROVE FALSE
  OBVIOUS
<1>1. PICK m \in Nat \ S : \A j \in Nat \ S : m <= j
  BY LeastOfNat
<1>2. m # 0 /\ m - 1 \in Nat
  BY <1>1
<1>3. m - 1 \in S
  BY <1>1, <1>2
<1> QED BY <1>1, <1>2, <1>3

\* The same up to a bound.
LEMMA InductionUpTo ==
    ASSUME NEW n \in Nat, NEW S, 0 \in S, \A i \in 0 .. n - 1 : i \in S => i + 1 \in S
    PROVE  \A i \in 0 .. n : i \in S
<1> DEFINE T == {i \in Nat : i <= n => i \in S}
<1>1. T \in SUBSET Nat /\ 0 \in T
  OBVIOUS
<1>2. ASSUME NEW i \in T PROVE i + 1 \in T
  <2>1. i \in Nat
    OBVIOUS
  <2>2. CASE i + 1 <= n
    <3>1. i \in 0 .. n - 1 /\ i <= n
      BY <2>1, <2>2
    <3>2. i \in S
      BY <3>1
    <3> QED BY <2>1, <3>1, <3>2
  <2>3. CASE ~(i + 1 <= n)
    BY <2>1, <2>3
  <2> QED BY <2>2, <2>3
<1> HIDE DEF T
<1>3. T = Nat
  BY <1>1, <1>2, Induction
<1> QED BY <1>3 DEF T

\* F takes a value of V and the number of a step to the value after that step; f
\* holds the values along n steps from v.
Carrier(F, n, V) == F \in [V \X (1 .. n) -> V]
Carried(f, n, V, v, F) ==
    f \in [0 .. n -> V] /\ f[0] = v /\ \A i \in 1 .. n : f[i] = F[<<f[i - 1], i>>]

\* A value that is carried from step to step is defined for every number of steps.
LEMMA Recursion ==
    ASSUME NEW n \in Nat, NEW V, NEW v \in V, NEW F, Carrier(F, n, V)
    PROVE  \E f : Carried(f, n, V, v, F)
<1> USE DEF Carrier, Carried
<1> DEFINE Upto(f, m) == /\ f \in [0 .. n -> V] /\ f[0] = v
                         /\ \A i \in 1 .. m : f[i] = F[<<f[i - 1], i>>]
           S == {m \in 0 .. n : \E f : Upto(f, m)}
<1>1. 0 \in S
  <2> PICK f : f = [i \in 0 .. n |-> v]
    OBVIOUS
  <2>1. Upto(f, 0)
    OBVIOUS
  <2> QED BY <2>1
<1>2. ASSUME NEW m \in 0 .. n - 1, m \in S PROVE m + 1 \in S
  <2>1. PICK f : Upto(f, m)
    BY <1>2
  <2>2. m + 1 \in 1 .. n /\ m \in 0 .. n /\ m + 1 \in 0 .. n
    OBVIOUS
  <2>3. F[<<f[m], m + 1>>] \in V
    BY <2>1, <2>2
  <2> DEFINE g == [i \in 0 .. n |-> IF i = m + 1 THEN F[<<f[m], m + 1>>] ELSE f[i]]
  <2>4. g \in [0 .. n -> V] /\ g[0] = v
    BY <2>1, <2>2, <2>3
  <2>5. ASSUME NEW i \in 1 .. m + 1 PROVE g[i] = F[<<g[i - 1], i>>]
    <3>1. i \in 0 .. n /\ i - 1 \in 0 .. n /\ i - 1 # m + 1
      BY <2>2
    <3>2. g[i - 1] = f[i - 1]
      BY <3>1
    <3>3. CASE i = m + 1
      BY <3>1, <3>2, <3>3
    <3>4. CASE i # m + 1
      <4>1. i \in 1 .. m /\ g[i] = f[i]
        BY <3>1, <3>4
      <4> QED BY <2>1, <3>2, <4>1
    <3> QED BY <3>3, <3>4
  <2> HIDE DEF g
  <2> QED BY <2>2, <2>4, <2>5
<1> HIDE DEF S
<1>3. n \in S
  BY <1>1, <1>2, InductionUpTo
<1>4. PICK f : Upto(f, n)
  BY <1>3 DEF S
<1> QED BY <1>4
-----------------------------------------------------------------------------
(***************************************************************************)
(* Autonomy: the write scope.                                              *)
(***************************************************************************)
\* Without ".." a path leads where its parts other than "." say, never outside.
LEMMA NormalizedLeads ==
    ASSUME NEW n \in Nat, NEW p, p.parts \in [1 .. n -> {"a", "b", ".", ".."}],
           \A i \in 1 .. n : p.parts[i] # ".."
    PROVE  LeadsTo(p.parts) = Normalized(p) /\ Normalized(p) \in Seq({"a", "b"})
<1> DEFINE V == Seq({"a", "b"})
           Kept(g) == g = [i \in 0 .. Len(p.parts) |->
                             IF i = 0 THEN <<>> ELSE KeepPart(g[i - 1], p.parts[i])]
           Led(g) == g = [i \in 0 .. Len(p.parts) |->
                             IF i = 0 THEN <<>> ELSE Onward(g[i - 1], p.parts[i])]
<1>1. Len(p.parts) = n
  OBVIOUS
<1>2. <<>> \in V
  OBVIOUS
<1>3. ASSUME NEW v \in V, NEW i \in 1 .. n PROVE KeepPart(v, p.parts[i]) \in V /\ Onward(v, p.parts[i]) = KeepPart(v, p.parts[i])
  <2>1. p.parts[i] \in {"a", "b", "."}
    OBVIOUS
  <2>2. v # <<"outside">>
    <3> SUFFICES ASSUME v = <<"outside">> PROVE FALSE
      OBVIOUS
    <3>1. v[1] = "outside" /\ 1 \in 1 .. Len(v)
      OBVIOUS
    <3>2. v[1] \in {"a", "b"}
      BY <3>1
    <3> QED BY <3>1, <3>2
  <2>3. Onward(v, p.parts[i]) = KeepPart(v, p.parts[i])
    BY <2>1, <2>2 DEF Onward, KeepPart
  <2>4. KeepPart(v, p.parts[i]) \in V
    BY <2>1 DEF KeepPart
  <2> QED BY <2>3, <2>4
<1>4. PICK f \in [0 .. n -> V] : f = [i \in 0 .. n |-> IF i = 0 THEN <<>> ELSE KeepPart(f[i - 1], p.parts[i])]
  <2> DEFINE F == [x \in V \X (1 .. n) |-> KeepPart(x[1], p.parts[x[2]])]
  <2>1. F \in [V \X (1 .. n) -> V]
    BY <1>3
  <2>2. \A v \in V, i \in 1 .. n : F[<<v, i>>] = KeepPart(v, p.parts[i])
    OBVIOUS
  <2> HIDE DEF F, V
  <2>3. PICK f : Carried(f, n, V, <<>>, F)
    BY <1>2, <2>1, Recursion DEF Carrier
  <2>4. ASSUME NEW i \in 0 .. n PROVE f[i] = IF i = 0 THEN <<>> ELSE KeepPart(f[i - 1], p.parts[i])
    <3>1. CASE i # 0
      <4>1. i \in 1 .. n /\ i - 1 \in 0 .. n
        BY <3>1
      <4> QED BY <2>2, <2>3, <3>1, <4>1 DEF Carried
    <3> QED BY <2>3, <3>1 DEF Carried
  <2> QED BY <2>3, <2>4 DEF Carried
<1>5. Kept(f)
  BY <1>1, <1>4
<1>6. Led(f)
  <2>1. ASSUME NEW i \in 0 .. n PROVE f[i] = IF i = 0 THEN <<>> ELSE Onward(f[i - 1], p.parts[i])
    <3>1. CASE i # 0
      <4>1. i \in 1 .. n /\ f[i - 1] \in V
        BY <3>1
      <4>2. Onward(f[i - 1], p.parts[i]) = KeepPart(f[i - 1], p.parts[i])
        BY <1>3, <4>1
      <4> QED BY <1>4, <3>1, <4>2
    <3> QED BY <1>4, <3>1
  <2> QED BY <1>1, <2>1
<1>7. PICK g : Kept(g) /\ Normalized(p) = g[Len(p.parts)]
  <2>1. Kept(CHOOSE g : Kept(g))
    BY <1>5, Zenon
  <2> QED BY <2>1, Zenon DEF Normalized
<1>8. PICK h : Led(h) /\ LeadsTo(p.parts) = h[Len(p.parts)]
  <2>1. Led(CHOOSE h : Led(h))
    BY <1>6, Zenon
  <2> QED BY <2>1, Zenon DEF LeadsTo
<1> DEFINE S == {j \in 0 .. n : g[j] = h[j] /\ g[j] \in V}
<1>9. \A i \in 0 .. n : i \in S
  <2>1. 0 \in S
    BY <1>1, <1>2, <1>7, <1>8
  <2>2. ASSUME NEW i \in 0 .. n - 1, i \in S PROVE i + 1 \in S
    <3>1. i + 1 \in 1 .. n /\ i + 1 \in 0 .. n /\ i + 1 - 1 = i /\ i + 1 # 0
      OBVIOUS
    <3>2. g[i] = h[i] /\ g[i] \in V
      BY <2>2
    <3>3. g[i + 1] = KeepPart(g[i], p.parts[i + 1])
      <4>1. g = [j \in 0 .. n |-> IF j = 0 THEN <<>> ELSE KeepPart(g[j - 1], p.parts[j])]
        BY <1>1, <1>7
      <4>2. \A j \in 0 .. n : g[j] = IF j = 0 THEN <<>> ELSE KeepPart(g[j - 1], p.parts[j])
        BY <4>1, Zenon
      <4>3. g[i + 1] = IF i + 1 = 0 THEN <<>> ELSE KeepPart(g[(i + 1) - 1], p.parts[i + 1])
        BY <3>1, <4>2, Zenon
      <4>4. (i + 1) - 1 = i
        OBVIOUS
      <4> QED BY <3>1, <4>3, <4>4
    <3>4. h[i + 1] = Onward(h[i], p.parts[i + 1])
      BY <1>1, <1>8, <3>1
    <3>5. KeepPart(g[i], p.parts[i + 1]) \in V /\ Onward(g[i], p.parts[i + 1]) = KeepPart(g[i], p.parts[i + 1])
      BY <1>3, <3>1, <3>2
    <3> QED BY <3>1, <3>2, <3>3, <3>4, <3>5
  <2> HIDE DEF S
  <2> QED BY <2>1, <2>2, InductionUpTo
<1> HIDE DEF V
<1>10. n \in 0 .. n
  OBVIOUS
<1> QED BY <1>1, <1>7, <1>8, <1>9, <1>10 DEF V

ScopeShape == st = [path |-> st.path, owned |-> st.owned, answer |-> st.answer]
PathFacts(p) == \E n \in Nat : p.parts \in [1 .. n -> {"a", "b", ".", ".."}]

ScopeInv ==
    subject = "scope" =>
        /\ ScopeShape /\ PathFacts(st.path) /\ \A o \in st.owned : PathFacts(o)
        /\ st.answer \subseteq {CheckWrite(st.path, st.owned)}

\* What the check accepts leads inside.
LEMMA AcceptedLeadsInside ==
    ASSUME NEW path, NEW owned, PathFacts(path), \A o \in owned : PathFacts(o),
           CheckWrite(path, owned) = "ok"
    PROVE  /\ path.form = "relative"
           /\ \E o \in owned : /\ LeadsTo(path.parts) # <<"outside">>
                               /\ IsWithin(LeadsTo(path.parts), LeadsTo(o.parts))
<1>1. /\ ~NormalizeRefuses(path) /\ \A o \in owned : ~NormalizeRefuses(o)
      /\ \E o \in owned : IsWithin(Normalized(path), Normalized(o))
  BY DEF CheckWrite
<1>2. PICK o \in owned : IsWithin(Normalized(path), Normalized(o))
  BY <1>1
<1>3. ASSUME NEW p, PathFacts(p), ~NormalizeRefuses(p)
      PROVE  LeadsTo(p.parts) = Normalized(p) /\ Normalized(p) \in Seq({"a", "b"})
  <2> PICK n \in Nat : p.parts \in [1 .. n -> {"a", "b", ".", ".."}]
    BY <1>3 DEF PathFacts
  <2>1. \A i \in 1 .. n : p.parts[i] # ".."
    BY <1>3 DEF NormalizeRefuses
  <2> QED BY <2>1, NormalizedLeads
<1>4. LeadsTo(path.parts) = Normalized(path) /\ Normalized(path) \in Seq({"a", "b"})
  BY <1>1, <1>3
<1>5. LeadsTo(o.parts) = Normalized(o)
  BY <1>1, <1>3
<1>6. Normalized(path) # <<"outside">>
  <2> SUFFICES ASSUME Normalized(path) = <<"outside">> PROVE FALSE
    OBVIOUS
  <2> PICK v \in Seq({"a", "b"}) : v = <<"outside">>
    BY <1>4
  <2>1. v[1] = "outside" /\ 1 \in 1 .. Len(v)
    OBVIOUS
  <2>2. v[1] \in {"a", "b"}
    BY <2>1
  <2> QED BY <2>1, <2>2
<1> QED BY <1>1, <1>2, <1>4, <1>5, <1>6 DEF NormalizeRefuses
-----------------------------------------------------------------------------
(***************************************************************************)
(* Autonomy: resuming.                                                     *)
(***************************************************************************)

DecisionSound(d) ==
    /\ d.on.external => d.is = "STOP_EXTERNAL"
    /\ d.on.dirty /\ ~d.on.external => d.is = "STOP_DRIFT"
    /\ d.on.changed => d.is \in {"STOP_EXTERNAL", "STOP_DRIFT", "RERUN"}
    /\ ~d.on.checks => d.is # "REUSE_COMMIT" /\ ~PermitsMerge(d.is)

ResumeInv ==
    subject = "resume" =>
        /\ st = [wp |-> st.wp, steps |-> st.steps, observed |-> st.observed, decision |-> st.decision]
        /\ \A d \in st.decision : DecisionSound(d)

\* The rules by their number.
LEMMA RulesInOrder ==
    /\ DOMAIN RESUME_RULES = 1 .. 9
    /\ RESUME_RULES[1] = "external" /\ RESUME_RULES[2] = "dirty"
    /\ RESUME_RULES[3] = "inputs_changed" /\ RESUME_RULES[4] = "outputs_verified"
    /\ RESUME_RULES[5] = "merged_checks_failing" /\ RESUME_RULES[6] = "merged_checks_passing"
    /\ RESUME_RULES[7] = "commit_checks_failing" /\ RESUME_RULES[8] = "commit_checks_passing"
    /\ RESUME_RULES[9] = "pr_open"
BY DEF RESUME_RULES

\* What the rules that matter here ask.
LEMMA RulesAsk ==
    ASSUME NEW o
    PROVE  /\ RuleHolds("external", o) <=> o.external
           /\ RuleHolds("dirty", o) <=> o.dirty
           /\ RuleHolds("inputs_changed", o) <=> o.changed
           /\ RuleHolds("merged_checks_passing", o) => o.checks
           /\ RuleHolds("commit_checks_passing", o) => o.checks
<1>1. RuleHolds("external", o) <=> o.external
  BY DEF RuleHolds
<1>2. RuleHolds("dirty", o) <=> o.dirty
  BY DEF RuleHolds
<1>3. RuleHolds("inputs_changed", o) <=> o.changed
  BY DEF RuleHolds
<1>4. RuleHolds("merged_checks_passing", o) => o.checks
  BY DEF RuleHolds
<1>5. RuleHolds("commit_checks_passing", o) => o.checks
  BY DEF RuleHolds
<1> QED BY <1>1, <1>2, <1>3, <1>4, <1>5

\* The rules, in their order, decide so that nothing is built on drift.
LEMMA ReconcileIsSound ==
    ASSUME NEW o, NEW d, d.on = o, d.is = Reconcile(o) PROVE DecisionSound(d)
<1>0. ASSUME NEW i PROVE i \in Holding(o) <=> (i \in 1 .. 9 /\ RuleHolds(RESUME_RULES[i], o))
  BY RulesInOrder, Zenon DEF Holding
<1>3. /\ 1 \in Holding(o) <=> o.external
      /\ 2 \in Holding(o) <=> o.dirty
      /\ 3 \in Holding(o) <=> o.changed
      /\ 6 \in Holding(o) => o.checks
      /\ 8 \in Holding(o) => o.checks
  <2>1. /\ 1 \in Holding(o) <=> RuleHolds("external", o)
        /\ 2 \in Holding(o) <=> RuleHolds("dirty", o)
        /\ 3 \in Holding(o) <=> RuleHolds("inputs_changed", o)
        /\ 6 \in Holding(o) <=> RuleHolds("merged_checks_passing", o)
        /\ 8 \in Holding(o) <=> RuleHolds("commit_checks_passing", o)
    <3>1. 1 \in 1 .. 9 /\ 2 \in 1 .. 9 /\ 3 \in 1 .. 9 /\ 6 \in 1 .. 9 /\ 8 \in 1 .. 9
      OBVIOUS
    <3>2. 1 \in Holding(o) <=> RuleHolds("external", o)
      BY <1>0, <3>1, RulesInOrder, Zenon
    <3>3. 2 \in Holding(o) <=> RuleHolds("dirty", o)
      BY <1>0, <3>1, RulesInOrder, Zenon
    <3>4. 3 \in Holding(o) <=> RuleHolds("inputs_changed", o)
      BY <1>0, <3>1, RulesInOrder, Zenon
    <3>5. 6 \in Holding(o) <=> RuleHolds("merged_checks_passing", o)
      BY <1>0, <3>1, RulesInOrder, Zenon
    <3>6. 8 \in Holding(o) <=> RuleHolds("commit_checks_passing", o)
      BY <1>0, <3>1, RulesInOrder, Zenon
    <3> QED BY <3>2, <3>3, <3>4, <3>5, <3>6
  <2> QED BY <2>1, RulesAsk, Zenon
<1>1. CASE Holding(o) = {}
  <2>1. d.is = "RERUN"
    BY <1>1 DEF Reconcile
  <2>2. 1 \notin Holding(o) /\ 2 \notin Holding(o)
    BY <1>1
  <2>3. ~o.external /\ ~o.dirty
    BY <1>3, <2>2, Zenon
  <2> QED BY <2>1, <2>3 DEF DecisionSound, PermitsMerge
<1>2. CASE Holding(o) # {}
  <2>1. PICK i : i = CHOOSE k \in Holding(o) : \A j \in Holding(o) : k <= j
    OBVIOUS
  <2>2. i \in Holding(o) /\ \A j \in Holding(o) : i <= j
    <3>1. Holding(o) \in SUBSET Nat
      BY <1>0
    <3>2. \E k \in Holding(o) : \A j \in Holding(o) : k <= j
      BY <1>2, <3>1, LeastOfNat
    <3> QED BY <2>1, <3>2, Zenon
  <2>3. i \in 1 .. 9
    BY <1>0, <2>2
  <2>4. d.is = RuleDecision[RESUME_RULES[i]]
    BY <1>2, <2>1, Zenon DEF Reconcile
  <2>5. /\ (1 \in Holding(o) => i = 1)
        /\ (2 \in Holding(o) => i \in {1, 2})
        /\ (3 \in Holding(o) => i \in 1 .. 3)
    BY <2>2, <2>3
  <2>6. /\ o.external => i = 1
        /\ o.dirty /\ ~o.external => i = 2
        /\ o.changed => i \in 1 .. 3
        /\ ~o.checks => i # 6 /\ i # 8
    <3>1. i = 1 => o.external
      BY <1>3, <2>2, Zenon
    <3>2. ~o.checks => i # 6 /\ i # 8
      BY <1>3, <2>2, Zenon
    <3>3. o.external => i = 1
      BY <1>3, <2>5, Zenon
    <3>4. o.dirty => i \in {1, 2}
      BY <1>3, <2>5, Zenon
    <3>5. o.changed => i \in 1 .. 3
      BY <1>3, <2>5, Zenon
    <3>6. o.dirty /\ ~o.external => i = 2
      BY <3>1, <3>4, Zenon
    <3> QED BY <3>2, <3>3, <3>5, <3>6, Zenon
  <2>8. /\ i = 1 => d.is = "STOP_EXTERNAL"
        /\ i = 2 => d.is = "STOP_DRIFT"
        /\ i = 3 => d.is = "RERUN"
        /\ i = 4 => d.is = "NOOP_VERIFIED"
        /\ i = 5 => d.is = "STOP_DRIFT"
        /\ i = 7 => d.is = "UPDATE_PR"
        /\ i = 9 => d.is = "UPDATE_PR"
    BY <2>4, RulesInOrder DEF RuleDecision
  <2>9. o.external => d.is = "STOP_EXTERNAL"
    BY <2>6, <2>8, Zenon
  <2>10. o.dirty /\ ~o.external => d.is = "STOP_DRIFT"
    BY <2>6, <2>8, Zenon
  <2>11. o.changed => d.is \in {"STOP_EXTERNAL", "STOP_DRIFT", "RERUN"}
    <3>1. i \in 1 .. 3 => d.is \in {"STOP_EXTERNAL", "STOP_DRIFT", "RERUN"}
      BY <2>3, <2>8
    <3> QED BY <2>6, <3>1, Zenon
  <2>12. ~o.checks => d.is # "REUSE_COMMIT" /\ ~PermitsMerge(d.is)
    <3>1. i # 6 /\ i # 8 => d.is # "REUSE_COMMIT" /\ ~PermitsMerge(d.is)
      BY <2>3, <2>8 DEF PermitsMerge
    <3> QED BY <2>6, <3>1, Zenon
  <2> QED BY <2>9, <2>10, <2>11, <2>12, Zenon DEF DecisionSound
<1> QED BY <1>1, <1>2
-----------------------------------------------------------------------------
(***************************************************************************)
(* Autonomy: the policy and the leak guard.                                *)
(***************************************************************************)

IsValue(v) == v = [type |-> v.type, token |-> v.token]

AutonomyPolicyInv ==
    subject = "policy" =>
        /\ st = [policy |-> st.policy, answer |-> st.answer]
        /\ \A k \in DOMAIN st.policy : IsValue(st.policy[k])
        /\ st.answer \subseteq {AutonomyVerdict(st.policy)}

\* Every policy a file may hold gives each key a type and a token.
LEMMA VariantsHoldValues ==
    ASSUME NEW v, NEW l, NEW p \in Variants(GoodPolicy(v, l)), NEW k \in DOMAIN p
    PROVE  IsValue(p[k])
<1> PICK g : g = GoodPolicy(v, l)
  OBVIOUS
<1>1. DOMAIN g = POLICY_KEYS /\ \A j \in POLICY_KEYS : IsValue(g[j])
  <2>1. ASSUME NEW j \in POLICY_KEYS PROVE IsValue(g[j])
    <3> PICK a, b : g[j] = [type |-> a, token |-> b]
      BY DEF GoodPolicy
    <3> QED BY DEF IsValue
  <2>2. DOMAIN g = POLICY_KEYS
    BY DEF GoodPolicy
  <2> QED BY <2>1, <2>2
<1>2. \/ p = g
      \/ \E j \in POLICY_KEYS : \E x \in Values : p = [g EXCEPT ![j] = x]
      \/ \E d \in POLICY_KEYS : p = Without(g, d)
      \/ p = WithOther(g)
  BY DEF Variants
<1>3. CASE p = g
  BY <1>1, <1>3
<1>4. ASSUME NEW j \in POLICY_KEYS,
             NEW x \in Values,
             p = [g EXCEPT ![j] = x]
      PROVE  IsValue(p[k])
  <2>1. IsValue(x)
    BY DEF IsValue, Values
  <2>2. k \in POLICY_KEYS /\ p[k] = IF k = j THEN x ELSE g[k]
    BY <1>1, <1>4
  <2> QED BY <1>1, <2>1, <2>2
<1>5. ASSUME NEW d \in POLICY_KEYS, p = Without(g, d) PROVE IsValue(p[k])
  <2>1. k \in POLICY_KEYS /\ p[k] = g[k]
    BY <1>5 DEF Without
  <2> QED BY <1>1, <2>1
<1>6. CASE p = WithOther(g)
  <2>1. CASE k = "other"
    <3>1. p[k] = [type |-> "bool", token |-> "true"]
      BY <1>6, <2>1 DEF WithOther
    <3> QED BY <3>1 DEF IsValue
  <2>2. CASE k # "other"
    <3>1. k \in POLICY_KEYS /\ p[k] = g[k]
      BY <1>6, <2>2 DEF WithOther
    <3> QED BY <1>1, <3>1
  <2> QED BY <2>1, <2>2
<1> QED BY <1>2, <1>3, <1>4, <1>5, <1>6

\* What the validator accepts grants nothing.
LEMMA AcceptedGrantsNothing ==
    ASSUME NEW policy, \A k \in DOMAIN policy : IsValue(policy[k]), AutonomyVerdict(policy) = "ok"
    PROVE  /\ DOMAIN policy = POLICY_KEYS
           /\ \A k \in DENIED : policy[k] = [type |-> "bool", token |-> "false"]
           /\ policy["max_parallel_implementation_lanes"] \in
                 [type : {"int"}, token : IF policy["schema_version"].token = "v1" THEN {"4"}
                                          ELSE {"4", "5", "6", "7", "8"}]
<1>1. /\ DOMAIN policy = POLICY_KEYS
      /\ \A k \in POLICY_KEYS : KeyVerdict(policy, k)
      /\ policy["schema_version"].token = "v1" =>
            policy["max_parallel_implementation_lanes"].token = "4"
  BY DEF AutonomyVerdict
<1>2. ASSUME NEW k \in DENIED PROVE policy[k] = [type |-> "bool", token |-> "false"]
  <2>1. k \in POLICY_KEYS
    BY DEF POLICY_KEYS
  <2>2. Expected(k) = [type |-> "bool", allowed |-> {"false"}]
    <3>1. /\ k \notin FREE /\ k # "decision_policy" /\ k # "max_parallel_implementation_lanes"
          /\ k # "max_scientific_execution_wip" /\ k # "merge_method" /\ k # "mode"
          /\ k # "schema_version"
      BY DEF DENIED, FREE
    <3> QED BY <3>1 DEF Expected
  <2>3. policy[k].type = "bool" /\ policy[k].token = "false"
    BY <1>1, <2>1, <2>2 DEF KeyVerdict
  <2> QED BY <1>1, <2>1, <2>3 DEF IsValue
<1>3. policy["max_parallel_implementation_lanes"] \in
          [type : {"int"}, token : IF policy["schema_version"].token = "v1" THEN {"4"}
                                   ELSE {"4", "5", "6", "7", "8"}]
  <2> PICK k : k = "max_parallel_implementation_lanes"
    OBVIOUS
  <2>1. k \in POLICY_KEYS /\ k \notin DENIED \cup FREE
    BY DEF POLICY_KEYS, DENIED, FREE
  <2>2. Expected(k) = [type |-> "int", allowed |-> {"4", "5", "6", "7", "8"}]
    BY <2>1 DEF Expected
  <2>3. /\ policy[k].type = "int" /\ policy[k].token \in {"4", "5", "6", "7", "8"}
        /\ policy["schema_version"].token = "v1" => policy[k].token = "4"
    BY <1>1, <2>1, <2>2 DEF KeyVerdict
  <2>4. policy[k] = [type |-> policy[k].type, token |-> policy[k].token]
    BY <1>1, <2>1 DEF IsValue
  <2> QED BY <2>3, <2>4
<1> QED BY <1>1, <1>2, <1>3

\* The excerpts of a line show no secret of it whole.
LineFacts(line) ==
    \A f, s \in line.spans : s.to - s.from + 1 >= SECRET_MIN_LEN =>
        ~(s.from .. s.to \subseteq SnippetShows(line, f))

LeakInv ==
    subject = "leak" =>
        /\ st = [line |-> st.line, decodable |-> st.decodable, findings |-> st.findings]
        /\ LineFacts(st.line)
        /\ \A f \in st.findings : f.shows = {} \/ \E s \in st.line.spans : f.shows = SnippetShows(st.line, s)
        /\ \A s \in st.line.spans : s.from \in Nat /\ s.to \in Nat

\* Two matches in a line, a gap apart: neither excerpt reaches past the other.
LEMMA LinesAreSafe ==
    ASSUME NEW o \in {0, 3}, NEW a \in {7, 17, 20, 64}, NEW g \in {0, 1, 5}, NEW b \in {7, 17, 20},
           NEW t \in {0, 2}, NEW line, line = Line(o, a, g, b, t)
    PROVE  LineFacts(line) /\ \A s \in line.spans : s.from \in Nat /\ s.to \in Nat
<1>1. o \in Nat /\ a \in Nat /\ g \in Nat /\ b \in Nat /\ t \in Nat /\ a > 0 /\ b > 0
  OBVIOUS
<1> PICK one : one = [from |-> o + 1, to |-> o + a]
  OBVIOUS
<1> PICK two : two = [from |-> o + a + g + 1, to |-> o + a + g + b]
  OBVIOUS
<1>2. line.spans = {one, two} /\ one.from = o + 1 /\ one.to = o + a
      /\ two.from = o + a + g + 1 /\ two.to = o + a + g + b
  BY DEF Line
<1>3. ASSUME NEW f, NEW i, i \in SnippetShows(line, f)
      PROVE  \/ i \in f.from - 12 .. f.from - 1
             \/ i \in f.from .. f.from + 4 - 1
             \/ i \in f.to + 1 .. f.to + 12
  BY <1>3 DEF SnippetShows, SNIPPET_CONTEXT_CHARS, SNIPPET_KEEP_CHARS
<1>4. ASSUME NEW f \in {one, two}, f.to - f.from + 1 >= 17, f.from .. f.to \subseteq SnippetShows(line, f)
      PROVE  FALSE
  <2>1. f.from \in Nat /\ f.to \in Nat
    BY <1>1, <1>2
  <2>2. f.from + 4 \in f.from .. f.to
    BY <1>4, <2>1
  <2>3. f.from + 4 \in SnippetShows(line, f)
    BY <1>4, <2>2
  <2>4. \/ f.from + 4 \in f.from - 12 .. f.from - 1
        \/ f.from + 4 \in f.from .. f.from + 4 - 1
        \/ f.from + 4 \in f.to + 1 .. f.to + 12
    BY <1>3, <2>3
  <2> QED BY <1>4, <2>1, <2>4
<1>5. ASSUME two.to - two.from + 1 >= 17, two.from .. two.to \subseteq SnippetShows(line, one) PROVE FALSE
  <2>1. two.to \in two.from .. two.to
    BY <1>1, <1>2, <1>5
  <2>2. two.to \in SnippetShows(line, one)
    BY <1>5, <2>1
  <2>3. \/ two.to \in one.from - 12 .. one.from - 1
        \/ two.to \in one.from .. one.from + 4 - 1
        \/ two.to \in one.to + 1 .. one.to + 12
    BY <1>3, <2>2
  <2>4. one.from \in Nat /\ one.to \in Nat /\ two.to \in Nat /\ two.to > one.to + 12 /\ one.to >= one.from + 6
    BY <1>1, <1>2, <1>5
  <2> QED BY <2>3, <2>4
<1>6. ASSUME one.to - one.from + 1 >= 17, one.from .. one.to \subseteq SnippetShows(line, two) PROVE FALSE
  <2>1. one.from \in one.from .. one.to
    BY <1>1, <1>2, <1>6
  <2>2. one.from \in SnippetShows(line, two)
    BY <1>6, <2>1
  <2>3. \/ one.from \in two.from - 12 .. two.from - 1
        \/ one.from \in two.from .. two.from + 4 - 1
        \/ one.from \in two.to + 1 .. two.to + 12
    BY <1>3, <2>2
  <2>4. one.from \in Nat /\ one.from < two.from - 12 /\ two.from \in Nat /\ two.to \in Nat /\ two.to > one.from
    BY <1>1, <1>2, <1>6
  <2> QED BY <2>3, <2>4
<1>7. LineFacts(line)
  BY <1>2, <1>4, <1>5, <1>6 DEF LineFacts, SECRET_MIN_LEN
<1> QED BY <1>1, <1>2, <1>7

-----------------------------------------------------------------------------
(***************************************************************************)
(* Autonomy: the invariant, kept by every step.                            *)
(***************************************************************************)

AutonomyInv == ResumeInv /\ ScopeInv /\ AutonomyPolicyInv /\ LeakInv

\* A work package begins with no decision taken.
LEMMA ResumeInits == ASSUME ResumeInit PROVE ResumeInv
<1> DEFINE w == [outputs |-> "none", commit |-> FALSE, pr |-> "none", checks |-> "unknown",
                 changed |-> FALSE, external |-> FALSE, dirty |-> FALSE]
<1>1. st = [wp |-> w, steps |-> 0, observed |-> {}, decision |-> {}]
  BY Zenon DEF ResumeInit
<1> HIDE DEF w
<1>2. st.wp = w /\ st.steps = 0 /\ st.observed = {} /\ st.decision = {}
  BY <1>1
<1> QED BY <1>1, <1>2 DEF ResumeInv

\* A decision is taken on what was observed, by the rules.
LEMMA ResumeStep == ASSUME subject = "resume", ResumeInv, ResumeNext PROVE subject' = "resume" /\ ResumeInv'
<1>1. /\ st = [wp |-> st.wp, steps |-> st.steps, observed |-> st.observed, decision |-> st.decision]
      /\ \A d \in st.decision : DecisionSound(d)
  BY DEF ResumeInv
<1>2. CASE WpEvent
  <2> PICK new : Step("resume", [st EXCEPT !.wp = new, !.steps = @ + 1])
    BY <1>2 DEF WpEvent
  <2>1. subject' = "resume" /\ st' = [st EXCEPT !.wp = new, !.steps = @ + 1]
    BY DEF Step
  <2> PICK k : k = st.steps + 1
    OBVIOUS
  <2>2. st' = [wp |-> new, steps |-> k, observed |-> st.observed, decision |-> st.decision]
    BY <1>1, <2>1
  <2>3. st'.wp = new /\ st'.steps = k /\ st'.observed = st.observed /\ st'.decision = st.decision
    BY <2>2
  <2> QED BY <1>1, <2>1, <2>2, <2>3 DEF ResumeInv
<1>3. CASE Decide
  <2> PICK o \in st.observed : Step("resume", [st EXCEPT !.decision = {[on |-> o, is |-> Reconcile(o)]}])
    BY <1>3, Zenon DEF Decide
  <2> PICK d : d = [on |-> o, is |-> Reconcile(o)]
    OBVIOUS
  <2>1. subject' = "resume" /\ st' = [st EXCEPT !.decision = {d}]
    BY Zenon DEF Step
  <2>2. st' = [wp |-> st.wp, steps |-> st.steps, observed |-> st.observed, decision |-> {d}]
    BY <1>1, <2>1
  <2>3. st'.wp = st.wp /\ st'.steps = st.steps /\ st'.observed = st.observed /\ st'.decision = {d}
    BY <2>2
  <2>4. DecisionSound(d)
    <3>1. d.on = o /\ d.is = Reconcile(o)
      OBVIOUS
    <3> QED BY <3>1, ReconcileIsSound
  <2> QED BY <2>1, <2>2, <2>3, <2>4 DEF ResumeInv
<1>4. ASSUME NEW f, Observe(f) PROVE subject' = "resume" /\ ResumeInv'
  <2> PICK n : n = {ParseObserved(st.wp, f)}
    OBVIOUS
  <2>1. subject' = "resume" /\ st' = [st EXCEPT !.observed = n]
    BY <1>4, Zenon DEF Observe, Step
  <2>2. st' = [wp |-> st.wp, steps |-> st.steps, observed |-> n, decision |-> st.decision]
    BY <1>1, <2>1
  <2>3. st'.wp = st.wp /\ st'.steps = st.steps /\ st'.observed = n /\ st'.decision = st.decision
    BY <2>2
  <2> QED BY <1>1, <2>1, <2>2, <2>3 DEF ResumeInv
<1> QED BY <1>2, <1>3, <1>4, Zenon DEF ResumeNext

\* A path to check holds known parts.
LEMMA ScopeInits == ASSUME ScopeInit PROVE ScopeInv
<1>1. PICK p \in Paths, o \in [form : {"relative"}, parts : Parts] : st = [path |-> p, owned |-> {o}, answer |-> {}]
  BY Zenon DEF ScopeInit
<1>2. p.parts \in Parts /\ o.parts \in Parts
  BY DEF Paths
<1>3. PathFacts(p) /\ PathFacts(o)
  BY <1>2, AutonomyAssumption DEF Parts, PathFacts
<1>4. st.path = p /\ st.owned = {o} /\ st.answer = {}
  BY <1>1
<1> QED BY <1>1, <1>3, <1>4 DEF ScopeInv, ScopeShape

\* The answer is that of the check, on the same path and directories.
LEMMA ScopeStep == ASSUME subject = "scope", ScopeInv, CheckScope PROVE subject' = "scope" /\ ScopeInv'
<1>1. ScopeShape /\ PathFacts(st.path) /\ \A o \in st.owned : PathFacts(o)
  BY DEF ScopeInv
<1> PICK n : n = {CheckWrite(st.path, st.owned)}
  OBVIOUS
<1>2. subject' = "scope" /\ st' = [st EXCEPT !.answer = n]
  BY Zenon DEF CheckScope, Step
<1>3. st' = [path |-> st.path, owned |-> st.owned, answer |-> n]
  BY <1>1, <1>2 DEF ScopeShape
<1>4. st'.path = st.path /\ st'.owned = st.owned /\ st'.answer = n
  BY <1>3
<1>5. CheckWrite(st'.path, st'.owned) = CheckWrite(st.path, st.owned)
  BY <1>4
<1> QED BY <1>1, <1>2, <1>3, <1>4, <1>5 DEF ScopeInv, ScopeShape

\* A policy file gives each key a type and a token.
LEMMA PolicyInits == ASSUME PolicyInit PROVE AutonomyPolicyInv
<1>1. PICK v \in {"v1", "v2", "v3"}, l \in {"4", "5", "8"} :
        \E q \in Variants(GoodPolicy(v, l)) : st = [policy |-> q, answer |-> {}]
  BY Zenon DEF PolicyInit
<1>2. PICK p \in Variants(GoodPolicy(v, l)) : st = [policy |-> p, answer |-> {}]
  BY <1>1
<1>3. st.policy = p /\ st.answer = {}
  BY <1>2
<1>4. \A k \in DOMAIN p : IsValue(p[k])
  BY VariantsHoldValues
<1> QED BY <1>2, <1>3, <1>4 DEF AutonomyPolicyInv

\* The answer is that of the validator, on the same policy.
LEMMA PolicyStep == ASSUME subject = "policy", AutonomyPolicyInv, LoadPolicy PROVE subject' = "policy" /\ AutonomyPolicyInv'
<1>1. st = [policy |-> st.policy, answer |-> st.answer] /\ \A k \in DOMAIN st.policy : IsValue(st.policy[k])
  BY DEF AutonomyPolicyInv
<1> PICK n : n = {AutonomyVerdict(st.policy)}
  OBVIOUS
<1>2. subject' = "policy" /\ st' = [st EXCEPT !.answer = n]
  BY Zenon DEF LoadPolicy, Step
<1>3. st' = [policy |-> st.policy, answer |-> n]
  BY <1>1, <1>2
<1>4. st'.policy = st.policy /\ st'.answer = n
  BY <1>3
<1>5. AutonomyVerdict(st'.policy) = AutonomyVerdict(st.policy)
  BY <1>4
<1> QED BY <1>1, <1>2, <1>3, <1>4, <1>5 DEF AutonomyPolicyInv

\* A line to scan keeps its matches apart.
LEMMA LeakInits == ASSUME LeakInit PROVE LeakInv
<1>1. PICK o \in {0, 3}, a \in {7, 17, 20, 64}, g \in {0, 1, 5}, b \in {7, 17, 20}, t \in {0, 2} :
        \E d \in BOOLEAN : st = [line |-> Line(o, a, g, b, t), decodable |-> d, findings |-> {}]
  BY Zenon DEF LeakInit
<1> PICK line : line = Line(o, a, g, b, t)
  OBVIOUS
<1>2. PICK d \in BOOLEAN : st = [line |-> line, decodable |-> d, findings |-> {}]
  BY <1>1, Zenon
<1>3. st.line = line /\ st.decodable = d /\ st.findings = {}
  BY <1>2
<1>4. LineFacts(line) /\ \A s \in line.spans : s.from \in Nat /\ s.to \in Nat
  BY LinesAreSafe
<1> QED BY <1>2, <1>3, <1>4 DEF LeakInv

\* A finding's excerpt is that of one match of the line.
LEMMA LeakStep == ASSUME subject = "leak", LeakInv, ScanDiff PROVE subject' = "leak" /\ LeakInv'
<1>1. /\ st = [line |-> st.line, decodable |-> st.decodable, findings |-> st.findings]
      /\ LineFacts(st.line) /\ \A s \in st.line.spans : s.from \in Nat /\ s.to \in Nat
  BY DEF LeakInv
<1> PICK n : n = IF st.decodable
                 THEN {[reason |-> "PUBLIC_LEAK_DETECTED", shows |-> SnippetShows(st.line, s)] :
                          s \in st.line.spans}
                 ELSE {[reason |-> "SECRET_SCAN_FAILED", shows |-> {}]}
  OBVIOUS
<1>2. subject' = "leak" /\ st' = [st EXCEPT !.findings = n]
  BY Zenon DEF ScanDiff, Step
<1>3. st' = [line |-> st.line, decodable |-> st.decodable, findings |-> n]
  BY <1>1, <1>2
<1>4. st'.line = st.line /\ st'.decodable = st.decodable /\ st'.findings = n
  BY <1>3
<1>5. \A f \in n : f.shows = {} \/ \E s \in st.line.spans : f.shows = SnippetShows(st.line, s)
  OBVIOUS
<1>6. \A f \in st'.findings : f.shows = {} \/ \E s \in st'.line.spans : f.shows = SnippetShows(st'.line, s)
  BY <1>4, <1>5
<1>7. LineFacts(st'.line) /\ \A s \in st'.line.spans : s.from \in Nat /\ s.to \in Nat
  BY <1>1, <1>4
<1> QED BY <1>2, <1>3, <1>4, <1>6, <1>7, Zenon DEF LeakInv

\* What the invariant says of the answers.
LEMMA AutonomyInvHolds == ASSUME AutonomyInv PROVE AgentWithinGrant
<1> USE DEF AutonomyInv
<1>1. ResumeNeverBuildsOnDrift
  BY DEF ResumeInv, ResumeNeverBuildsOnDrift, DecisionSound
<1>2. WriteStaysInScope
  <2> SUFFICES ASSUME subject = "scope", st.answer = {"ok"}
               PROVE  /\ st.path.form = "relative"
                      /\ \E o \in st.owned : /\ LeadsTo(st.path.parts) # <<"outside">>
                                             /\ IsWithin(LeadsTo(st.path.parts), LeadsTo(o.parts))
    BY DEF WriteStaysInScope
  <2>1. CheckWrite(st.path, st.owned) = "ok" /\ PathFacts(st.path) /\ \A o \in st.owned : PathFacts(o)
    BY DEF ScopeInv
  <2> QED BY <2>1, AcceptedLeadsInside
<1>3. PolicyGrantsNothing
  <2> SUFFICES ASSUME subject = "policy", st.answer = {"ok"}
               PROVE  /\ DOMAIN st.policy = POLICY_KEYS
                      /\ \A k \in DENIED : st.policy[k] = [type |-> "bool", token |-> "false"]
                      /\ st.policy["max_parallel_implementation_lanes"] \in
                            [type : {"int"},
                             token : IF st.policy["schema_version"].token = "v1" THEN {"4"}
                                     ELSE {"4", "5", "6", "7", "8"}]
    BY Zenon DEF PolicyGrantsNothing
  <2>1. AutonomyVerdict(st.policy) = "ok" /\ \A k \in DOMAIN st.policy : IsValue(st.policy[k])
    BY DEF AutonomyPolicyInv
  <2> QED BY <2>1, AcceptedGrantsNothing
<1>4. SecretNeverWhole
  <2> SUFFICES ASSUME subject = "leak", NEW f \in st.findings, NEW s \in st.line.spans,
                      s.to - s.from + 1 >= SECRET_MIN_LEN, s.from .. s.to \subseteq f.shows
               PROVE  FALSE
    BY DEF SecretNeverWhole
  <2>1. s.from \in Nat /\ s.to \in Nat /\ LineFacts(st.line)
    BY DEF LeakInv
  <2>2. f.shows = {} \/ \E x \in st.line.spans : f.shows = SnippetShows(st.line, x)
    BY DEF LeakInv
  <2>3. s.from \in s.from .. s.to
    BY <2>1 DEF SECRET_MIN_LEN
  <2>4. f.shows # {}
    BY <2>3
  <2> QED BY <2>1, <2>2, <2>4 DEF LineFacts
<1> QED BY <1>1, <1>2, <1>3, <1>4 DEF AgentWithinGrant

\* The initial states satisfy the autonomy invariant.
LEMMA AutonomyInits == AutonomyInit => AutonomyInv
<1> SUFFICES ASSUME AutonomyInit PROVE AutonomyInv
  OBVIOUS
<1>1. CASE ResumeInit
  BY <1>1, ResumeInits DEF ResumeInit, AutonomyInv, ScopeInv, AutonomyPolicyInv, LeakInv
<1>2. CASE ScopeInit
  BY <1>2, ScopeInits DEF ScopeInit, AutonomyInv, ResumeInv, AutonomyPolicyInv, LeakInv
<1>3. CASE PolicyInit
  BY <1>3, PolicyInits DEF PolicyInit, AutonomyInv, ResumeInv, ScopeInv, LeakInv
<1>4. CASE LeakInit
  BY <1>4, LeakInits DEF LeakInit, AutonomyInv, ResumeInv, ScopeInv, AutonomyPolicyInv
<1> QED BY <1>1, <1>2, <1>3, <1>4 DEF AutonomyInit

\* Every step of such a call keeps the autonomy invariant.
LEMMA AutonomySteps == AutonomyInv /\ AutonomyNext => AutonomyInv'
<1> SUFFICES ASSUME AutonomyInv, AutonomyNext PROVE AutonomyInv'
  OBVIOUS
<1>1. CASE subject = "resume" /\ ResumeNext
  BY <1>1, ResumeStep DEF AutonomyInv, ScopeInv, AutonomyPolicyInv, LeakInv
<1>2. CASE subject = "scope" /\ CheckScope
  BY <1>2, ScopeStep DEF AutonomyInv, ResumeInv, AutonomyPolicyInv, LeakInv
<1>3. CASE subject = "policy" /\ LoadPolicy
  BY <1>3, PolicyStep DEF AutonomyInv, ResumeInv, ScopeInv, LeakInv
<1>4. CASE subject = "leak" /\ ScanDiff
  BY <1>4, LeakStep DEF AutonomyInv, ResumeInv, ScopeInv, AutonomyPolicyInv
<1> QED BY <1>1, <1>2, <1>3, <1>4 DEF AutonomyNext

\* A step that leaves the state alone keeps the autonomy invariant.
LEMMA AutonomyUnmoved == AutonomyInv /\ UNCHANGED frame => AutonomyInv'
BY DEF frame, AutonomyInv, ResumeInv, ScopeInv, ScopeShape, AutonomyPolicyInv, LeakInv

-----------------------------------------------------------------------------
(***************************************************************************)
(* Planning: sums of estimates.                                            *)
(***************************************************************************)
\* The sum of numbers is a number, and one more number adds itself.
LEMMA SumToIs ==
    ASSUME NEW n \in Nat, NEW g \in [1 .. n -> Nat]
    PROVE  \E f \in [0 .. n -> Nat] :
              /\ f[0] = 0 /\ \A i \in 1 .. n : f[i] = f[i - 1] + g[i]
              /\ SumTo(n, g) = f[n]
<1> DEFINE Sums(f) == f = [i \in 0 .. n |-> IF i = 0 THEN 0 ELSE f[i - 1] + g[i]]
<1>1. PICK h \in [0 .. n -> Nat] : h = [i \in 0 .. n |-> IF i = 0 THEN 0 ELSE h[i - 1] + g[i]]
  <2> DEFINE F == [x \in Nat \X (1 .. n) |-> x[1] + g[x[2]]]
  <2>1. F \in [Nat \X (1 .. n) -> Nat]
    OBVIOUS
  <2>2. \A v \in Nat, i \in 1 .. n : F[<<v, i>>] = v + g[i]
    OBVIOUS
  <2> HIDE DEF F
  <2>3. PICK f : Carried(f, n, Nat, 0, F)
    BY <2>1, Recursion DEF Carrier
  <2>4. f \in [0 .. n -> Nat]
    BY <2>3 DEF Carried
  <2>5. ASSUME NEW i \in 0 .. n PROVE f[i] = IF i = 0 THEN 0 ELSE f[i - 1] + g[i]
    <3>1. CASE i # 0
      <4>1. i \in 1 .. n /\ i - 1 \in 0 .. n
        BY <3>1
      <4>2. f[i - 1] \in Nat
        BY <2>4, <4>1
      <4> QED BY <2>2, <2>3, <3>1, <4>1, <4>2 DEF Carried
    <3> QED BY <2>3, <3>1 DEF Carried
  <2> QED BY <2>4, <2>5
<1>2. PICK f : Sums(f) /\ SumTo(n, g) = f[n]
  <2>1. Sums(CHOOSE f : Sums(f))
    BY <1>1, Zenon
  <2> QED BY <2>1, Zenon DEF SumTo
<1>3. f[0] = 0
  BY <1>2
<1>4. ASSUME NEW i \in 1 .. n PROVE f[i] = f[i - 1] + g[i]
  BY <1>2
<1> DEFINE S == {i \in 0 .. n : f[i] \in Nat}
<1>5. \A i \in 0 .. n : i \in S
  <2>1. 0 \in S
    BY <1>3
  <2>2. ASSUME NEW i \in 0 .. n - 1, i \in S PROVE i + 1 \in S
    <3>1. i + 1 \in 1 .. n /\ i + 1 - 1 = i /\ i + 1 \in 0 .. n
      OBVIOUS
    <3>2. f[i] \in Nat /\ g[i + 1] \in Nat
      BY <2>2, <3>1
    <3> QED BY <1>4, <3>1, <3>2
  <2> HIDE DEF S
  <2> QED BY <2>1, <2>2, InductionUpTo
<1>6. f \in [0 .. n -> Nat]
  <2>1. f = [i \in 0 .. n |-> f[i]]
    BY <1>2
  <2> QED BY <1>5, <2>1
<1> QED BY <1>2, <1>3, <1>4, <1>6

\* A relation between numbers that sums of two keep is kept by sums of any number.
AddsUp(R) ==
    /\ <<0, 0>> \in R
    /\ \A a, b, c, d \in Nat : <<a, b>> \in R /\ <<c, d>> \in R => <<a + c, b + d>> \in R

\* Two sums are in any relation that addition keeps when their terms are, one by one.
LEMMA SumsRelated ==
    ASSUME NEW n \in Nat, NEW g \in [1 .. n -> Nat], NEW h \in [1 .. n -> Nat], NEW R, AddsUp(R),
           \A i \in 1 .. n : <<g[i], h[i]>> \in R
    PROVE  <<SumTo(n, g), SumTo(n, h)>> \in R /\ SumTo(n, g) \in Nat /\ SumTo(n, h) \in Nat
<1>1. PICK f \in [0 .. n -> Nat] : /\ f[0] = 0 /\ \A i \in 1 .. n : f[i] = f[i - 1] + g[i]
                                   /\ SumTo(n, g) = f[n]
  BY SumToIs
<1>2. PICK e \in [0 .. n -> Nat] : /\ e[0] = 0 /\ \A i \in 1 .. n : e[i] = e[i - 1] + h[i]
                                   /\ SumTo(n, h) = e[n]
  BY SumToIs
<1> DEFINE S == {i \in 0 .. n : <<f[i], e[i]>> \in R}
<1>3. \A i \in 0 .. n : i \in S
  <2>1. 0 \in S
    BY <1>1, <1>2 DEF AddsUp
  <2>2. ASSUME NEW i \in 0 .. n - 1, i \in S PROVE i + 1 \in S
    <3>1. i + 1 \in 1 .. n /\ i + 1 - 1 = i /\ i + 1 \in 0 .. n
      OBVIOUS
    <3>2. f[i] \in Nat /\ e[i] \in Nat /\ g[i + 1] \in Nat /\ h[i + 1] \in Nat
      BY <3>1
    <3>3. <<f[i], e[i]>> \in R /\ <<g[i + 1], h[i + 1]>> \in R
      BY <2>2, <3>1
    <3>4. <<f[i] + g[i + 1], e[i] + h[i + 1]>> \in R
      BY <3>2, <3>3 DEF AddsUp
    <3>5. f[i + 1] = f[i] + g[i + 1] /\ e[i + 1] = e[i] + h[i + 1]
      BY <1>1, <1>2, <3>1
    <3> QED BY <3>1, <3>4, <3>5
  <2> HIDE DEF S
  <2> QED BY <2>1, <2>2, InductionUpTo
<1>4. n \in 0 .. n
  OBVIOUS
<1> QED BY <1>1, <1>2, <1>3, <1>4

\* The estimate of every profile: three numbers, the exception class's in proportion.
LEMMA EstimatesAre ==
    ASSUME NEW i \in 1 .. 15
    PROVE  \E a, b, c \in Nat :
              /\ Estimate(PROFILE_ORDER[i], "default") = <<a, b, c>>
              /\ Estimate(PROFILE_ORDER[i], "exception") = <<(a * 3) \div 2, (b * 5) \div 4, c>>
<1>1. \E a, b, c \in Nat : BASE_ESTIMATES[PROFILE_ORDER[i]] = <<a, b, c>>
  <2>1. CASE i \in 1 .. 5
    BY <2>1 DEF BASE_ESTIMATES, PROFILE_ORDER
  <2>2. CASE i \in 6 .. 10
    BY <2>2 DEF BASE_ESTIMATES, PROFILE_ORDER
  <2>3. CASE i \in 11 .. 15
    BY <2>3 DEF BASE_ESTIMATES, PROFILE_ORDER
  <2> QED BY <2>1, <2>2, <2>3
<1>2. PICK a, b, c \in Nat : BASE_ESTIMATES[PROFILE_ORDER[i]] = <<a, b, c>>
  BY <1>1
<1>3. PICK p : p = PROFILE_ORDER[i]
  OBVIOUS
<1>4. PICK e : e = BASE_ESTIMATES[p] /\ e = <<a, b, c>>
  BY <1>2, <1>3
<1>5. Estimate(p, "default") = e
  BY <1>4 DEF Estimate
<1>6. Estimate(p, "exception") = <<(e[1] * 3) \div 2, (e[2] * 5) \div 4, e[3]>>
  BY <1>4 DEF Estimate
<1>7. e[1] = a /\ e[2] = b /\ e[3] = c
  BY <1>4
<1> QED BY <1>3, <1>4, <1>5, <1>6, <1>7

\* What a profile adds to a total, and how the classes and the sets compare.
LEMMA CostsAre ==
    ASSUME NEW A, NEW B, A \subseteq B, NEW i \in 1 .. 15
    PROVE  LET cost(S, class, d) == Cost(S, class, d, PROFILE_ORDER[i])
           IN  /\ \A d \in 1 .. 3, class \in {"default", "exception"} :
                     cost(A, class, d) \in Nat /\ cost(B, class, d) \in Nat
               /\ \A d \in 1 .. 3 : cost(A, "default", d) <= cost(B, "default", d)
               /\ 2 * cost(A, "exception", 1) <= 3 * cost(A, "default", 1)
               /\ 4 * cost(A, "exception", 2) <= 5 * cost(A, "default", 2)
               /\ cost(A, "exception", 3) = cost(A, "default", 3)
<1> PICK p : p = PROFILE_ORDER[i]
  OBVIOUS
<1>1. PICK a, b, c \in Nat : /\ Estimate(p, "default") = <<a, b, c>>
                             /\ Estimate(p, "exception") = <<(a * 3) \div 2, (b * 5) \div 4, c>>
  BY EstimatesAre
<1>2. PICK x, y \in Nat : /\ x = (a * 3) \div 2 /\ y = (b * 5) \div 4 /\ 2 * x <= 3 * a /\ 4 * y <= 5 * b
  OBVIOUS
<1>3. /\ Estimate(p, "default")[1] = a /\ Estimate(p, "default")[2] = b /\ Estimate(p, "default")[3] = c
      /\ Estimate(p, "exception")[1] = x /\ Estimate(p, "exception")[2] = y /\ Estimate(p, "exception")[3] = c
  BY <1>1, <1>2
<1>4. \A S : /\ Cost(S, "default", 1, p) = (IF p \in S THEN a ELSE 0)
             /\ Cost(S, "default", 2, p) = (IF p \in S THEN b ELSE 0)
             /\ Cost(S, "default", 3, p) = (IF p \in S THEN c ELSE 0)
             /\ Cost(S, "exception", 1, p) = (IF p \in S THEN x ELSE 0)
             /\ Cost(S, "exception", 2, p) = (IF p \in S THEN y ELSE 0)
             /\ Cost(S, "exception", 3, p) = (IF p \in S THEN c ELSE 0)
  BY <1>3 DEF Cost
<1> QED BY <1>2, <1>4

\* What the default class admits the exception class admits, and more steps cost more.
LEMMA OverIsMonotone ==
    ASSUME NEW A, NEW B, A \subseteq B, Over(B, "default") = {}
    PROVE  Over(A, "default") = {} /\ Over(B, "exception") = {}
<1> DEFINE G(S, class, d) == [i \in 1 .. 15 |-> Cost(S, class, d, PROFILE_ORDER[i])]
<1>1. \A d \in 1 .. 3, class \in {"default", "exception"} :
        G(A, class, d) \in [1 .. 15 -> Nat] /\ G(B, class, d) \in [1 .. 15 -> Nat]
  BY CostsAre
<1>2. \A S, class, d : Total(S, class, d) = SumTo(15, G(S, class, d))
  BY Zenon DEF Total
<1>3. ASSUME NEW d \in 1 .. 3
      PROVE  Total(A, "default", d) <= Total(B, "default", d) /\ Total(A, "default", d) \in Nat
             /\ Total(B, "default", d) \in Nat
  <2> PICK R : R = {x \in Nat \X Nat : x[1] <= x[2]}
    OBVIOUS
  <2>1. AddsUp(R)
    BY DEF AddsUp
  <2>2. \A i \in 1 .. 15 : <<G(A, "default", d)[i], G(B, "default", d)[i]>> \in R
    BY CostsAre
  <2>3. G(A, "default", d) \in [1 .. 15 -> Nat] /\ G(B, "default", d) \in [1 .. 15 -> Nat]
    BY <1>1
  <2> HIDE DEF G
  <2>4. /\ <<SumTo(15, G(A, "default", d)), SumTo(15, G(B, "default", d))>> \in R
        /\ SumTo(15, G(A, "default", d)) \in Nat /\ SumTo(15, G(B, "default", d)) \in Nat
    BY <2>1, <2>2, <2>3, SumsRelated
  <2> QED BY <1>2, <2>4
<1>4. ASSUME NEW d \in 1 .. 3, NEW R, AddsUp(R),
             \A i \in 1 .. 15 : <<G(B, "exception", d)[i], G(B, "default", d)[i]>> \in R
      PROVE  <<Total(B, "exception", d), Total(B, "default", d)>> \in R /\ Total(B, "exception", d) \in Nat
  <2>3. G(B, "exception", d) \in [1 .. 15 -> Nat] /\ G(B, "default", d) \in [1 .. 15 -> Nat]
    BY <1>1
  <2> HIDE DEF G
  <2>4. /\ <<SumTo(15, G(B, "exception", d)), SumTo(15, G(B, "default", d))>> \in R
        /\ SumTo(15, G(B, "exception", d)) \in Nat
    BY <1>4, <2>3, SumsRelated
  <2> QED BY <1>2, <2>4
<1>5. 2 * Total(B, "exception", 1) <= 3 * Total(B, "default", 1) /\ Total(B, "exception", 1) \in Nat
  <2> PICK R : R = {x \in Nat \X Nat : 2 * x[1] <= 3 * x[2]}
    OBVIOUS
  <2>1. AddsUp(R)
    BY DEF AddsUp
  <2>2. \A i \in 1 .. 15 : <<G(B, "exception", 1)[i], G(B, "default", 1)[i]>> \in R
    BY CostsAre
  <2> HIDE DEF G
  <2>3. <<Total(B, "exception", 1), Total(B, "default", 1)>> \in R /\ Total(B, "exception", 1) \in Nat
    BY <1>4, <2>1, <2>2
  <2> QED BY <2>3
<1>6. 4 * Total(B, "exception", 2) <= 5 * Total(B, "default", 2) /\ Total(B, "exception", 2) \in Nat
  <2> PICK R : R = {x \in Nat \X Nat : 4 * x[1] <= 5 * x[2]}
    OBVIOUS
  <2>1. AddsUp(R)
    BY DEF AddsUp
  <2>2. \A i \in 1 .. 15 : <<G(B, "exception", 2)[i], G(B, "default", 2)[i]>> \in R
    BY CostsAre
  <2> HIDE DEF G
  <2>3. <<Total(B, "exception", 2), Total(B, "default", 2)>> \in R /\ Total(B, "exception", 2) \in Nat
    BY <1>4, <2>1, <2>2
  <2> QED BY <2>3
<1>7. Total(B, "exception", 3) = Total(B, "default", 3) /\ Total(B, "exception", 3) \in Nat
  <2> PICK R : R = {x \in Nat \X Nat : x[1] = x[2]}
    OBVIOUS
  <2>1. AddsUp(R)
    BY DEF AddsUp
  <2>2. \A i \in 1 .. 15 : <<G(B, "exception", 3)[i], G(B, "default", 3)[i]>> \in R
    BY CostsAre
  <2> HIDE DEF G
  <2>3. <<Total(B, "exception", 3), Total(B, "default", 3)>> \in R /\ Total(B, "exception", 3) \in Nat
    BY <1>4, <2>1, <2>2
  <2> QED BY <2>3
<1> HIDE DEF G
<1>8. Total(B, "default", 1) <= 300 /\ Total(B, "default", 2) <= 1536 /\ Total(B, "default", 3) <= 4096
  <2>1. ASSUME NEW d \in 1 .. 3 PROVE ~(Total(B, "default", d) > Caps("default")[d])
    BY DEF Over
  <2>2. Caps("default")[1] = 300 /\ Caps("default")[2] = 1536 /\ Caps("default")[3] = 4096
    BY DEF Caps
  <2> QED BY <1>3, <2>1, <2>2
<1>9. Over(A, "default") = {}
  <2>1. ASSUME NEW d \in 1 .. 3 PROVE ~(Total(A, "default", d) > Caps("default")[d])
    <3>1. ~(Total(B, "default", d) > Caps("default")[d]) /\ Caps("default")[d] \in Nat
      BY DEF Over, Caps
    <3> QED BY <1>3, <3>1
  <2> QED BY <2>1 DEF Over
<1>10. Over(B, "exception") = {}
  <2>1. Caps("exception")[1] = 900 /\ Caps("exception")[2] = 2048 /\ Caps("exception")[3] = 4096
    BY DEF Caps
  <2>2. ASSUME NEW d \in 1 .. 3 PROVE ~(Total(B, "exception", d) > Caps("exception")[d])
    BY <1>3, <1>5, <1>6, <1>7, <1>8, <2>1
  <2> QED BY <2>2 DEF Over
<1> QED BY <1>9, <1>10
-----------------------------------------------------------------------------
(***************************************************************************)
(* Planning: the topological order.  A node is ready exactly when it is    *)
(* not placed and all it depends on is; what is counted of a node is how   *)
(* much of what it depends on is not placed.                               *)
(***************************************************************************)
TopoShape ==
    st = [deps |-> st.deps, indeg |-> st.indeg, ready |-> st.ready, order |-> st.order,
          answer |-> st.answer]
Placed(order) == {order[i] : i \in 1 .. Len(order)}

OrderFacts(deps, order) ==
    /\ deps \in [TopoNodes -> SUBSET TopoNodes] /\ order \in Seq(TopoNodes)
    /\ \A i, j \in 1 .. Len(order) : order[i] = order[j] => i = j
    /\ \A i \in 1 .. Len(order) : \A d \in deps[order[i]] : \E j \in 1 .. i - 1 : order[j] = d
    /\ Cardinality(Placed(order)) = Len(order)
CountFacts(deps, indeg, ready, order) ==
    /\ indeg = [n \in TopoNodes |-> Cardinality(deps[n] \ Placed(order))]
    /\ ready = {n \in TopoNodes : n \notin Placed(order) /\ deps[n] \subseteq Placed(order)}

TopoInv ==
    subject = "topo" =>
        /\ TopoShape /\ OrderFacts(st.deps, st.order)
        /\ CountFacts(st.deps, st.indeg, st.ready, st.order)
        /\ st.answer # "none" =>
              /\ st.ready = {}
              /\ st.answer = IF Len(st.order) = Cardinality(TopoNodes) THEN "ok" ELSE "cycle_detected"

\* One more node is placed after all it depends on.
LEMMA PlacedAfter ==
    ASSUME NEW deps, NEW order, OrderFacts(deps, order), NEW n \in TopoNodes, n \notin Placed(order),
           deps[n] \subseteq Placed(order)
    PROVE  /\ OrderFacts(deps, Append(order, n))
           /\ Placed(Append(order, n)) = Placed(order) \cup {n}
<1> USE DEF OrderFacts
<1> PICK new : new = Append(order, n)
  OBVIOUS
<1>1. /\ new \in Seq(TopoNodes) /\ Len(new) = Len(order) + 1 /\ new[Len(order) + 1] = n
      /\ \A i \in 1 .. Len(order) : new[i] = order[i]
      /\ Len(order) \in Nat
  OBVIOUS
<1>2. Placed(new) = Placed(order) \cup {n}
  <2>1. \A i \in 1 .. Len(new) : i \in 1 .. Len(order) \/ i = Len(order) + 1
    BY <1>1
  <2>2. \A i \in 1 .. Len(order) : i \in 1 .. Len(new)
    BY <1>1
  <2>3. Len(order) + 1 \in 1 .. Len(new)
    BY <1>1
  <2>4. ASSUME NEW x \in Placed(new) PROVE x \in Placed(order) \cup {n}
    <3>1. PICK i \in 1 .. Len(new) : x = new[i]
      BY Zenon DEF Placed
    <3>2. CASE i \in 1 .. Len(order)
      <4>1. x = order[i]
        BY <1>1, <3>1, <3>2
      <4> QED BY <3>2, <4>1, Zenon DEF Placed
    <3> QED BY <1>1, <2>1, <3>1, <3>2
  <2>5. ASSUME NEW x \in Placed(order) PROVE x \in Placed(new)
    <3>1. PICK i \in 1 .. Len(order) : x = order[i]
      BY Zenon DEF Placed
    <3>2. i \in 1 .. Len(new) /\ x = new[i]
      BY <1>1, <2>2, <3>1
    <3> QED BY <3>2, Zenon DEF Placed
  <2>6. n \in Placed(new)
    BY <1>1, <2>3, Zenon DEF Placed
  <2> QED BY <2>4, <2>5, <2>6
<1>3. \A i, j \in 1 .. Len(new) : new[i] = new[j] => i = j
  <2>1. \A i \in 1 .. Len(new) : i \in 1 .. Len(order) \/ i = Len(order) + 1
    BY <1>1
  <2>2. \A i \in 1 .. Len(order) : order[i] # n
    BY DEF Placed
  <2> QED BY <1>1, <2>1, <2>2
<1>4. ASSUME NEW i \in 1 .. Len(new), NEW d \in deps[new[i]] PROVE \E j \in 1 .. i - 1 : new[j] = d
  <2>1. CASE i \in 1 .. Len(order)
    <3>1. d \in deps[order[i]]
      BY <1>1, <2>1
    <3>2. PICK j \in 1 .. i - 1 : order[j] = d
      BY <2>1, <3>1
    <3>3. j \in 1 .. Len(order)
      BY <1>1, <2>1
    <3> QED BY <1>1, <3>2, <3>3
  <2>2. CASE i = Len(order) + 1
    <3>1. d \in Placed(order)
      BY <1>1, <2>2
    <3>2. PICK j \in 1 .. Len(order) : order[j] = d
      BY <3>1 DEF Placed
    <3>3. j \in 1 .. i - 1
      BY <1>1, <2>2
    <3> QED BY <1>1, <3>2, <3>3
  <2> QED BY <1>1, <2>1, <2>2
<1>5. Cardinality(Placed(new)) = Len(new)
  <2>1. Placed(order) \subseteq TopoNodes
    <3>1. \A i \in 1 .. Len(order) : order[i] \in TopoNodes
      OBVIOUS
    <3>2. ASSUME NEW x \in Placed(order) PROVE x \in TopoNodes
      <4>1. PICK i \in 1 .. Len(order) : x = order[i]
        BY Zenon DEF Placed
      <4> QED BY <3>1, <4>1
    <3> QED BY <3>2
  <2>2. IsFiniteSet(Placed(order))
    BY <2>1, PlanningAssumption, FS_Subset
  <2>3. Cardinality(Placed(order) \cup {n}) = Cardinality(Placed(order)) + 1
    BY <2>2, FS_AddElement
  <2> QED BY <1>1, <1>2, <2>3
<1> QED BY <1>1, <1>2, <1>3, <1>4, <1>5

\* Placing the least ready node keeps what is counted.
LEMMA PlaceStep ==
    ASSUME subject = "topo", TopoInv, PlaceNode PROVE subject' = "topo" /\ TopoInv'
<1>1. /\ TopoShape /\ OrderFacts(st.deps, st.order) /\ CountFacts(st.deps, st.indeg, st.ready, st.order)
      /\ st.answer = "none" /\ st.ready # {}
  BY DEF TopoInv, PlaceNode
<1> PICK n : n = Min(st.ready)
  OBVIOUS
<1> PICK hit : hit = {d \in TopoNodes : n \in st.deps[d]}
  OBVIOUS
<1> PICK indeg : indeg = [d \in TopoNodes |-> IF d \in hit THEN st.indeg[d] - 1 ELSE st.indeg[d]]
  OBVIOUS
<1> PICK ready : ready = (st.ready \ {n}) \cup {d \in hit : indeg[d] = 0}
  OBVIOUS
<1> PICK order : order = Append(st.order, n)
  OBVIOUS
<1>2. subject' = "topo" /\ st' = [st EXCEPT !.order = order, !.indeg = indeg, !.ready = ready]
  BY Zenon DEF PlaceNode, Step
<1>3. n \in st.ready
  <2>1. st.ready \in SUBSET Nat
    BY <1>1, PlanningAssumption DEF CountFacts
  <2>2. \E k \in st.ready : \A j \in st.ready : k <= j
    BY <1>1, <2>1, LeastOfNat
  <2> QED BY <2>2, Zenon DEF Min
<1>4. n \in TopoNodes /\ n \notin Placed(st.order) /\ st.deps[n] \subseteq Placed(st.order)
  BY <1>1, <1>3 DEF CountFacts
<1>5. OrderFacts(st.deps, order) /\ Placed(order) = Placed(st.order) \cup {n}
  BY <1>1, <1>4, PlacedAfter
<1>6. st.deps \in [TopoNodes -> SUBSET TopoNodes]
  BY <1>1 DEF OrderFacts
<1>7. ASSUME NEW d \in TopoNodes PROVE IsFiniteSet(st.deps[d] \ Placed(st.order))
  <2>1. st.deps[d] \ Placed(st.order) \subseteq TopoNodes
    BY <1>6
  <2> QED BY <2>1, PlanningAssumption, FS_Subset
<1>8. ASSUME NEW d \in TopoNodes PROVE indeg[d] = Cardinality(st.deps[d] \ Placed(order))
  <2> PICK X : X = st.deps[d] \ Placed(st.order)
    OBVIOUS
  <2>1. st.indeg[d] = Cardinality(X) /\ IsFiniteSet(X)
    BY <1>1, <1>7 DEF CountFacts
  <2>2. CASE d \in hit
    <3>1. n \in X /\ st.deps[d] \ Placed(order) = X \ {n}
      BY <1>4, <1>5, <2>2
    <3>2. Cardinality(X \ {n}) = Cardinality(X) - 1
      BY <2>1, <3>1, FS_RemoveElement
    <3> QED BY <2>1, <2>2, <3>1, <3>2
  <2>3. CASE d \notin hit
    <3>1. st.deps[d] \ Placed(order) = X
      BY <1>5, <2>3
    <3> QED BY <2>1, <2>3, <3>1
  <2> QED BY <2>2, <2>3
<1>9. ASSUME NEW d \in TopoNodes PROVE indeg[d] = 0 <=> st.deps[d] \subseteq Placed(order)
  <2>1. IsFiniteSet(st.deps[d] \ Placed(order))
    <3>1. st.deps[d] \ Placed(order) \subseteq TopoNodes
      BY <1>6
    <3> QED BY <3>1, PlanningAssumption, FS_Subset
  <2>2. Cardinality(st.deps[d] \ Placed(order)) = 0 <=> st.deps[d] \ Placed(order) = {}
    BY <2>1, FS_EmptySet
  <2> QED BY <1>8, <2>2
<1>10. ready = {m \in TopoNodes : m \notin Placed(order) /\ st.deps[m] \subseteq Placed(order)}
  <2>1. ASSUME NEW m \in ready PROVE m \in TopoNodes /\ m \notin Placed(order) /\ st.deps[m] \subseteq Placed(order)
    <3>1. CASE m \in st.ready \ {n}
      BY <1>1, <1>5, <3>1 DEF CountFacts
    <3>2. CASE m \in hit /\ indeg[m] = 0
      <4>1. m \in TopoNodes /\ n \in st.deps[m] /\ st.deps[m] \subseteq Placed(order)
        BY <1>9, <3>2
      <4>2. m # n
        BY <1>4, <4>1
      <4>3. m \notin Placed(st.order)
        <5> SUFFICES ASSUME NEW i \in 1 .. Len(st.order), st.order[i] = m PROVE FALSE
          BY DEF Placed
        <5>1. PICK j \in 1 .. i - 1 : st.order[j] = n
          BY <1>1, <4>1 DEF OrderFacts
        <5>2. j \in 1 .. Len(st.order)
          BY <1>1 DEF OrderFacts
        <5> QED BY <1>4, <5>1, <5>2 DEF Placed
      <4> QED BY <1>5, <4>1, <4>2, <4>3
    <3> QED BY <3>1, <3>2
  <2>2. ASSUME NEW m \in TopoNodes, m \notin Placed(order), st.deps[m] \subseteq Placed(order) PROVE m \in ready
    <3>1. CASE n \in st.deps[m]
      BY <1>9, <2>2, <3>1
    <3>2. CASE n \notin st.deps[m]
      <4>1. st.deps[m] \subseteq Placed(st.order) /\ m \notin Placed(st.order) /\ m # n
        BY <1>5, <2>2, <3>2
      <4> QED BY <1>1, <4>1 DEF CountFacts
    <3> QED BY <3>1, <3>2
  <2> QED BY <2>1, <2>2
<1>11. CountFacts(st.deps, indeg, ready, order)
  BY <1>8, <1>10 DEF CountFacts
<1>12. st' = [deps |-> st.deps, indeg |-> indeg, ready |-> ready, order |-> order, answer |-> st.answer]
  BY <1>1, <1>2 DEF TopoShape
<1>13. /\ st'.deps = st.deps /\ st'.indeg = indeg /\ st'.ready = ready /\ st'.order = order
       /\ st'.answer = "none"
  BY <1>1, <1>12
<1> QED BY <1>1, <1>2, <1>5, <1>11, <1>12, <1>13 DEF TopoInv, TopoShape

\* The answer says whether every node was placed.
LEMMA FinishStep ==
    ASSUME subject = "topo", TopoInv, FinishOrder PROVE subject' = "topo" /\ TopoInv'
<1>1. /\ TopoShape /\ OrderFacts(st.deps, st.order) /\ CountFacts(st.deps, st.indeg, st.ready, st.order)
      /\ st.answer = "none" /\ st.ready = {}
  BY DEF TopoInv, FinishOrder
<1> PICK a : a = IF Len(st.order) = Cardinality(TopoNodes) THEN "ok" ELSE "cycle_detected"
  OBVIOUS
<1>2. subject' = "topo" /\ st' = [st EXCEPT !.answer = a]
  BY Zenon DEF FinishOrder, Step
<1>3. st' = [deps |-> st.deps, indeg |-> st.indeg, ready |-> st.ready, order |-> st.order, answer |-> a]
  BY <1>1, <1>2 DEF TopoShape
<1>4. /\ st'.deps = st.deps /\ st'.indeg = st.indeg /\ st'.ready = st.ready /\ st'.order = st.order
      /\ st'.answer = a
  BY <1>3
<1> QED BY <1>1, <1>2, <1>3, <1>4 DEF TopoInv, TopoShape

\* At first nothing is placed.
LEMMA TopoInits == ASSUME TopoInit PROVE TopoInv
<1>1. PICK deps \in [TopoNodes -> SUBSET TopoNodes] :
        st = [deps |-> deps, indeg |-> [n \in TopoNodes |-> Cardinality(deps[n])],
              ready |-> {n \in TopoNodes : deps[n] = {}}, order |-> <<>>, answer |-> "none"]
  BY Zenon DEF TopoInit
<1> PICK indeg : indeg = [n \in TopoNodes |-> Cardinality(deps[n])]
  OBVIOUS
<1> PICK ready : ready = {n \in TopoNodes : deps[n] = {}}
  OBVIOUS
<1>2. st = [deps |-> deps, indeg |-> indeg, ready |-> ready, order |-> <<>>, answer |-> "none"]
  BY <1>1, Zenon
<1>3. st.deps = deps /\ st.indeg = indeg /\ st.ready = ready /\ st.order = <<>> /\ st.answer = "none"
  BY <1>2
<1>4. Placed(<<>>) = {}
  BY DEF Placed
<1>5. Cardinality({}) = 0
  BY FS_EmptySet
<1>6. OrderFacts(deps, <<>>)
  <2>1. Len(<<>>) = 0 /\ 1 .. 0 = {} /\ <<>> \in Seq(TopoNodes)
    OBVIOUS
  <2> QED BY <1>4, <1>5, <2>1 DEF OrderFacts
<1>7. \A n \in TopoNodes : deps[n] \ Placed(<<>>) = deps[n]
  BY <1>4
<1>8. CountFacts(deps, indeg, ready, <<>>)
  BY <1>4, <1>7 DEF CountFacts
<1> QED BY <1>2, <1>3, <1>6, <1>8 DEF TopoInv, TopoShape

\* The order is complete exactly when the graph has no cycle, and respects it.
LEMMA TopoInvHolds == ASSUME TopoInv PROVE TopoSound
<1> SUFFICES ASSUME subject = "topo", st.answer # "none"
             PROVE  /\ (st.answer = "cycle_detected") =
                          \E S \in SUBSET TopoNodes : S # {} /\ \A n \in S : st.deps[n] \cap S # {}
                    /\ st.answer = "ok" =>
                          \A n \in TopoNodes :
                              /\ \E i \in DOMAIN st.order : st.order[i] = n
                              /\ \A d \in st.deps[n] :
                                    (CHOOSE i \in DOMAIN st.order : st.order[i] = d)
                                       < (CHOOSE i \in DOMAIN st.order : st.order[i] = n)
  BY Zenon DEF TopoSound
<1> DEFINE deps == st.deps
           order == st.order
<1>1. /\ OrderFacts(deps, order) /\ CountFacts(deps, st.indeg, st.ready, order) /\ st.ready = {}
      /\ st.answer = IF Len(order) = Cardinality(TopoNodes) THEN "ok" ELSE "cycle_detected"
  BY DEF TopoInv
<1>2. /\ deps \in [TopoNodes -> SUBSET TopoNodes] /\ DOMAIN order = 1 .. Len(order) /\ Len(order) \in Nat
      /\ \A i \in 1 .. Len(order) : order[i] \in TopoNodes
  BY <1>1 DEF OrderFacts
<1>3. Placed(order) \subseteq TopoNodes
  BY <1>2 DEF Placed
<1>4. Len(order) = Cardinality(TopoNodes) <=> Placed(order) = TopoNodes
  <2>1. Len(order) = Cardinality(Placed(order))
    BY <1>1 DEF OrderFacts
  <2>2. Cardinality(Placed(order)) = Cardinality(TopoNodes) => Placed(order) = TopoNodes
    BY <1>3, PlanningAssumption, FS_Subset
  <2> QED BY <2>1, <2>2
<1>5. CASE st.answer = "ok"
  <2>1. Placed(order) = TopoNodes
    BY <1>1, <1>4, <1>5
  <2>2. ASSUME NEW S \in SUBSET TopoNodes, S # {}, \A n \in S : deps[n] \cap S # {} PROVE FALSE
    <3> PICK I : I = {i \in 1 .. Len(order) : order[i] \in S}
      OBVIOUS
    <3>1. I \in SUBSET Nat /\ I # {}
      BY <2>1, <2>2 DEF Placed
    <3>2. PICK i \in I : \A j \in I : i <= j
      BY <3>1, LeastOfNat
    <3>3. i \in 1 .. Len(order) /\ order[i] \in S
      OBVIOUS
    <3>4. PICK d : d \in deps[order[i]] /\ d \in S
      BY <2>2, <3>3
    <3>5. PICK j \in 1 .. i - 1 : order[j] = d
      BY <1>1, <3>3, <3>4 DEF OrderFacts
    <3>6. j \in I /\ j < i
      BY <1>2, <3>3, <3>4, <3>5
    <3> QED BY <1>2, <3>2, <3>3, <3>6
  <2>3. ASSUME NEW n \in TopoNodes PROVE \E i \in DOMAIN order : order[i] = n
    BY <1>2, <2>1 DEF Placed
  <2>4. ASSUME NEW n \in TopoNodes, NEW d \in deps[n]
        PROVE  (CHOOSE i \in DOMAIN order : order[i] = d) < (CHOOSE i \in DOMAIN order : order[i] = n)
    <3> PICK x : x = CHOOSE i \in DOMAIN order : order[i] = d
      OBVIOUS
    <3> PICK y : y = CHOOSE i \in DOMAIN order : order[i] = n
      OBVIOUS
    <3>1. d \in TopoNodes
      BY <1>2
    <3>2. x \in DOMAIN order /\ order[x] = d
      BY <2>3, <3>1, Zenon
    <3>3. y \in DOMAIN order /\ order[y] = n
      BY <2>3, Zenon
    <3>8. y \in 1 .. Len(order) /\ y \in Nat /\ d \in deps[order[y]]
      BY <1>2, <3>3
    <3>4. PICK j \in 1 .. y - 1 : order[j] = d
      BY <1>1, <3>8 DEF OrderFacts
    <3>5. j \in 1 .. Len(order)
      BY <1>2, <3>3
    <3>6. j = x
      BY <1>1, <1>2, <3>2, <3>4, <3>5 DEF OrderFacts
    <3>7. x < y
      BY <3>4, <3>6, <3>8
    <3> QED BY <3>7
  <2>5. ~\E S \in SUBSET TopoNodes : S # {} /\ \A n \in S : deps[n] \cap S # {}
    BY <2>2
  <2>6. st.answer # "cycle_detected"
    BY <1>5
  <2>7. (st.answer = "cycle_detected") =
          \E S \in SUBSET TopoNodes : S # {} /\ \A n \in S : deps[n] \cap S # {}
    BY <2>5, <2>6
  <2> QED BY <2>3, <2>4, <2>7, Zenon
<1>6. CASE st.answer # "ok"
  <2>1. st.answer = "cycle_detected" /\ Placed(order) # TopoNodes
    BY <1>1, <1>4, <1>6
  <2> PICK S : S = TopoNodes \ Placed(order)
    OBVIOUS
  <2>2. S \in SUBSET TopoNodes /\ S # {}
    BY <1>3, <2>1
  <2>3. ASSUME NEW n \in S PROVE deps[n] \cap S # {}
    <3>1. ~(deps[n] \subseteq Placed(order))
      BY <1>1 DEF CountFacts
    <3> QED BY <1>2, <3>1
  <2> QED BY <1>6, <2>1, <2>2, <2>3
<1> QED BY <1>5, <1>6
-----------------------------------------------------------------------------
(***************************************************************************)
(* Planning: routes, plans, admission and the corpus.                      *)
(***************************************************************************)
AdmitInv ==
    subject = "admit" =>
        /\ st = [selected |-> st.selected, over |-> st.over]
        /\ st.over # <<>> => (st.over[1] = {} => st.over[2] = {})

\* Nothing is judged yet.
LEMMA AdmitInits == ASSUME AdmitInit PROVE AdmitInv
<1>1. PICK s : st = [selected |-> s, over |-> <<>>]
  BY DEF AdmitInit
<1>2. st.selected = s /\ st.over = <<>>
  BY <1>1
<1> QED BY <1>1, <1>2 DEF AdmitInv

\* Both classes judge the same steps.
LEMMA AdmitStep == ASSUME AdmitInv, AdmitBoth PROVE subject' = "admit" /\ AdmitInv'
<1>1. st = [selected |-> st.selected, over |-> st.over]
  BY DEF AdmitInv, AdmitBoth
<1> PICK d : d = Over(st.selected, "default")
  OBVIOUS
<1> PICK e : e = Over(st.selected, "exception")
  OBVIOUS
<1> PICK o : o = <<d, e>>
  OBVIOUS
<1>2. subject' = "admit" /\ st' = [st EXCEPT !.over = o]
  BY Zenon DEF AdmitBoth, Step
<1>3. st' = [selected |-> st.selected, over |-> o]
  BY <1>1, <1>2
<1>4. st'.selected = st.selected /\ st'.over = o
  BY <1>3
<1>5. d = {} => e = {}
  BY OverIsMonotone
<1>6. o[1] = d /\ o[2] = e
  OBVIOUS
<1> QED BY <1>2, <1>3, <1>4, <1>5, <1>6 DEF AdmitInv

\* A route as the router builds it.
Routed(sel, requested, applicable, catalog) ==
    sel = [p \in SCIENCE_LAB_PROFILES \cup (applicable \cap FUTURE_PROFILE_IDS) |->
              IF p \in applicable THEN RouteOne(p, catalog)
              ELSE IF requested # {} THEN "EXCLUDED_TYPED" ELSE "NOT_APPLICABLE"]

\* What a route says of each profile.
LEMMA RouteIs ==
    ASSUME NEW requested, NEW claim, NEW catalog, NEW sel \in Route(requested, claim, catalog)
    PROVE  /\ Routed(sel, requested, Applicable(requested, claim), catalog)
           /\ \A p \in DOMAIN sel : sel[p] # "CONTRACT_INVALID"
           /\ requested \subseteq KNOWN_PROFILES
<1> DEFINE applicable == Applicable(requested, claim)
<1> PICK s : Routed(s, requested, applicable, catalog)
  BY Zenon DEF Routed
<1>1. Route(requested, claim, catalog) =
         IF \/ ~requested \subseteq KNOWN_PROFILES
            \/ \E p \in DOMAIN s : s[p] = "CONTRACT_INVALID"
         THEN {} ELSE {s}
  BY Zenon DEF Route, Routed
<1> QED BY <1>1

\* A science-lab profile that is selected is available and has an adapter.
LEMMA SelectedIsOffered ==
    ASSUME NEW requested, NEW applicable, NEW catalog, NEW sel, Routed(sel, requested, applicable, catalog)
    PROVE  /\ SCIENCE_LAB_PROFILES \subseteq DOMAIN sel
           /\ \A p \in DOMAIN sel :
                 sel[p] = "SELECTED" => IsAvailable(catalog, p) /\ Entry(catalog, p).adapter
           /\ \A p \in applicable \cap SCIENCE_LAB_PROFILES : sel[p] = RouteOne(p, catalog)
<1>1. DOMAIN sel = SCIENCE_LAB_PROFILES \cup (applicable \cap FUTURE_PROFILE_IDS)
  BY DEF Routed
<1>2. \A p \in DOMAIN sel : sel[p] = IF p \in applicable THEN RouteOne(p, catalog)
                                     ELSE IF requested # {} THEN "EXCLUDED_TYPED" ELSE "NOT_APPLICABLE"
  BY <1>1 DEF Routed
<1>3. ASSUME NEW p \in DOMAIN sel, sel[p] = "SELECTED" PROVE IsAvailable(catalog, p) /\ Entry(catalog, p).adapter
  <2>1. RouteOne(p, catalog) = "SELECTED"
    BY <1>2, <1>3
  <2> QED BY <2>1, Zenon DEF RouteOne
<1> QED BY <1>1, <1>2, <1>3

PlanShape ==
    st = [phase |-> st.phase, requested |-> st.requested, claim |-> st.claim, class |-> st.class,
          catalog |-> st.catalog, sel |-> st.sel, plan |-> st.plan, answer |-> st.answer]
PlanFacts(requested, claim, class, catalog, sels, plans) ==
    /\ \A sel \in sels, c \in catalog : sel \in Route(requested, claim, c)
    /\ catalog = {} => sels = {}
    /\ plans # {} => \E sel \in sels : plans = {PlanOf(sel, class)}
PlanInv ==
    subject = "plan" =>
        /\ PlanShape /\ PlanFacts(st.requested, st.claim, st.class, st.catalog, st.sel, st.plan)
        /\ st.phase # "done" => st.plan = {}
        /\ st.phase = "route" => st.sel = {}

\* Nothing is routed yet.
LEMMA PlanInits == ASSUME PlanInit PROVE PlanInv
<1>1. PICK requested, claim, class :
        st = [phase |-> "route", requested |-> requested, claim |-> claim, class |-> class,
              catalog |-> {}, sel |-> {}, plan |-> {}, answer |-> "none"]
  BY Zenon DEF PlanInit
<1>2. /\ st.phase = "route" /\ st.requested = requested /\ st.claim = claim /\ st.class = class
      /\ st.catalog = {} /\ st.sel = {} /\ st.plan = {} /\ st.answer = "none"
  BY <1>1
<1> QED BY <1>1, <1>2 DEF PlanInv, PlanShape, PlanFacts

\* Routing takes the catalog it was given.
LEMMA RouteStep ==
    ASSUME PlanInv, NEW c, RouteRequest(c) PROVE subject' = "plan" /\ PlanInv'
<1>1. PlanShape /\ st.plan = {}
  BY DEF PlanInv, RouteRequest
<1> PICK sels : sels = Route(st.requested, st.claim, c)
  OBVIOUS
<1> PICK phase : phase = IF sels = {} THEN "done" ELSE "plan"
  OBVIOUS
<1> PICK answer : answer = IF sels = {} THEN "CONTRACT_INVALID" ELSE "none"
  OBVIOUS
<1>2. /\ subject' = "plan"
      /\ st' = [st EXCEPT !.catalog = {c}, !.sel = sels, !.phase = phase, !.answer = answer]
  BY Zenon DEF RouteRequest, Step
<1>3. st' = [phase |-> phase, requested |-> st.requested, claim |-> st.claim, class |-> st.class,
             catalog |-> {c}, sel |-> sels, plan |-> st.plan, answer |-> answer]
  BY <1>1, <1>2 DEF PlanShape
<1>4. /\ st'.phase = phase /\ st'.requested = st.requested /\ st'.claim = st.claim /\ st'.class = st.class
      /\ st'.catalog = {c} /\ st'.sel = sels /\ st'.plan = st.plan /\ st'.answer = answer
  BY <1>3
<1>5. PlanFacts(st.requested, st.claim, st.class, {c}, sels, st.plan)
  BY <1>1 DEF PlanFacts
<1>6. phase # "route"
  OBVIOUS
<1> QED BY <1>1, <1>2, <1>3, <1>4, <1>5, <1>6 DEF PlanInv, PlanShape

\* The plan is built of the route.
LEMMA BuildStep ==
    ASSUME PlanInv, BuildPlan PROVE subject' = "plan" /\ PlanInv'
<1>1. /\ PlanShape /\ PlanFacts(st.requested, st.claim, st.class, st.catalog, st.sel, st.plan)
  BY DEF PlanInv, BuildPlan
<1>2. PICK sel \in st.sel :
        LET v == BuildPlanVerdict(sel, st.class)
        IN  Step("plan", [st EXCEPT !.phase = "done", !.answer = v,
                                    !.plan = IF v = "ok" THEN {PlanOf(sel, st.class)} ELSE {}])
  BY Zenon DEF BuildPlan
<1> PICK v : v = BuildPlanVerdict(sel, st.class)
  OBVIOUS
<1> PICK plan : plan = IF v = "ok" THEN {PlanOf(sel, st.class)} ELSE {}
  OBVIOUS
<1>3. subject' = "plan" /\ st' = [st EXCEPT !.phase = "done", !.answer = v, !.plan = plan]
  BY <1>2, Zenon DEF Step
<1>4. st' = [phase |-> "done", requested |-> st.requested, claim |-> st.claim, class |-> st.class,
             catalog |-> st.catalog, sel |-> st.sel, plan |-> plan, answer |-> v]
  BY <1>1, <1>3 DEF PlanShape
<1>5. /\ st'.phase = "done" /\ st'.requested = st.requested /\ st'.claim = st.claim /\ st'.class = st.class
      /\ st'.catalog = st.catalog /\ st'.sel = st.sel /\ st'.plan = plan /\ st'.answer = v
  BY <1>4
<1>6. PlanFacts(st.requested, st.claim, st.class, st.catalog, st.sel, plan)
  BY <1>1 DEF PlanFacts
<1> QED BY <1>3, <1>4, <1>5, <1>6 DEF PlanInv, PlanShape

\* A plan selects what is offered and puts a step after what it depends on.
LEMMA PlanInvHolds == ASSUME PlanInv PROVE NoLocalFallback /\ PlanOrdered
<1> SUFFICES ASSUME subject = "plan", NEW plan \in st.plan
             PROVE  /\ \A c \in st.catalog, p \in SCIENCE_LAB_PROFILES :
                          plan.sel[p] = "SELECTED" => IsAvailable(c, p) /\ Entry(c, p).adapter
                    /\ \A p \in SCIENCE_LAB_PROFILES : \A d \in plan.depends[p] :
                          plan.rank[d] < plan.rank[p] /\ plan.sel[d] \in {"SELECTED", "WAIT_CAPABILITY"}
  BY Zenon DEF NoLocalFallback, PlanOrdered
<1>1. PlanFacts(st.requested, st.claim, st.class, st.catalog, st.sel, st.plan)
  BY DEF PlanInv
<1>2. PICK sel \in st.sel : plan = PlanOf(sel, st.class)
  BY <1>1 DEF PlanFacts
<1>3. PICK c0 \in st.catalog : sel \in Route(st.requested, st.claim, c0)
  BY <1>1 DEF PlanFacts
<1> PICK applicable : applicable = (Selected(sel) \cup Waiting(sel)) \cap SCIENCE_LAB_PROFILES
  OBVIOUS
<1> PICK rank : rank = [p \in SCIENCE_LAB_PROFILES |->
                          IF p \notin applicable THEN 2 ELSE IF PlanDependencies(applicable, p) # {}
                          THEN 1 ELSE 0]
  OBVIOUS
<1> PICK depends : depends = [p \in SCIENCE_LAB_PROFILES |->
                                IF p \in applicable THEN PlanDependencies(applicable, p) ELSE {}]
  OBVIOUS
<1>4. plan = [rank |-> rank, depends |-> depends, sel |-> sel, class |-> st.class]
  BY <1>2, Zenon DEF PlanOf
<1>5. plan.rank = rank /\ plan.depends = depends /\ plan.sel = sel
  BY <1>4
<1>6. ASSUME NEW c \in st.catalog, NEW p \in SCIENCE_LAB_PROFILES, sel[p] = "SELECTED"
      PROVE  IsAvailable(c, p) /\ Entry(c, p).adapter
  <2>1. sel \in Route(st.requested, st.claim, c)
    BY <1>1 DEF PlanFacts
  <2>2. Routed(sel, st.requested, Applicable(st.requested, st.claim), c)
    BY <2>1, RouteIs
  <2> QED BY <1>6, <2>2, SelectedIsOffered
<1>7. ASSUME NEW p \in SCIENCE_LAB_PROFILES, NEW d \in depends[p]
      PROVE  rank[d] < rank[p] /\ sel[d] \in {"SELECTED", "WAIT_CAPABILITY"}
  <2>1. p \in applicable /\ d \in PlanDependencies(applicable, p)
    <3>1. depends[p] = IF p \in applicable THEN PlanDependencies(applicable, p) ELSE {}
      OBVIOUS
    <3> QED BY <3>1
  <2>2. p = "model_composition" /\ d \in applicable /\ d # "model_composition"
    BY <2>1 DEF PlanDependencies
  <2>3. PlanDependencies(applicable, d) = {} /\ PlanDependencies(applicable, p) # {}
    BY <2>1, <2>2 DEF PlanDependencies
  <2>4. rank[p] = 1 /\ rank[d] = 0
    BY <2>1, <2>2, <2>3
  <2>5. sel[d] \in {"SELECTED", "WAIT_CAPABILITY"}
    BY <2>2 DEF Selected, Waiting
  <2>6. 0 < 1
    OBVIOUS
  <2> QED BY <2>4, <2>5, <2>6, Zenon
<1> QED BY <1>5, <1>6, <1>7

TaskEarned(task, catalog) ==
    /\ ~task.copyleft /\ task.marker = "none" /\ task.ir # "unsupported"
    /\ \A p \in task.requested : IsAvailable(catalog, p)
    /\ task.ownCatalog => Over(task.requested, "default") = {}
CorpusInv ==
    subject = "corpus" =>
        /\ st = [task |-> st.task, catalog |-> st.catalog, answer |-> st.answer]
        /\ st.task \in Tasks
        /\ st.answer = "PASS" => st.catalog # {} /\ \A c \in st.catalog : TaskEarned(st.task, c)

\* A task passes only with all it needs.
LEMMA PassIs ==
    ASSUME NEW t \in Tasks, NEW catalog, AdmissionGate(t) = "none", RouteOutcome(t, catalog) = "PASS"
    PROVE  TaskEarned(t, catalog)
<1> PICK claim : claim = [source |-> "experiment", class |-> "hypothesis", mentions |-> {},
                          symbol_cds |-> {}, condition_cds |-> {}]
  OBVIOUS
<1> PICK request : request = [class |-> "default", seedPolicy |-> t.request, schemas |-> TRUE,
                              requested |-> t.requested]
  OBVIOUS
<1> PICK sels : sels = Route(t.requested, claim, catalog)
  OBVIOUS
<1> PICK sel : sel = CHOOSE s \in sels : TRUE
  OBVIOUS
<1>1. RouteOutcome(t, catalog) =
        IF RequestVerdict(request) # "ok" \/ sels = {} THEN "REJECT_CONTRACT"
        ELSE IF t.ownCatalog /\ BuildPlanVerdict(sel, "default") # "ok"
             THEN "REJECT_RESOURCE" ELSE SelectionOutcome(sel)
  BY Zenon DEF RouteOutcome
<1>2. /\ RequestVerdict(request) = "ok" /\ sels # {}
      /\ t.ownCatalog => BuildPlanVerdict(sel, "default") = "ok"
      /\ SelectionOutcome(sel) = "PASS"
  BY <1>1
<1>3. sel \in sels
  BY <1>2, Zenon
<1>4. /\ Routed(sel, t.requested, Applicable(t.requested, claim), catalog)
      /\ \A p \in DOMAIN sel : sel[p] # "CONTRACT_INVALID"
  BY <1>3, RouteIs
<1>5. t.requested \subseteq SCIENCE_LAB_PROFILES
  <2>1. request.requested = t.requested
    OBVIOUS
  <2>2. request.requested \subseteq SCIENCE_LAB_PROFILES
    BY <1>2, Zenon DEF RequestVerdict
  <2> QED BY <2>1, <2>2
<1>6. Waiting(sel) = {}
  BY <1>2 DEF SelectionOutcome
<1>7. ASSUME NEW p \in t.requested PROVE IsAvailable(catalog, p) /\ p \in Selected(sel) \cap SCIENCE_LAB_PROFILES
  <2>1. p \in Applicable(t.requested, claim) \cap SCIENCE_LAB_PROFILES
    BY <1>5 DEF Applicable
  <2>2. p \in DOMAIN sel /\ sel[p] = RouteOne(p, catalog)
    BY <1>4, <2>1, SelectedIsOffered
  <2>3. sel[p] # "WAIT_CAPABILITY" /\ sel[p] # "CONTRACT_INVALID"
    BY <1>4, <1>6, <2>2 DEF Waiting
  <2>4. RouteOne(p, catalog) = "SELECTED" /\ IsAvailable(catalog, p)
    BY <2>2, <2>3, Zenon DEF RouteOne
  <2> QED BY <2>1, <2>2, <2>4 DEF Selected
<1>8. t.ownCatalog => Over(t.requested, "default") = {}
  <2>1. t.requested \subseteq Selected(sel) \cap SCIENCE_LAB_PROFILES
    BY <1>7
  <2>2. t.ownCatalog => Over(Selected(sel) \cap SCIENCE_LAB_PROFILES, "default") = {}
    BY <1>2, Zenon DEF BuildPlanVerdict
  <2> QED BY <2>1, <2>2, OverIsMonotone
<1>9. ~t.copyleft /\ t.marker = "none" /\ t.ir # "unsupported"
  BY DEF AdmissionGate, Tasks
<1> QED BY <1>7, <1>8, <1>9 DEF TaskEarned

\* A task brings what its kind says.
LEMMA CorpusInits == ASSUME CorpusInit PROVE CorpusInv
<1>1. PICK t \in Tasks : st = [task |-> t, catalog |-> {}, answer |-> "none"]
  BY Zenon DEF CorpusInit
<1>2. st.task = t /\ st.catalog = {} /\ st.answer = "none"
  BY <1>1
<1> QED BY <1>1, <1>2 DEF CorpusInv

\* The gate comes before the route.
LEMMA CorpusStep ==
    ASSUME CorpusInv, NEW c, RunTask(c) PROVE subject' = "corpus" /\ CorpusInv'
<1>1. st = [task |-> st.task, catalog |-> st.catalog, answer |-> st.answer] /\ st.task \in Tasks
  BY DEF CorpusInv, RunTask
<1> PICK a : a = IF AdmissionGate(st.task) # "none" THEN AdmissionGate(st.task)
                 ELSE RouteOutcome(st.task, c)
  OBVIOUS
<1>2. subject' = "corpus" /\ st' = [st EXCEPT !.catalog = {c}, !.answer = a]
  BY Zenon DEF RunTask, Step
<1>3. st' = [task |-> st.task, catalog |-> {c}, answer |-> a]
  BY <1>1, <1>2
<1>4. st'.task = st.task /\ st'.catalog = {c} /\ st'.answer = a
  BY <1>3
<1>5. a = "PASS" => TaskEarned(st.task, c)
  <2>1. AdmissionGate(st.task) # "PASS"
    BY DEF AdmissionGate
  <2> QED BY <1>1, <2>1, PassIs
<1> QED BY <1>1, <1>2, <1>3, <1>4, <1>5 DEF CorpusInv

PlanningInv == PlanInv /\ TopoInv /\ CorpusInv /\ AdmitInv

\* The initial states satisfy the planning invariant.
LEMMA PlanningInits == PlanningInit => PlanningInv
<1> SUFFICES ASSUME PlanningInit PROVE PlanningInv
  OBVIOUS
<1>1. CASE PlanInit
  BY <1>1, PlanInits DEF PlanInit, PlanningInv, TopoInv, CorpusInv, AdmitInv
<1>2. CASE TopoInit
  BY <1>2, TopoInits DEF TopoInit, PlanningInv, PlanInv, CorpusInv, AdmitInv
<1>3. CASE CorpusInit
  BY <1>3, CorpusInits DEF CorpusInit, PlanningInv, PlanInv, TopoInv, AdmitInv
<1>4. CASE AdmitInit
  BY <1>4, AdmitInits DEF AdmitInit, PlanningInv, PlanInv, TopoInv, CorpusInv
<1>5. CASE FutureInit
  BY <1>5 DEF FutureInit, PlanningInv, PlanInv, TopoInv, CorpusInv, AdmitInv
<1> QED BY <1>1, <1>2, <1>3, <1>4, <1>5 DEF PlanningInit

\* Every step of such a call keeps the planning invariant.
LEMMA PlanningSteps == PlanningInv /\ PlanningNext => PlanningInv'
<1> SUFFICES ASSUME PlanningInv, PlanningNext PROVE PlanningInv'
  OBVIOUS
<1>1. CASE subject' = "plan" /\ PlanInv'
  BY <1>1 DEF PlanningInv, TopoInv, CorpusInv, AdmitInv
<1>2. CASE subject' = "topo" /\ TopoInv'
  BY <1>2 DEF PlanningInv, PlanInv, CorpusInv, AdmitInv
<1>3. CASE subject' = "corpus" /\ CorpusInv'
  BY <1>3 DEF PlanningInv, PlanInv, TopoInv, AdmitInv
<1>4. CASE subject' = "admit" /\ AdmitInv'
  BY <1>4 DEF PlanningInv, PlanInv, TopoInv, CorpusInv
<1>5. CASE LoadFutureCard
  <2>1. subject' = "future"
    BY <1>5 DEF LoadFutureCard, Step
  <2> QED BY <2>1 DEF PlanningInv, PlanInv, TopoInv, CorpusInv, AdmitInv
<1>6. CASE BuildPlan \/ \E c : RouteRequest(c)
  BY <1>1, <1>6, BuildStep, RouteStep DEF PlanningInv
<1>7. CASE PlaceNode
  BY <1>2, <1>7, PlaceStep DEF PlanningInv, PlaceNode
<1>8. CASE FinishOrder
  BY <1>2, <1>8, FinishStep DEF PlanningInv, FinishOrder
<1>9. CASE \E c : RunTask(c)
  BY <1>3, <1>9, CorpusStep DEF PlanningInv
<1>10. CASE AdmitBoth
  BY <1>4, <1>10, AdmitStep DEF PlanningInv
<1> QED BY <1>5, <1>6, <1>7, <1>8, <1>9, <1>10, Zenon DEF PlanningNext

\* A step that leaves the state alone keeps the planning invariant.
LEMMA PlanningUnmoved == PlanningInv /\ UNCHANGED frame => PlanningInv'
BY DEF frame, PlanningInv, PlanInv, PlanShape, TopoInv, TopoShape, CorpusInv, AdmitInv

\* The planning invariant gives the property its calls are checked for.
LEMMA PlanningInvHolds == PlanningInv => PlansSound
<1> SUFFICES ASSUME PlanningInv PROVE PlansSound
  OBVIOUS
<1>1. NoLocalFallback /\ PlanOrdered
  BY PlanInvHolds DEF PlanningInv
<1>2. TopoSound
  BY TopoInvHolds DEF PlanningInv
<1>3. ExceptionNeverStricter
  BY DEF PlanningInv, AdmitInv, ExceptionNeverStricter
<1>4. PassIsEarned
  <2> SUFFICES ASSUME subject = "corpus", st.answer = "PASS"
               PROVE  /\ ~st.task.copyleft /\ st.task.marker = "none" /\ st.task.ir # "unsupported"
                      /\ \A c \in st.catalog :
                            /\ \A p \in st.task.requested : IsAvailable(c, p)
                            /\ st.task.ownCatalog => Over(st.task.requested, "default") = {}
    BY Zenon DEF PassIsEarned
  <2>1. st.catalog # {} /\ \A c \in st.catalog : TaskEarned(st.task, c)
    BY Zenon DEF PlanningInv, CorpusInv
  <2>2. PICK c \in st.catalog : TaskEarned(st.task, c)
    BY <2>1
  <2> QED BY <2>1, <2>2, Zenon DEF TaskEarned
<1> QED BY <1>1, <1>2, <1>3, <1>4 DEF PlansSound

-----------------------------------------------------------------------------
(***************************************************************************)
(* Packs: admission chains and governance.                                 *)
(***************************************************************************)
AdmissionShape ==
    st = [chain |-> st.chain, record |-> st.record, revoked |-> st.revoked, answer |-> st.answer]
StageReceiptFacts(r, i) ==
    /\ r.from = STAGES[i] /\ r.stage = STAGES[i + 1] /\ r.evidence.kind = r.stage
    /\ r.stage # "EXPERIMENTAL_ACCEPTED" => r.evidence.found \in {"good", "allowed"}
ChainFacts(chain) ==
    /\ \E n \in 0 .. 8 : Len(chain) = n /\ DOMAIN chain = 1 .. n /\ \E V : chain \in Seq(V)
    /\ \A i \in DOMAIN chain : StageReceiptFacts(chain[i], i)
    /\ IsFiniteSet(ReceiptsOf(chain)) /\ Cardinality(ReceiptsOf(chain)) = Len(chain)
PackRecordFacts(r) ==
    r.status = "ACTIVE" =>
        /\ Cardinality(r.ids) = Len(STAGES) - 1
        /\ r.license = "allowed" /\ r.evidence.sbom /\ r.evidence.lock
        /\ \E s \in r.evidence.scan : s.critical <= s.maxCritical /\ s.high <= s.maxHigh
        /\ r.revoked \cap ({"pack"} \cup r.evidence.deps) = {}
AdmissionInv ==
    subject = "admission" =>
        /\ AdmissionShape /\ DOMAIN st.chain = Curators /\ \A c \in Curators : ChainFacts(st.chain[c])
        /\ PackRecordFacts(st.record)

\* The stages by their number.
LEMMA StagesInOrder ==
    /\ DOMAIN STAGES = 1 .. 9 /\ Len(STAGES) = 9
    /\ STAGES[1] = "DISCOVERED" /\ STAGES[2] = "SOURCE_VERIFIED" /\ STAGES[3] = "LICENSE_CLEARED"
    /\ STAGES[4] = "LOCKED" /\ STAGES[5] = "BUILT" /\ STAGES[6] = "BYTE_VERIFIED"
    /\ STAGES[7] = "RUNTIME_PROBED" /\ STAGES[8] = "ACTUAL_COMPUTE_PROBED"
    /\ STAGES[9] = "EXPERIMENTAL_ACCEPTED"
BY DEF STAGES

\* A gate that passes has seen its own kind of evidence, and good.
LEMMA GateFacts ==
    ASSUME NEW k \in 2 .. 9, NEW stage, stage = STAGES[k], NEW ev, GateAnswer(stage, ev) = "ok"
    PROVE  /\ ev.kind = stage
           /\ stage # "EXPERIMENTAL_ACCEPTED" => ev.found \in {"good", "allowed"}
<1>1. ev.kind = stage
  BY DEF GateAnswer
<1>2. ASSUME stage # "EXPERIMENTAL_ACCEPTED", stage # "LICENSE_CLEARED", ev.found # "good" PROVE FALSE
  <2>1. GateReason[stage] = "ok"
    BY <1>1, <1>2 DEF GateAnswer
  <2>2. stage \in DOMAIN GateReason
    BY <1>2, StagesInOrder DEF GateReason
  <2> QED BY <2>1, <2>2 DEF GateReason
<1>3. ASSUME stage = "LICENSE_CLEARED" PROVE ev.found = "allowed"
  BY <1>1, <1>3 DEF GateAnswer, LicenseVerdict
<1> QED BY <1>1, <1>2, <1>3

\* A receipt is appended only for the next stage, and its gate passed.
LEMMA AdvanceFacts ==
    ASSUME NEW chain, NEW n \in 0 .. 8, Len(chain) = n, NEW k \in 1 .. 9, NEW ev,
           AdvanceAnswer(chain, STAGES[k], ev) = "ok"
    PROVE  n < 8 /\ STAGES[k] = STAGES[n + 2] /\ GateAnswer(STAGES[k], ev) = "ok"
<1> PICK stage : stage = STAGES[k]
  OBVIOUS
<1> PICK tgt : tgt = StageIndex(stage)
  OBVIOUS
<1>1. tgt \in 1 .. 9 /\ STAGES[tgt] = stage
  <2>1. \E i \in DOMAIN STAGES : STAGES[i] = stage
    BY StagesInOrder
  <2>2. tgt \in DOMAIN STAGES /\ STAGES[tgt] = stage
    BY <2>1, Zenon DEF StageIndex
  <2> QED BY <2>2, StagesInOrder
<1> PICK cur : cur = n + 1
  OBVIOUS
<1>2. AdvanceAnswer(chain, stage, ev) =
        IF tgt = cur THEN IF chain = <<>> THEN "CONTRACT_INVALID" ELSE "same"
        ELSE IF tgt < cur THEN "CONTRACT_INVALID"
        ELSE IF STAGES[cur] = "RUNTIME_PROBED" /\ stage = "EXPERIMENTAL_ACCEPTED"
             THEN "PACK_PROBE_ONLY"
        ELSE IF tgt # cur + 1 THEN "CONTRACT_INVALID"
        ELSE GateAnswer(stage, ev)
  BY Zenon DEF AdvanceAnswer
<1>3. tgt = cur + 1 /\ GateAnswer(stage, ev) = "ok"
  BY <1>2
<1> QED BY <1>1, <1>3

\* A chain with one more receipt.
LEMMA ChainGrows ==
    ASSUME NEW c, NEW chain, ChainFacts(chain), NEW k \in 1 .. 9, NEW ev,
           AdvanceAnswer(chain, STAGES[k], ev) = "ok"
    PROVE  ChainFacts(Append(chain, Receipt(c, chain, STAGES[k], ev)))
<1>1. PICK n \in 0 .. 8 : Len(chain) = n /\ DOMAIN chain = 1 .. n /\ \E V : chain \in Seq(V)
  BY DEF ChainFacts
<1>2. PICK V : chain \in Seq(V)
  BY <1>1
<1>3. n < 8 /\ STAGES[k] = STAGES[n + 2] /\ GateAnswer(STAGES[k], ev) = "ok"
  BY <1>1, AdvanceFacts
<1> PICK r : r = Receipt(c, chain, STAGES[k], ev)
  OBVIOUS
<1>4. r.from = STAGES[n + 1] /\ r.stage = STAGES[k] /\ r.evidence = ev
  BY <1>1 DEF Receipt, CurrentStage
<1>5. StageReceiptFacts(r, n + 1)
  <2>1. n + 1 + 1 = n + 2
    OBVIOUS
  <2>2. /\ ev.kind = STAGES[k]
        /\ STAGES[k] # "EXPERIMENTAL_ACCEPTED" => ev.found \in {"good", "allowed"}
    <3>1. n + 2 \in 2 .. 9
      BY <1>3
    <3> QED BY <1>3, <3>1, GateFacts
  <2> QED BY <1>3, <1>4, <2>1, <2>2 DEF StageReceiptFacts
<1> PICK new : new = Append(chain, r)
  OBVIOUS
<1>6. /\ Len(new) = n + 1 /\ DOMAIN new = 1 .. n + 1 /\ new[n + 1] = r
      /\ \A i \in 1 .. n : new[i] = chain[i]
  BY <1>1, <1>2
<1>7. new \in Seq(V \cup {r})
  <2>1. chain \in Seq(V \cup {r})
    BY <1>2
  <2> QED BY <2>1
<1>8. \A i \in DOMAIN new : StageReceiptFacts(new[i], i)
  <2>1. ASSUME NEW i \in 1 .. n + 1 PROVE StageReceiptFacts(new[i], i)
    <3>1. CASE i \in 1 .. n
      BY <1>1, <1>6, <3>1 DEF ChainFacts
    <3>2. CASE i = n + 1
      BY <1>5, <1>6, <3>2
    <3>3. i \in 1 .. n \/ i = n + 1
      OBVIOUS
    <3> QED BY <3>1, <3>2, <3>3
  <2> QED BY <1>6, <2>1
<1>9. ReceiptsOf(new) = ReceiptsOf(chain) \cup {r}
  <2>1. ASSUME NEW x \in ReceiptsOf(new) PROVE x \in ReceiptsOf(chain) \cup {r}
    <3>1. PICK i \in DOMAIN new : x = new[i]
      BY Zenon DEF ReceiptsOf
    <3>2. CASE i = n + 1
      BY <1>6, <3>1, <3>2
    <3>3. CASE i # n + 1
      <4>1. i \in DOMAIN chain /\ x = chain[i]
        BY <1>1, <1>6, <3>1, <3>3
      <4> QED BY <4>1, Zenon DEF ReceiptsOf
    <3> QED BY <3>2, <3>3
  <2>2. ASSUME NEW x \in ReceiptsOf(chain) PROVE x \in ReceiptsOf(new)
    <3>1. PICK i \in DOMAIN chain : x = chain[i]
      BY Zenon DEF ReceiptsOf
    <3>2. i \in DOMAIN new /\ x = new[i]
      BY <1>1, <1>6, <3>1
    <3> QED BY <3>2, Zenon DEF ReceiptsOf
  <2>3. r \in ReceiptsOf(new)
    <3>1. n + 1 \in DOMAIN new
      BY <1>6
    <3> QED BY <1>6, <3>1, Zenon DEF ReceiptsOf
  <2> QED BY <2>1, <2>2, <2>3
<1>10. r \notin ReceiptsOf(chain)
  <2> SUFFICES ASSUME NEW i \in DOMAIN chain, chain[i] = r PROVE FALSE
    BY Zenon DEF ReceiptsOf
  <2>1. StageReceiptFacts(chain[i], i)
    BY DEF ChainFacts
  <2>2. STAGES[i] = STAGES[n + 1] /\ i \in 1 .. n
    BY <1>1, <1>4, <2>1 DEF StageReceiptFacts
  <2> QED BY <2>2, StagesInOrder
<1>11. IsFiniteSet(ReceiptsOf(new)) /\ Cardinality(ReceiptsOf(new)) = Len(new)
  <2>1. IsFiniteSet(ReceiptsOf(chain)) /\ Cardinality(ReceiptsOf(chain)) = n
    BY <1>1 DEF ChainFacts
  <2>2. IsFiniteSet(ReceiptsOf(chain) \cup {r}) /\ Cardinality(ReceiptsOf(chain) \cup {r}) = n + 1
    BY <1>10, <2>1, FS_AddElement
  <2> QED BY <1>6, <1>9, <2>2
<1>12. \E m \in 0 .. 8 : Len(new) = m /\ DOMAIN new = 1 .. m /\ \E W : new \in Seq(W)
  <2>1. n + 1 \in 0 .. 8
    BY <1>3
  <2> QED BY <1>6, <1>7, <2>1
<1> QED BY <1>8, <1>11, <1>12 DEF ChainFacts

\* Eight receipts of one chain are one of every stage.
LEMMA EightIsAll ==
    ASSUME NEW chain, ChainFacts(chain), Cardinality(ReceiptsOf(chain)) = 8
    PROVE  {x.stage : x \in ReceiptsOf(chain)} = {STAGES[i] : i \in DOMAIN STAGES} \ {"DISCOVERED"}
<1>1. DOMAIN chain = 1 .. 8
  BY DEF ChainFacts
<1>2. ASSUME NEW x \in ReceiptsOf(chain)
      PROVE  x.stage \in {STAGES[i] : i \in DOMAIN STAGES} \ {"DISCOVERED"}
  <2>1. PICK i \in DOMAIN chain : x = chain[i]
    BY Zenon DEF ReceiptsOf
  <2>2. x.stage = STAGES[i + 1]
    BY <2>1 DEF ChainFacts, StageReceiptFacts
  <2>3. i + 1 \in DOMAIN STAGES /\ i + 1 # 1
    BY <1>1, StagesInOrder
  <2>4. STAGES[i + 1] # "DISCOVERED"
    BY <2>3, StagesInOrder
  <2> QED BY <2>2, <2>3, <2>4
<1>3. ASSUME NEW i \in DOMAIN STAGES, STAGES[i] # "DISCOVERED" PROVE \E x \in ReceiptsOf(chain) : x.stage = STAGES[i]
  <2>1. i - 1 \in DOMAIN chain /\ i - 1 + 1 = i
    BY <1>1, <1>3, StagesInOrder
  <2>2. chain[i - 1] \in ReceiptsOf(chain)
    BY <2>1, Zenon DEF ReceiptsOf
  <2>3. chain[i - 1].stage = STAGES[i]
    BY <2>1 DEF ChainFacts, StageReceiptFacts
  <2> QED BY <2>2, <2>3
<1> QED BY <1>2, <1>3

\* Nothing is admitted at first.
LEMMA AdmissionInits ==
    ASSUME subject = "admission",
           st = [chain |-> [c \in Curators |-> <<>>], record |-> NoRecord, revoked |-> {}, answer |-> "none"]
    PROVE  AdmissionInv
<1> PICK chain : chain = [c \in Curators |-> <<>>]
  OBVIOUS
<1>1. st = [chain |-> chain, record |-> NoRecord, revoked |-> {}, answer |-> "none"]
  BY Zenon
<1>2. st.chain = chain /\ st.record = NoRecord /\ st.revoked = {} /\ st.answer = "none"
  BY <1>1
<1>3. NoRecord.status = "none"
  BY DEF NoRecord
<1>4. ChainFacts(<<>>)
  <2>1. Len(<<>>) = 0 /\ DOMAIN <<>> = 1 .. 0 /\ <<>> \in Seq({})
    OBVIOUS
  <2>2. ReceiptsOf(<<>>) = {}
    BY DEF ReceiptsOf
  <2>3. IsFiniteSet({}) /\ Cardinality({}) = 0
    BY FS_EmptySet
  <2>4. 0 \in 0 .. 8 /\ 1 .. 0 = {}
    OBVIOUS
  <2>5. \E n \in 0 .. 8 : Len(<<>>) = n /\ DOMAIN <<>> = 1 .. n /\ \E V : <<>> \in Seq(V)
    BY <2>1, <2>4
  <2> QED BY <2>1, <2>2, <2>3, <2>4, <2>5 DEF ChainFacts
<1>5. DOMAIN chain = Curators /\ \A c \in Curators : chain[c] = <<>>
  OBVIOUS
<1> QED BY <1>1, <1>2, <1>3, <1>4, <1>5 DEF AdmissionInv, AdmissionShape, PackRecordFacts

\* The parts of a state whose chains, record or registry stay.
LEMMA AdmissionKept ==
    ASSUME NEW chain, NEW record, NEW revoked, NEW answer, subject' = "admission",
           st' = [chain |-> chain, record |-> record, revoked |-> revoked, answer |-> answer],
           DOMAIN chain = Curators, \A c \in Curators : ChainFacts(chain[c]), PackRecordFacts(record)
    PROVE  AdmissionInv'
<1>1. st'.chain = chain /\ st'.record = record /\ st'.revoked = revoked /\ st'.answer = answer
  OBVIOUS
<1> QED BY <1>1 DEF AdmissionInv, AdmissionShape

\* A chain grows by what its gate admits.
LEMMA AdvanceStep ==
    ASSUME subject = "admission", AdmissionInv, NEW c \in Curators, NEW k \in 1 .. 9, NEW ev,
           Advance(c, STAGES[k], ev)
    PROVE  subject' = "admission" /\ AdmissionInv'
<1>1. /\ AdmissionShape /\ DOMAIN st.chain = Curators /\ \A x \in Curators : ChainFacts(st.chain[x])
      /\ PackRecordFacts(st.record)
  BY DEF AdmissionInv
<1> PICK answer : answer = AdvanceAnswer(st.chain[c], STAGES[k], ev)
  OBVIOUS
<1> PICK new : new = IF answer = "ok" THEN Append(st.chain[c], Receipt(c, st.chain[c], STAGES[k], ev))
                     ELSE st.chain[c]
  OBVIOUS
<1>2. subject' = "admission" /\ st' = [st EXCEPT !.chain[c] = new, !.answer = answer]
  BY Zenon DEF Advance, Step
<1>3. st' = [chain |-> [st.chain EXCEPT ![c] = new], record |-> st.record, revoked |-> st.revoked,
             answer |-> answer]
  BY <1>1, <1>2 DEF AdmissionShape
<1>4. ChainFacts(new)
  BY <1>1, ChainGrows
<1> PICK chain : chain = [st.chain EXCEPT ![c] = new]
  OBVIOUS
<1>5. DOMAIN chain = Curators /\ \A x \in Curators : ChainFacts(chain[x])
  BY <1>1, <1>4
<1> QED BY <1>1, <1>2, <1>3, <1>5, AdmissionKept

\* The evidence governance is handed.
EvidenceFacts(e) ==
    e = [sbom |-> e.sbom, lock |-> e.lock, deps |-> e.deps, ids |-> e.ids, scan |-> e.scan]

\* The shape of the evidence a curator may present.
LEMMA EvidenceIs == ASSUME NEW e \in GovernanceEvidence PROVE EvidenceFacts(e)
<1>1. \A i, d : Complete(i, d) \in WithFlaws(Complete(i, d))
  BY Zenon DEF WithFlaws
<1>2. PICK i, d : e \in WithFlaws(Complete(i, d))
  <2>0. PICK d : e \in EvidenceFor(d)
    BY DEF GovernanceEvidence
  <2>1. \/ e \in UNION {WithFlaws(Complete(ReceiptsOf(st.chain[c]), d)) : c \in Curators}
        \/ e \in {Complete(i, d) : i \in IdSets}
    BY <2>0, Zenon DEF EvidenceFor
  <2>2. CASE e \in UNION {WithFlaws(Complete(ReceiptsOf(st.chain[c]), d)) : c \in Curators}
    <3>1. PICK c \in Curators : e \in WithFlaws(Complete(ReceiptsOf(st.chain[c]), d))
      BY <2>2
    <3> QED BY <3>1, Zenon
  <2>3. CASE e \in {Complete(i, d) : i \in IdSets}
    <3>1. PICK i \in IdSets : e = Complete(i, d)
      BY <2>3
    <3> QED BY <1>1, <3>1, Zenon
  <2> QED BY <2>1, <2>2, <2>3, Zenon
<1> PICK s : s = {Scan(0, 1)}
  OBVIOUS
<1> PICK b : b = Complete(i, d)
  OBVIOUS
<1>3. b = [sbom |-> TRUE, lock |-> TRUE, deps |-> d, ids |-> i, scan |-> s]
  BY Zenon DEF Complete
<1>6. e \in {b, [b EXCEPT !.sbom = FALSE], [b EXCEPT !.lock = FALSE], [b EXCEPT !.scan = {}],
             [b EXCEPT !.scan = {Scan(1, 0)}], [b EXCEPT !.scan = {Scan(0, 2)}]}
  BY <1>2, Zenon DEF WithFlaws
<1>4. PICK x, y, z : e = [sbom |-> x, lock |-> y, deps |-> d, ids |-> i, scan |-> z]
  BY <1>3, <1>6
<1>5. e.sbom = x /\ e.lock = y /\ e.deps = d /\ e.ids = i /\ e.scan = z
  BY <1>4
<1> QED BY <1>4, <1>5 DEF EvidenceFacts

\* A record is as its evidence says.
LEMMA AssessStep ==
    ASSUME subject = "admission", AdmissionInv, NEW license, NEW e, EvidenceFacts(e), Assess(license, e)
    PROVE  subject' = "admission" /\ AdmissionInv'
<1>1. /\ AdmissionShape /\ DOMAIN st.chain = Curators /\ \A x \in Curators : ChainFacts(st.chain[x])
  BY DEF AdmissionInv
<1> PICK status : status = StatusFor(license, e, st.revoked)
  OBVIOUS
<1> PICK evidence : evidence = [e EXCEPT !.ids = {}]
  OBVIOUS
<1> PICK record : record = [status |-> status, ids |-> e.ids, license |-> license,
                            evidence |-> evidence, revoked |-> st.revoked]
  OBVIOUS
<1>2. subject' = "admission" /\ st' = [st EXCEPT !.record = record, !.answer = "assessed"]
  BY Zenon DEF Assess, Step
<1>3. st' = [chain |-> st.chain, record |-> record, revoked |-> st.revoked, answer |-> "assessed"]
  BY <1>1, <1>2 DEF AdmissionShape
<1>4. /\ record.status = status /\ record.ids = e.ids /\ record.license = license
      /\ record.evidence = evidence /\ record.revoked = st.revoked
  OBVIOUS
<1>5. evidence.sbom = e.sbom /\ evidence.lock = e.lock /\ evidence.deps = e.deps /\ evidence.scan = e.scan
  <2>1. evidence = [sbom |-> e.sbom, lock |-> e.lock, deps |-> e.deps, ids |-> {}, scan |-> e.scan]
    BY DEF EvidenceFacts
  <2> QED BY <2>1
<1>6. status = "ACTIVE" =>
        /\ "pack" \notin st.revoked /\ e.deps \cap st.revoked = {} /\ license = "allowed"
        /\ e.sbom /\ e.lock /\ e.scan # {} /\ (\A s \in e.scan : ScanPassed(s))
        /\ Cardinality(e.ids) = Len(STAGES) - 1
  BY Zenon DEF StatusFor
<1>7. PackRecordFacts(record)
  <2> SUFFICES ASSUME status = "ACTIVE"
               PROVE  /\ Cardinality(e.ids) = Len(STAGES) - 1
                      /\ license = "allowed" /\ evidence.sbom /\ evidence.lock
                      /\ \E s \in evidence.scan : s.critical <= s.maxCritical /\ s.high <= s.maxHigh
                      /\ st.revoked \cap ({"pack"} \cup evidence.deps) = {}
    BY <1>4, Zenon DEF PackRecordFacts
  <2>1. evidence.sbom /\ evidence.lock /\ license = "allowed" /\ Cardinality(e.ids) = Len(STAGES) - 1
    BY <1>5, <1>6, Zenon
  <2>2. \E s \in evidence.scan : s.critical <= s.maxCritical /\ s.high <= s.maxHigh
    BY <1>5, <1>6 DEF ScanPassed
  <2>3. st.revoked \cap ({"pack"} \cup evidence.deps) = {}
    BY <1>5, <1>6
  <2> QED BY <2>1, <2>2, <2>3
<1> QED BY <1>1, <1>2, <1>3, <1>7, AdmissionKept

\* An ACTIVE record rests on eight ids, which are every stage's if one chain has them.
LEMMA ActiveIsVettedHolds == ASSUME AdmissionInv PROVE ActiveIsVetted
<1> SUFFICES ASSUME subject = "admission", st.record.status = "ACTIVE"
             PROVE  /\ Cardinality(st.record.ids) = Len(STAGES) - 1
                    /\ \A c \in Curators : st.record.ids \subseteq ReceiptsOf(st.chain[c]) =>
                           {r.stage : r \in st.record.ids} = {STAGES[i] : i \in DOMAIN STAGES} \ {"DISCOVERED"}
                    /\ st.record.license = "allowed"
                    /\ st.record.evidence.sbom /\ st.record.evidence.lock
                    /\ \E s \in st.record.evidence.scan : s.critical <= s.maxCritical /\ s.high <= s.maxHigh
                    /\ st.record.revoked \cap ({"pack"} \cup st.record.evidence.deps) = {}
  BY Zenon DEF ActiveIsVetted
<1>1. PackRecordFacts(st.record) /\ \A c \in Curators : ChainFacts(st.chain[c])
  BY DEF AdmissionInv
<1>2. Cardinality(st.record.ids) = Len(STAGES) - 1
  BY <1>1, Zenon DEF PackRecordFacts
<1>3. ASSUME NEW c \in Curators, st.record.ids \subseteq ReceiptsOf(st.chain[c])
      PROVE  {r.stage : r \in st.record.ids} = {STAGES[i] : i \in DOMAIN STAGES} \ {"DISCOVERED"}
  <2> PICK R : R = ReceiptsOf(st.chain[c])
    OBVIOUS
  <2>1. ChainFacts(st.chain[c])
    BY <1>1
  <2>2. IsFiniteSet(R) /\ Cardinality(R) \in 0 .. 8
    BY <2>1 DEF ChainFacts
  <2>3. Cardinality(st.record.ids) = 8
    BY <1>2, StagesInOrder
  <2>4. st.record.ids = R /\ Cardinality(R) = 8
    <3>1. Cardinality(st.record.ids) <= Cardinality(R)
      BY <1>3, <2>2, FS_Subset
    <3>2. Cardinality(st.record.ids) = Cardinality(R)
      BY <2>2, <2>3, <3>1
    <3> QED BY <1>3, <2>2, <2>3, <3>2, FS_Subset
  <2> QED BY <2>1, <2>4, EightIsAll
<1> QED BY <1>1, <1>2, <1>3, Zenon DEF PackRecordFacts

\* The other calls leave the chains and the record as they are.
LEMMA AdmissionOtherStep ==
    ASSUME subject = "admission", AdmissionInv,
           GovernanceReceipt \/ (\E x : Revoke(x)) \/ (\E listed : DispatchPack(listed))
    PROVE  subject' = "admission" /\ AdmissionInv'
<1>1. /\ AdmissionShape /\ DOMAIN st.chain = Curators /\ \A x \in Curators : ChainFacts(st.chain[x])
      /\ PackRecordFacts(st.record)
  BY DEF AdmissionInv
<1>2. subject' = "admission"
  BY Zenon DEF GovernanceReceipt, Revoke, DispatchPack, Step
<1>3. PICK r, a : st' = [st EXCEPT !.revoked = r, !.answer = a]
  <2>1. ASSUME NEW a, st' = [st EXCEPT !.answer = a] PROVE st' = [st EXCEPT !.revoked = st.revoked, !.answer = a]
    BY <1>1, <2>1 DEF AdmissionShape
  <2>2. CASE GovernanceReceipt
    BY <2>1, <2>2 DEF GovernanceReceipt, Step
  <2>3. CASE \E x : Revoke(x)
    BY <2>3 DEF Revoke, Step
  <2>4. CASE \E listed : DispatchPack(listed)
    BY <2>1, <2>4 DEF DispatchPack, Step
  <2> QED BY <2>2, <2>3, <2>4
<1>4. st' = [chain |-> st.chain, record |-> st.record, revoked |-> r, answer |-> a]
  BY <1>1, <1>3 DEF AdmissionShape
<1> QED BY <1>1, <1>2, <1>4, AdmissionKept
-----------------------------------------------------------------------------
(***************************************************************************)
(* Packs: archives, staging, first-wave verdicts, builds and claims.       *)
(***************************************************************************)
ArchiveShape ==
    st = [format |-> st.format, members |-> st.members, next |-> st.next, dest |-> st.dest,
          answer |-> st.answer]
EntryFacts(e, next, answer) ==
    /\ e.place \in {"inside", "entry", "linked"} /\ e.type \in {"file", "dir"}
    /\ e.mode = "exec" => (e.type = "dir" \/ e.place = "entry")
    /\ \/ e.nr \in 1 .. next - 1 /\ ~EscapedFile(e)
       \/ e.nr = next /\ EscapedFile(e) /\ answer = "PACK_INTEGRITY_FAILURE"
Suspect(m) ==
    m.mode # "plain" \/ m.type \in {"link", "device"}
    \/ m.place \in {"linked", "escape", "absolute", "empty"}
ArchiveFacts(members, next, dest, answer) ==
    /\ \E n \in Nat : members \in [1 .. n -> Member] /\ next \in 1 .. n + 1
                      /\ (answer = "report" => next = n + 1)
    /\ \A e \in dest : EntryFacts(e, next, answer)
    /\ \A i \in 1 .. next - 1 : \E e \in dest : e.nr = i
    /\ answer = "PACK_INTEGRITY_FAILURE" => Suspect(members[next])
ArchiveInv ==
    subject = "archive" => ArchiveShape /\ ArchiveFacts(st.members, st.next, st.dest, st.answer)

\* What a state of the call holds.
LEMMA ArchiveKept ==
    ASSUME NEW format, NEW members, NEW next, NEW dest, NEW answer, subject' = "archive",
           st' = [format |-> format, members |-> members, next |-> next, dest |-> dest, answer |-> answer],
           ArchiveFacts(members, next, dest, answer)
    PROVE  ArchiveInv'
<1>1. /\ st'.format = format /\ st'.members = members /\ st'.next = next /\ st'.dest = dest
      /\ st'.answer = answer
  OBVIOUS
<1> QED BY <1>1 DEF ArchiveInv, ArchiveShape

\* Nothing is extracted at first.
LEMMA ArchiveInits ==
    ASSUME NEW f, NEW m \in Archive, subject = "archive",
           st = [format |-> f, members |-> m, next |-> 1, dest |-> {}, answer |-> "open"]
    PROVE  ArchiveInv
<1>1. st.format = f /\ st.members = m /\ st.next = 1 /\ st.dest = {} /\ st.answer = "open"
  OBVIOUS
<1>2. PICK n \in Nat : m \in [1 .. n -> Member]
  BY PacksAssumption DEF Archive
<1>3. ArchiveFacts(m, 1, {}, "open")
  <2>1. 1 \in 1 .. n + 1 /\ 1 .. 1 - 1 = {}
    OBVIOUS
  <2> QED BY <1>2, <2>1 DEF ArchiveFacts
<1> QED BY <1>1, <1>3 DEF ArchiveInv, ArchiveShape

\* While the archive is open nothing escaped, whatever the answer will be.
LEMMA EntriesKept ==
    ASSUME NEW x, NEW n \in Nat, EntryFacts(x, n, "open"), NEW m \in Nat, n <= m, NEW answer
    PROVE  EntryFacts(x, m, answer)
<1>1. x.nr \in 1 .. n - 1 /\ ~EscapedFile(x)
  BY DEF EntryFacts
<1>2. x.nr \in 1 .. m - 1
  BY <1>1
<1> QED BY <1>1, <1>2 DEF EntryFacts

\* A member that is written is plain, of its normal mode, and noticed if it escaped.
LEMMA ExtractStep ==
    ASSUME subject = "archive", ArchiveInv, ExtractMember PROVE subject' = "archive" /\ ArchiveInv'
<1>1. /\ ArchiveShape /\ ArchiveFacts(st.members, st.next, st.dest, "open")
      /\ st.answer = "open" /\ st.next <= Len(st.members)
  BY DEF ArchiveInv, ExtractMember
<1>2. PICK n \in Nat : st.members \in [1 .. n -> Member] /\ st.next \in 1 .. n + 1
  BY <1>1 DEF ArchiveFacts
<1>3. st.next \in 1 .. n /\ Len(st.members) = n
  BY <1>1, <1>2
<1> PICK m : m = st.members[st.next]
  OBVIOUS
<1>4. m \in Member
  BY <1>2, <1>3
<1>10. PICK e : e = [place |-> m.place, type |-> m.type, mode |-> NormalMode(m), nr |-> st.next]
  OBVIOUS
<1>5. /\ subject' = "archive"
      /\ st' = IF Rejected(st.format, m) THEN [st EXCEPT !.answer = "PACK_INTEGRITY_FAILURE"]
               ELSE IF EscapedFile(m)
               THEN [st EXCEPT !.dest = @ \cup {e}, !.answer = "PACK_INTEGRITY_FAILURE"]
               ELSE [st EXCEPT !.next = @ + 1, !.dest = @ \cup {e}]
  BY <1>10, Zenon DEF ExtractMember, Step
<1>11. e.place = m.place /\ e.type = m.type /\ e.mode = NormalMode(m) /\ e.nr = st.next
  BY <1>10
<1>12. e.mode = "exec" => (e.type = "dir" \/ e.place = "entry")
  BY <1>11 DEF NormalMode
<1>13. EscapedFile(e) <=> EscapedFile(m)
  BY <1>11 DEF EscapedFile
<1> PICK dest : dest = st.dest \cup {e}
  OBVIOUS
<1>6. CASE Rejected(st.format, m)
  <2>1. Suspect(m)
    BY <1>6 DEF Rejected, TarMemberRejected, ZipMemberRejected, ModeRejected, Suspect
  <2>2. st' = [format |-> st.format, members |-> st.members, next |-> st.next, dest |-> st.dest,
               answer |-> "PACK_INTEGRITY_FAILURE"]
    BY <1>1, <1>5, <1>6 DEF ArchiveShape
  <2>4. \A x \in st.dest : EntryFacts(x, st.next, "PACK_INTEGRITY_FAILURE")
    BY <1>1, <1>3, EntriesKept DEF ArchiveFacts
  <2>3. ArchiveFacts(st.members, st.next, st.dest, "PACK_INTEGRITY_FAILURE")
    BY <1>1, <1>2, <2>1, <2>4 DEF ArchiveFacts
  <2> QED BY <1>5, <2>2, <2>3, ArchiveKept
<1>14. ~Rejected(st.format, m) => m.place \in {"inside", "entry", "linked"} /\ m.type \in {"file", "dir"}
  BY <1>4 DEF Rejected, TarMemberRejected, ZipMemberRejected, Member
<1>8. CASE ~Rejected(st.format, m) /\ EscapedFile(m)
  <2>1. st' = [format |-> st.format, members |-> st.members, next |-> st.next, dest |-> dest,
               answer |-> "PACK_INTEGRITY_FAILURE"]
    BY <1>1, <1>5, <1>8 DEF ArchiveShape
  <2>2. Suspect(m)
    BY <1>8 DEF EscapedFile, Suspect
  <2>3. EntryFacts(e, st.next, "PACK_INTEGRITY_FAILURE")
    BY <1>8, <1>11, <1>12, <1>13, <1>14 DEF EntryFacts
  <2>4. \A x \in st.dest : EntryFacts(x, st.next, "PACK_INTEGRITY_FAILURE")
    BY <1>1, <1>3, EntriesKept DEF ArchiveFacts
  <2>5. \A x \in dest : EntryFacts(x, st.next, "PACK_INTEGRITY_FAILURE")
    BY <2>3, <2>4
  <2>6. \A i \in 1 .. st.next - 1 : \E x \in dest : x.nr = i
    BY <1>1 DEF ArchiveFacts
  <2>7. ArchiveFacts(st.members, st.next, dest, "PACK_INTEGRITY_FAILURE")
    BY <1>2, <2>2, <2>5, <2>6 DEF ArchiveFacts
  <2> QED BY <1>5, <2>1, <2>7, ArchiveKept
<1>7. CASE ~Rejected(st.format, m) /\ ~EscapedFile(m)
  <2> PICK next : next = st.next + 1
    OBVIOUS
  <2>2. st' = [format |-> st.format, members |-> st.members, next |-> next, dest |-> dest,
               answer |-> "open"]
    BY <1>1, <1>5, <1>7 DEF ArchiveShape
  <2>4. EntryFacts(e, next, "open")
    <3>2. e.nr \in 1 .. next - 1
      BY <1>3, <1>11
    <3> QED BY <1>7, <1>11, <1>12, <1>13, <1>14, <3>2 DEF EntryFacts
  <2>9. \A x \in st.dest : EntryFacts(x, next, "open")
    BY <1>1, <1>3, EntriesKept DEF ArchiveFacts
  <2>5. \A x \in dest : EntryFacts(x, next, "open")
    BY <2>4, <2>9
  <2>6. ASSUME NEW i \in 1 .. next - 1 PROVE \E x \in dest : x.nr = i
    <3>1. CASE i = st.next
      BY <1>11, <3>1
    <3>2. CASE i # st.next
      <4>1. i \in 1 .. st.next - 1
        BY <1>3, <3>2
      <4>2. PICK x \in st.dest : x.nr = i
        BY <1>1, <4>1 DEF ArchiveFacts
      <4> QED BY <4>2
    <3> QED BY <3>1, <3>2
  <2>7. next \in 1 .. n + 1
    BY <1>3
  <2>8. ArchiveFacts(st.members, next, dest, "open")
    BY <1>2, <2>5, <2>6, <2>7 DEF ArchiveFacts
  <2> QED BY <1>5, <2>2, <2>8, ArchiveKept
<1> QED BY <1>6, <1>7, <1>8

\* A report is made when every member was written.
LEMMA ReportStep ==
    ASSUME subject = "archive", ArchiveInv, ExtractReport PROVE subject' = "archive" /\ ArchiveInv'
<1>1. /\ ArchiveShape /\ ArchiveFacts(st.members, st.next, st.dest, st.answer)
      /\ st.answer = "open" /\ st.next > Len(st.members)
  BY DEF ArchiveInv, ExtractReport
<1>2. PICK n \in Nat : st.members \in [1 .. n -> Member] /\ st.next \in 1 .. n + 1
  BY <1>1 DEF ArchiveFacts
<1>3. st.next = n + 1
  BY <1>1, <1>2
<1>4. subject' = "archive" /\ st' = [st EXCEPT !.answer = "report"]
  BY Zenon DEF ExtractReport, Step
<1>5. st' = [format |-> st.format, members |-> st.members, next |-> st.next, dest |-> st.dest,
             answer |-> "report"]
  BY <1>1, <1>4 DEF ArchiveShape
<1>7. \A x \in st.dest : EntryFacts(x, st.next, "report")
  BY <1>1, <1>3, EntriesKept DEF ArchiveFacts
<1>6. ArchiveFacts(st.members, st.next, st.dest, "report")
  BY <1>1, <1>2, <1>3, <1>7 DEF ArchiveFacts
<1> QED BY <1>4, <1>5, <1>6, ArchiveKept

\* What the invariant says of an extraction.
LEMMA ArchiveInvHolds == ASSUME ArchiveInv PROVE ExtractionSound
<1> SUFFICES ASSUME subject = "archive"
             PROVE  /\ \A e \in st.dest :
                           /\ e.place \in {"inside", "entry", "linked"} /\ e.type \in {"file", "dir"}
                           /\ e.mode = "exec" => (e.type = "dir" \/ e.place = "entry")
                           /\ EscapedFile(e) \/ e.nr = st.next =>
                                  EscapedFile(e) /\ e.nr = st.next /\ st.answer = "PACK_INTEGRITY_FAILURE"
                    /\ {e.nr : e \in st.dest} \ {st.next} = 1 .. (st.next - 1)
                    /\ st.answer = "report" => st.next = Len(st.members) + 1
                    /\ st.answer = "PACK_INTEGRITY_FAILURE" => Suspect(st.members[st.next])
  BY Zenon DEF ExtractionSound, Suspect
<1>1. ArchiveFacts(st.members, st.next, st.dest, st.answer)
  BY DEF ArchiveInv
<1>2. PICK n \in Nat : /\ st.members \in [1 .. n -> Member] /\ st.next \in 1 .. n + 1
                       /\ (st.answer = "report" => st.next = n + 1)
  BY <1>1 DEF ArchiveFacts
<1>3. st.answer = "report" => st.next = Len(st.members) + 1
  BY <1>2
<1>4. {e.nr : e \in st.dest} \ {st.next} = 1 .. (st.next - 1)
  <2>1. \A e \in st.dest : e.nr # st.next => e.nr \in 1 .. st.next - 1
    BY <1>1 DEF ArchiveFacts, EntryFacts
  <2>2. \A i \in 1 .. st.next - 1 : i # st.next /\ \E e \in st.dest : e.nr = i
    BY <1>1, <1>2 DEF ArchiveFacts
  <2> QED BY <2>1, <2>2
<1>5. ASSUME NEW e \in st.dest
      PROVE  /\ e.place \in {"inside", "entry", "linked"} /\ e.type \in {"file", "dir"}
             /\ e.mode = "exec" => (e.type = "dir" \/ e.place = "entry")
             /\ EscapedFile(e) \/ e.nr = st.next =>
                    EscapedFile(e) /\ e.nr = st.next /\ st.answer = "PACK_INTEGRITY_FAILURE"
  <2>1. EntryFacts(e, st.next, st.answer)
    BY <1>1 DEF ArchiveFacts
  <2>2. ~(st.next \in 1 .. st.next - 1)
    BY <1>2
  <2> QED BY <2>1, <2>2 DEF EntryFacts
<1> QED BY <1>1, <1>3, <1>4, <1>5 DEF ArchiveFacts

StagingShape ==
    st = [root |-> st.root, manifest |-> st.manifest, immutable |-> st.immutable,
          staged |-> st.staged, step |-> st.step, drifts |-> st.drifts]
StagingFacts(manifest, immutable, staged, step) ==
    /\ step \in {"copy", "verify", "receipt"} => ~immutable
    /\ step \in {"verify", "receipt"} => staged.linked = {}
    /\ step = "receipt" => staged.regular = manifest
StagingInv ==
    subject = "staging" => StagingShape /\ StagingFacts(st.manifest, st.immutable, st.staged, st.step)

\* Nothing is staged at first.
LEMMA StagingInits ==
    ASSUME NEW t, NEW s, NEW h, NEW i, subject = "staging",
           st = [root |-> t, manifest |-> h, immutable |-> i, staged |-> s, step |-> "check", drifts |-> 0]
    PROVE  StagingInv
<1>1. st.root = t /\ st.manifest = h /\ st.immutable = i /\ st.staged = s /\ st.step = "check" /\ st.drifts = 0
  OBVIOUS
<1> QED BY <1>1 DEF StagingInv, StagingShape, StagingFacts

\* The copy is hashed again, whatever became of the root.
LEMMA StagingStep ==
    ASSUME subject = "staging", StagingInv, CheckRoot \/ CopyTree \/ VerifyCopy \/ \E t : Drift(t)
    PROVE  subject' = "staging" /\ StagingInv'
<1>1. StagingShape /\ StagingFacts(st.manifest, st.immutable, st.staged, st.step)
  BY DEF StagingInv
<1>2. ASSUME NEW root, NEW staged, NEW step, NEW drifts, subject' = "staging",
             st' = [root |-> root, manifest |-> st.manifest, immutable |-> st.immutable,
                    staged |-> staged, step |-> step, drifts |-> drifts],
             StagingFacts(st.manifest, st.immutable, staged, step)
      PROVE  StagingInv'
  <2>1. /\ st'.root = root /\ st'.manifest = st.manifest /\ st'.immutable = st.immutable
        /\ st'.staged = staged /\ st'.step = step /\ st'.drifts = drifts
    BY <1>2
  <2> QED BY <1>2, <2>1 DEF StagingInv, StagingShape
<1>3. CASE CheckRoot
  <2> PICK step : step = IF st.immutable \/ TreeHash(st.root) # st.manifest THEN "failed" ELSE "copy"
    OBVIOUS
  <2>1. subject' = "staging" /\ st' = [st EXCEPT !.step = step]
    BY <1>3, Zenon DEF CheckRoot, Step
  <2>2. st' = [root |-> st.root, manifest |-> st.manifest, immutable |-> st.immutable,
               staged |-> st.staged, step |-> step, drifts |-> st.drifts]
    BY <1>1, <2>1 DEF StagingShape
  <2>3. step = "copy" => ~st.immutable
    BY Zenon
  <2>4. step = "copy" \/ step = "failed"
    BY Zenon
  <2>5. StagingFacts(st.manifest, st.immutable, st.staged, step)
    BY <2>3, <2>4 DEF StagingFacts
  <2> QED BY <1>2, <2>1, <2>2, <2>5
<1>4. CASE CopyTree
  <2> PICK staged : staged = CopyOf(st.root)
    OBVIOUS
  <2>1. subject' = "staging" /\ st.step = "copy" /\ st' = [st EXCEPT !.step = "verify", !.staged = staged]
    BY <1>4, Zenon DEF CopyTree, Step
  <2>2. st' = [root |-> st.root, manifest |-> st.manifest, immutable |-> st.immutable,
               staged |-> staged, step |-> "verify", drifts |-> st.drifts]
    BY <1>1, <2>1 DEF StagingShape
  <2>3. staged.linked = {}
    BY DEF CopyOf
  <2>4. StagingFacts(st.manifest, st.immutable, staged, "verify")
    BY <1>1, <2>1, <2>3 DEF StagingFacts
  <2> QED BY <1>2, <2>1, <2>2, <2>4
<1>5. CASE VerifyCopy
  <2> PICK step : step = IF TreeHash(st.staged) = st.manifest THEN "receipt" ELSE "failed"
    OBVIOUS
  <2>1. subject' = "staging" /\ st.step = "verify" /\ st' = [st EXCEPT !.step = step]
    BY <1>5, Zenon DEF VerifyCopy, Step
  <2>2. st' = [root |-> st.root, manifest |-> st.manifest, immutable |-> st.immutable,
               staged |-> st.staged, step |-> step, drifts |-> st.drifts]
    BY <1>1, <2>1 DEF StagingShape
  <2>3. StagingFacts(st.manifest, st.immutable, st.staged, step)
    BY <1>1, <2>1 DEF StagingFacts, TreeHash
  <2> QED BY <1>2, <2>1, <2>2, <2>3
<1>6. ASSUME NEW t, Drift(t) PROVE subject' = "staging" /\ StagingInv'
  <2> PICK k : k = st.drifts + 1
    OBVIOUS
  <2>1. subject' = "staging" /\ st' = [st EXCEPT !.root = t, !.drifts = k]
    BY <1>6, Zenon DEF Drift, Step
  <2>2. st' = [root |-> t, manifest |-> st.manifest, immutable |-> st.immutable,
               staged |-> st.staged, step |-> st.step, drifts |-> k]
    BY <1>1, <2>1 DEF StagingShape
  <2> QED BY <1>1, <1>2, <2>1, <2>2
<1> QED BY <1>3, <1>4, <1>5, <1>6

P1Inv ==
    subject = "p1" =>
        /\ st = [evidence |-> st.evidence, required |-> st.required, verdict |-> st.verdict]
        /\ st.verdict # "none" => st.verdict = P1Verdict(st.evidence, st.required)

\* The verdict is the strictest that anything missing forces.
LEMMA P1VerdictIs ==
    ASSUME NEW evidence, NEW required
    PROVE  LET missing == required \ evidence
               v == P1Verdict(evidence, required)
           IN  /\ missing = {} => v = "ADMIT_TO_PIPELINE"
               /\ missing # {} => \E r \in missing : v = RequirementVerdict(r)
               /\ \A r \in missing : VerdictRank[v] >= VerdictRank[RequirementVerdict(r)]
<1> DEFINE missing == required \ evidence
           Forced == {RequirementVerdict(r) : r \in missing}
<1>1. CASE missing = {}
  BY <1>1 DEF P1Verdict
<1>2. CASE missing # {}
  <2>1. PICK v : v = CHOOSE x \in Forced : \A w \in Forced : VerdictRank[x] >= VerdictRank[w]
    OBVIOUS
  <2>2. P1Verdict(evidence, required) = v
    BY <1>2, <2>1, Zenon DEF P1Verdict
  <2>3. \A x \in Forced : x \in {"WAIT_LICENSE", "WAIT_RESOURCE", "REJECT_CONTRACT", "WAIT_CAPABILITY"}
    BY DEF RequirementVerdict
  <2>4. /\ VerdictRank["WAIT_RESOURCE"] = 1 /\ VerdictRank["WAIT_CAPABILITY"] = 2
        /\ VerdictRank["WAIT_LICENSE"] = 3 /\ VerdictRank["REJECT_CONTRACT"] = 4
    BY DEF VerdictRank
  <2>5. Forced # {}
    BY <1>2
  <2> HIDE DEF Forced
  <2>6. \E x \in Forced : \A w \in Forced : VerdictRank[x] >= VerdictRank[w]
    <3>1. CASE "REJECT_CONTRACT" \in Forced
      BY <2>3, <2>4, <3>1
    <3>2. CASE "REJECT_CONTRACT" \notin Forced /\ "WAIT_LICENSE" \in Forced
      BY <2>3, <2>4, <3>2
    <3>3. CASE "REJECT_CONTRACT" \notin Forced /\ "WAIT_LICENSE" \notin Forced /\ "WAIT_CAPABILITY" \in Forced
      BY <2>3, <2>4, <3>3
    <3>4. CASE "REJECT_CONTRACT" \notin Forced /\ "WAIT_LICENSE" \notin Forced /\ "WAIT_CAPABILITY" \notin Forced
      BY <2>3, <2>4, <2>5, <3>4
    <3> QED BY <3>1, <3>2, <3>3, <3>4
  <2>7. v \in Forced /\ \A w \in Forced : VerdictRank[v] >= VerdictRank[w]
    BY <2>1, <2>6, Zenon
  <2>8. \A r \in missing : VerdictRank[v] >= VerdictRank[RequirementVerdict(r)]
    BY <2>7 DEF Forced
  <2>9. \E r \in missing : v = RequirementVerdict(r)
    BY <2>7 DEF Forced
  <2> QED BY <1>2, <2>2, <2>8, <2>9
<1> QED BY <1>1, <1>2

\* A requirement of the policy is judged by one of four verdicts.
LEMMA RequirementRank ==
    ASSUME NEW r
    PROVE  VerdictRank[RequirementVerdict(r)] \in 1 .. 4 /\ RequirementVerdict(r) # "ADMIT_TO_PIPELINE"
BY DEF RequirementVerdict, VerdictRank

\* More evidence never earns a stricter verdict.
LEMMA P1InvHolds == ASSUME P1Inv PROVE P1Monotone
<1> SUFFICES ASSUME subject = "p1", st.verdict # "none"
             PROVE  /\ st.verdict = "ADMIT_TO_PIPELINE" <=> st.required \subseteq st.evidence
                    /\ \A r \in P1_REQUIREMENTS :
                          VerdictRank[P1Verdict(st.evidence \cup {r}, st.required)] <= VerdictRank[st.verdict]
  BY Zenon DEF P1Monotone
<1>1. st.verdict = P1Verdict(st.evidence, st.required)
  BY DEF P1Inv
<1> PICK v : v = st.verdict
  OBVIOUS
<1>2. /\ st.required \ st.evidence = {} => v = "ADMIT_TO_PIPELINE"
      /\ st.required \ st.evidence # {} => \E r \in st.required \ st.evidence : v = RequirementVerdict(r)
      /\ \A r \in st.required \ st.evidence : VerdictRank[v] >= VerdictRank[RequirementVerdict(r)]
  BY <1>1, P1VerdictIs
<1>3. st.verdict = "ADMIT_TO_PIPELINE" <=> st.required \subseteq st.evidence
  BY <1>2, RequirementRank
<1>4. VerdictRank["ADMIT_TO_PIPELINE"] = 0
  BY DEF VerdictRank
<1>5. VerdictRank[v] \in 0 .. 4
  BY <1>2, <1>4, RequirementRank
<1>6. ASSUME NEW r PROVE VerdictRank[P1Verdict(st.evidence \cup {r}, st.required)] <= VerdictRank[v]
  <2> PICK more : more = st.evidence \cup {r}
    OBVIOUS
  <2> PICK w : w = P1Verdict(more, st.required)
    OBVIOUS
  <2>1. /\ st.required \ more = {} => w = "ADMIT_TO_PIPELINE"
        /\ st.required \ more # {} => \E q \in st.required \ more : w = RequirementVerdict(q)
    BY P1VerdictIs
  <2>2. CASE st.required \ more = {}
    BY <1>4, <1>5, <2>1, <2>2
  <2>3. CASE st.required \ more # {}
    <3>1. PICK q \in st.required \ more : w = RequirementVerdict(q)
      BY <2>1, <2>3
    <3>2. q \in st.required \ st.evidence
      OBVIOUS
    <3>3. VerdictRank[v] >= VerdictRank[w]
      BY <1>2, <3>1, <3>2
    <3>4. VerdictRank[w] \in 1 .. 4
      BY <3>1, RequirementRank
    <3> QED BY <1>5, <3>3, <3>4
  <2> QED BY <2>2, <2>3
<1> QED BY <1>3, <1>6

\* The verdict is of the evidence brought.
LEMMA P1Step == ASSUME subject = "p1", P1Inv, EvaluateP1 PROVE subject' = "p1" /\ P1Inv'
<1>1. st = [evidence |-> st.evidence, required |-> st.required, verdict |-> st.verdict]
  BY DEF P1Inv
<1> PICK v : v = P1Verdict(st.evidence, st.required)
  OBVIOUS
<1>2. subject' = "p1" /\ st' = [st EXCEPT !.verdict = v]
  BY Zenon DEF EvaluateP1, Step
<1>3. st' = [evidence |-> st.evidence, required |-> st.required, verdict |-> v]
  BY <1>1, <1>2
<1>4. st'.evidence = st.evidence /\ st'.required = st.required /\ st'.verdict = v
  BY <1>3
<1> QED BY <1>1, <1>2, <1>3, <1>4 DEF P1Inv
-----------------------------------------------------------------------------
(***************************************************************************)
(* Packs: the walk of an environment's dependency graph.  What a frame has *)
(* seen of its children is visited, or is the frame above it; a child that *)
(* is found on the stack closes a cycle of the frames above it.            *)
(***************************************************************************)
EnvironmentShape ==
    st = [graph |-> st.graph, stack |-> st.stack, visited |-> st.visited, ordered |-> st.ordered,
          answer |-> st.answer, fault |-> st.fault]
Frames == [dep : DepIds, todo : SUBSET (DepIds \cup {0})]
SeenOf(graph, f) == graph[f.dep] \ f.todo
StackFacts(graph, stack, visited) ==
    /\ graph \in [DepIds -> SUBSET (DepIds \cup {0})] /\ stack \in Seq(Frames)
    /\ \A k \in 1 .. Len(stack) : stack[k].dep \notin visited /\ stack[k].todo \subseteq graph[stack[k].dep]
    /\ \A k, l \in 1 .. Len(stack) : stack[k].dep = stack[l].dep => k = l
    /\ \A k \in 1 .. Len(stack) - 1 :
          /\ stack[k + 1].dep \in graph[stack[k].dep]
          /\ SeenOf(graph, stack[k]) \subseteq visited \cup {stack[k + 1].dep}
    /\ Len(stack) > 0 => SeenOf(graph, stack[Len(stack)]) \subseteq visited
WalkFacts(graph, visited, ordered) ==
    /\ ordered \in Seq(DepIds) /\ visited = Placed(ordered) /\ Cardinality(visited) = Len(ordered)
    /\ \A i \in 1 .. Len(ordered) : \A d \in graph[ordered[i]] : \E j \in 1 .. i - 1 : ordered[j] = d
EnvironmentFacts(graph, stack, visited, ordered, answer, fault) ==
    /\ StackFacts(graph, stack, visited) /\ WalkFacts(graph, visited, ordered)
    /\ answer = "dependency_dag_invalid" => BadGraph(graph)
    /\ answer \notin {"open", "dependency_dag_invalid"} => visited = DepIds
    /\ answer = "ACTIVE" => ~fault
EnvironmentInv ==
    subject = "environment" =>
        /\ EnvironmentShape
        /\ EnvironmentFacts(st.graph, st.stack, st.visited, st.ordered, st.answer, st.fault)

\* What a state of the walk holds.
LEMMA EnvironmentKept ==
    ASSUME NEW graph, NEW stack, NEW visited, NEW ordered, NEW answer, NEW fault, subject' = "environment",
           st' = [graph |-> graph, stack |-> stack, visited |-> visited, ordered |-> ordered,
                  answer |-> answer, fault |-> fault],
           EnvironmentFacts(graph, stack, visited, ordered, answer, fault)
    PROVE  EnvironmentInv'
<1>1. /\ st'.graph = graph /\ st'.stack = stack /\ st'.visited = visited /\ st'.ordered = ordered
      /\ st'.answer = answer /\ st'.fault = fault
  OBVIOUS
<1> QED BY <1>1 DEF EnvironmentInv, EnvironmentShape

\* A frame is its dependency and what is left of its children.
LEMMA FrameHolds ==
    ASSUME NEW f \in Frames
    PROVE  f = [dep |-> f.dep, todo |-> f.todo] /\ f.dep \in DepIds /\ f.todo \in SUBSET (DepIds \cup {0})
BY DEF Frames

\* Every place of a stack holds a frame, and one can be replaced by another.
LEMMA StackHolds ==
    ASSUME NEW stack \in Seq(Frames), NEW k \in 1 .. Len(stack) PROVE stack[k] \in Frames
OBVIOUS

TopReplaced(stack, f) == [stack EXCEPT ![Len(stack)] = f]

\* Replacing the frame on top leaves the stack's length and the frames below it.
LEMMA TopReplacedIs ==
    ASSUME NEW stack, stack \in Seq(Frames), Len(stack) > 0, NEW f, f \in Frames
    PROVE  /\ TopReplaced(stack, f) \in Seq(Frames) /\ Len(TopReplaced(stack, f)) = Len(stack)
           /\ TopReplaced(stack, f)[Len(stack)] = f
           /\ \A k \in 1 .. Len(stack) : k # Len(stack) => TopReplaced(stack, f)[k] = stack[k]
<1>1. Len(stack) \in 1 .. Len(stack)
  OBVIOUS
<1> QED BY <1>1, ExceptSeq DEF TopReplaced

\* A frame with one child less to look at.
Lessened(f, child) == [dep |-> f.dep, todo |-> f.todo \ {child}]

\* Crossing a child off a frame leaves a frame of the same dependency.
LEMMA LessenedIs ==
    ASSUME NEW f, f \in Frames, NEW child
    PROVE  /\ Lessened(f, child) \in Frames /\ Lessened(f, child).dep = f.dep
           /\ Lessened(f, child).todo = f.todo \ {child}
<1>1. Lessened(f, child).dep = f.dep /\ Lessened(f, child).todo = f.todo \ {child}
  BY DEF Lessened
<1>2. f.dep \in DepIds /\ f.todo \in SUBSET (DepIds \cup {0})
  BY FrameHolds
<1>3. Lessened(f, child) \in Frames
  BY <1>2 DEF Lessened, Frames
<1> QED BY <1>1, <1>3

\* The same, in the form the action writes it.
LEMMA LessenedByExcept ==
    ASSUME NEW f, f \in Frames, NEW child PROVE [f EXCEPT !.todo = @ \ {child}] = Lessened(f, child)
BY DEF Lessened, Frames

\* It takes the place of the top of the stack.
LEMMA LessenedInState ==
    ASSUME st.stack \in Seq(Frames), Len(st.stack) > 0, NEW child
    PROVE  [st EXCEPT !.stack[Len(st.stack)].todo = @ \ {child}]
             = [st EXCEPT !.stack = TopReplaced(st.stack, Lessened(st.stack[Len(st.stack)], child))]
<1>1. Len(st.stack) \in 1 .. Len(st.stack)
  OBVIOUS
<1>2. st.stack[Len(st.stack)] \in Frames
  BY <1>1, StackHolds
<1>3. [st.stack[Len(st.stack)] EXCEPT !.todo = @ \ {child}] = Lessened(st.stack[Len(st.stack)], child)
  BY <1>2, LessenedByExcept, Zenon
<1> QED BY <1>3, Zenon DEF TopReplaced

LessenedFacts(stack, child, new) ==
    /\ new \in Seq(Frames) /\ Len(new) = Len(stack)
    /\ new[Len(stack)] = Lessened(stack[Len(stack)], child)
    /\ \A k \in 1 .. Len(stack) : k # Len(stack) => new[k] = stack[k]
\* What is left to visit once the frame on top has a child crossed off.
LEMMA LessenedStack ==
    ASSUME NEW stack, stack \in Seq(Frames), Len(stack) > 0, NEW child
    PROVE  LessenedFacts(stack, child, TopReplaced(stack, Lessened(stack[Len(stack)], child)))
<1>1. Len(stack) \in 1 .. Len(stack)
  OBVIOUS
<1> PICK f : f = Lessened(stack[Len(stack)], child)
  OBVIOUS
<1>2. stack[Len(stack)] \in Frames
  BY <1>1, StackHolds
<1>3. f \in Frames
  BY <1>2, LessenedIs
<1>4. /\ TopReplaced(stack, f) \in Seq(Frames) /\ Len(TopReplaced(stack, f)) = Len(stack)
      /\ TopReplaced(stack, f)[Len(stack)] = f
      /\ \A k \in 1 .. Len(stack) : k # Len(stack) => TopReplaced(stack, f)[k] = stack[k]
  BY <1>3, TopReplacedIs, Zenon
<1> QED BY <1>4 DEF LessenedFacts

\* The least member of a set of dependencies is one of them.
LEMMA LeastIs == ASSUME NEW S \in SUBSET Nat, S # {} PROVE Least(S) \in S
<1>1. \E k \in S : \A j \in S : k <= j
  BY LeastOfNat
<1> QED BY <1>1, Zenon DEF Least

\* Nothing is visited at first.
LEMMA EnvironmentInits ==
    ASSUME NEW g \in [DepIds -> SUBSET (DepIds \cup {0})], subject = "environment",
           st = [graph |-> g, stack |-> <<>>, visited |-> {}, ordered |-> <<>>, answer |-> "open", fault |-> FALSE]
    PROVE  EnvironmentInv
<1>1. /\ st.graph = g /\ st.stack = <<>> /\ st.visited = {} /\ st.ordered = <<>> /\ st.answer = "open"
      /\ st.fault = FALSE
  OBVIOUS
<1>2. Len(<<>>) = 0 /\ 1 .. 0 = {} /\ 1 .. 0 - 1 = {} /\ <<>> \in Seq(Frames) /\ <<>> \in Seq(DepIds)
  OBVIOUS
<1>3. Placed(<<>>) = {}
  BY DEF Placed
<1>4. Cardinality({}) = 0
  BY FS_EmptySet
<1>5. StackFacts(g, <<>>, {})
  BY <1>2 DEF StackFacts
<1>6. WalkFacts(g, {}, <<>>)
  BY <1>2, <1>3, <1>4 DEF WalkFacts
<1>7. EnvironmentFacts(g, <<>>, {}, <<>>, "open", FALSE)
  BY <1>5, <1>6 DEF EnvironmentFacts
<1> QED BY <1>1, <1>7 DEF EnvironmentInv, EnvironmentShape

\* A frame of its own for a dependency: it has seen none of its children.
LEMMA FrameIs ==
    ASSUME NEW d \in DepIds, st.graph \in [DepIds -> SUBSET (DepIds \cup {0})]
    PROVE  Frame(d) \in Frames /\ Frame(d).dep = d /\ Frame(d).todo = st.graph[d] /\ SeenOf(st.graph, Frame(d)) = {}
<1>1. Frame(d).dep = d /\ Frame(d).todo = st.graph[d]
  BY DEF Frame
<1>2. Frame(d) \in Frames
  BY DEF Frame, Frames
<1> QED BY <1>1, <1>2 DEF SeenOf

\* A new walk begins at a dependency not yet seen, or all are ordered.
LEMMA VisitRootStep ==
    ASSUME subject = "environment", EnvironmentInv, VisitRoot PROVE subject' = "environment" /\ EnvironmentInv'
<1>1. /\ EnvironmentShape /\ st.answer = "open" /\ st.stack = <<>>
      /\ EnvironmentFacts(st.graph, st.stack, st.visited, st.ordered, st.answer, st.fault)
  BY DEF EnvironmentInv, VisitRoot
<1> PICK left : left = DepIds \ st.visited
  OBVIOUS
<1>2. /\ subject' = "environment"
      /\ st' = IF left = {} THEN [st EXCEPT !.answer = "ordered"]
               ELSE [st EXCEPT !.stack = <<Frame(Least(left))>>]
  BY Zenon DEF VisitRoot, Step
<1>3. st.visited \subseteq DepIds
  <2>1. ASSUME NEW x \in st.visited PROVE x \in DepIds
    <3>1. st.ordered \in Seq(DepIds) /\ st.visited = Placed(st.ordered)
      BY <1>1 DEF EnvironmentFacts, WalkFacts
    <3>2. PICK i \in 1 .. Len(st.ordered) : x = st.ordered[i]
      BY <3>1, Zenon DEF Placed
    <3> QED BY <3>1, <3>2
  <2> QED BY <2>1
<1>4. CASE left = {}
  <2>1. st' = [graph |-> st.graph, stack |-> st.stack, visited |-> st.visited, ordered |-> st.ordered,
               answer |-> "ordered", fault |-> st.fault]
    BY <1>1, <1>2, <1>4 DEF EnvironmentShape
  <2>2. EnvironmentFacts(st.graph, st.stack, st.visited, st.ordered, "ordered", st.fault)
    BY <1>1, <1>3, <1>4 DEF EnvironmentFacts
  <2> QED BY <1>2, <2>1, <2>2, EnvironmentKept
<1>5. CASE left # {}
  <2> PICK d : d = Least(left)
    OBVIOUS
  <2>1. d \in left
    <3>1. left \in SUBSET Nat
      BY PacksAssumption
    <3> QED BY <1>5, <3>1, LeastIs
  <2> PICK f : f = Frame(d)
    OBVIOUS
  <2> PICK stack : stack = <<f>>
    OBVIOUS
  <2>2. st' = [graph |-> st.graph, stack |-> stack, visited |-> st.visited, ordered |-> st.ordered,
               answer |-> st.answer, fault |-> st.fault]
    BY <1>1, <1>2, <1>5 DEF EnvironmentShape
  <2>3. st.graph \in [DepIds -> SUBSET (DepIds \cup {0})]
    BY <1>1 DEF EnvironmentFacts, StackFacts
  <2>4. f \in Frames /\ f.dep = d /\ f.todo = st.graph[d] /\ SeenOf(st.graph, f) = {}
    BY <2>1, <2>3, FrameIs
  <2>5. StackFacts(st.graph, stack, st.visited)
    <3>1. Len(stack) = 1 /\ stack[1] = f /\ stack \in Seq(Frames) /\ 1 .. 1 - 1 = {} /\ 1 .. 1 = {1}
      BY <2>4
    <3> QED BY <2>1, <2>3, <2>4, <3>1 DEF StackFacts
  <2>6. EnvironmentFacts(st.graph, stack, st.visited, st.ordered, st.answer, st.fault)
    BY <1>1, <2>5 DEF EnvironmentFacts
  <2> QED BY <1>2, <2>2, <2>6, EnvironmentKept
<1> QED BY <1>4, <1>5

\* The frames from the one that holds a child up to the top, which depends on it,
\* are a cycle.
LEMMA StackCycle ==
    ASSUME NEW graph, NEW stack, NEW visited, StackFacts(graph, stack, visited), NEW i \in 1 .. Len(stack),
           stack[i].dep \in graph[stack[Len(stack)].dep]
    PROVE  BadGraph(graph)
<1> PICK n : n = Len(stack)
  OBVIOUS
<1>1. n \in Nat /\ stack \in Seq(Frames)
  BY DEF StackFacts
<1> PICK S : S = {stack[k].dep : k \in i .. n}
  OBVIOUS
<1>2. \A k \in 1 .. n : stack[k].dep \in DepIds
  BY <1>1, StackHolds, FrameHolds
<1>3. S \in SUBSET DepIds
  BY <1>1, <1>2
<1>4. stack[i].dep \in S
  BY <1>1
<1>5. ASSUME NEW d \in S PROVE graph[d] \cap S # {}
  <2>1. PICK k \in i .. n : d = stack[k].dep
    OBVIOUS
  <2>2. CASE k = n
    BY <1>4, <2>1, <2>2
  <2>3. CASE k # n
    <3>1. k \in 1 .. n - 1 /\ k + 1 \in i .. n
      BY <1>1, <2>3
    <3>2. stack[k + 1].dep \in graph[stack[k].dep]
      BY <3>1 DEF StackFacts
    <3>3. stack[k + 1].dep \in S
      BY <3>1
    <3> QED BY <2>1, <3>2, <3>3
  <2> QED BY <2>2, <2>3
<1>6. S # {}
  BY <1>4
<1> QED BY <1>3, <1>5, <1>6 DEF BadGraph

\* The top of the stack with one child less to look at.
LEMMA PoppedFacts ==
    ASSUME NEW graph, NEW stack, NEW visited, StackFacts(graph, stack, visited), stack # <<>>,
           NEW child \in visited, NEW new,
           new = TopReplaced(stack, Lessened(stack[Len(stack)], child))
    PROVE  StackFacts(graph, new, visited)
<1> PICK n : n = Len(stack)
  OBVIOUS
<1>1. n \in Nat /\ n > 0 /\ stack \in Seq(Frames)
  BY DEF StackFacts
<1> PICK top : top = stack[n]
  OBVIOUS
<1> PICK f : f = Lessened(top, child)
  OBVIOUS
<1>2. top \in Frames /\ f \in Frames /\ f.dep = top.dep /\ f.todo = top.todo \ {child}
  <2>1. n \in 1 .. n
    BY <1>1
  <2>2. top \in Frames
    BY <1>1, <2>1, StackHolds
  <2> QED BY <2>2, LessenedIs
<1>3. /\ new \in Seq(Frames) /\ Len(new) = n /\ new[n] = f
      /\ \A k \in 1 .. n : k # n => new[k] = stack[k]
  <2>1. LessenedFacts(stack, child, new)
    BY <1>1, LessenedStack
  <2> QED BY <2>1 DEF LessenedFacts
<1>4. \A k \in 1 .. n : new[k].dep = stack[k].dep
  BY <1>2, <1>3
<1>5. \A k \in 1 .. n : new[k].dep \notin visited /\ new[k].todo \subseteq graph[new[k].dep]
  BY <1>2, <1>3, <1>4 DEF StackFacts
<1>6. SeenOf(graph, f) \subseteq visited
  <2>1. SeenOf(graph, top) \subseteq visited
    BY <1>1 DEF StackFacts
  <2> QED BY <1>2, <2>1 DEF SeenOf
<1>7. ASSUME NEW k \in 1 .. n - 1
      PROVE  /\ new[k + 1].dep \in graph[new[k].dep]
             /\ SeenOf(graph, new[k]) \subseteq visited \cup {new[k + 1].dep}
  <2>1. k \in 1 .. n /\ k # n /\ k + 1 \in 1 .. n
    BY <1>1
  <2> QED BY <1>3, <1>4, <2>1 DEF StackFacts
<1>8. \A k, l \in 1 .. n : new[k].dep = new[l].dep => k = l
  BY <1>4 DEF StackFacts
<1>9. graph \in [DepIds -> SUBSET (DepIds \cup {0})]
  BY DEF StackFacts
<1> QED BY <1>3, <1>5, <1>6, <1>7, <1>8, <1>9 DEF StackFacts

\* A child gets a frame of its own above the frame that has now seen it.
LEMMA PushedFacts ==
    ASSUME NEW graph, NEW stack, NEW visited, StackFacts(graph, stack, visited), stack # <<>>,
           NEW child \in stack[Len(stack)].todo, child \in DepIds, child \notin visited,
           \A k \in 1 .. Len(stack) : stack[k].dep # child, NEW f \in Frames, f.dep = child,
           f.todo = graph[child], NEW new,
           new = Append(TopReplaced(stack, Lessened(stack[Len(stack)], child)), f)
    PROVE  StackFacts(graph, new, visited)
<1> PICK n : n = Len(stack)
  OBVIOUS
<1>1. n \in Nat /\ n > 0 /\ stack \in Seq(Frames)
  BY DEF StackFacts
<1> PICK top : top = stack[n]
  OBVIOUS
<1> PICK g : g = Lessened(top, child)
  OBVIOUS
<1>2. top \in Frames /\ g \in Frames /\ g.dep = top.dep /\ g.todo = top.todo \ {child}
  <2>1. n \in 1 .. n
    BY <1>1
  <2>2. top \in Frames
    BY <1>1, <2>1, StackHolds
  <2> QED BY <2>2, LessenedIs
<1> PICK mid : mid = TopReplaced(stack, g)
  OBVIOUS
<1>3. /\ mid \in Seq(Frames) /\ Len(mid) = n /\ mid[n] = g
      /\ \A k \in 1 .. n : k # n => mid[k] = stack[k]
  <2>1. LessenedFacts(stack, child, mid)
    BY <1>1, LessenedStack
  <2> QED BY <2>1 DEF LessenedFacts
<1>4. new = Append(mid, f)
  OBVIOUS
<1>5. /\ new \in Seq(Frames) /\ Len(new) = n + 1 /\ new[n + 1] = f /\ new[n] = g
      /\ \A k \in 1 .. n : k # n => new[k] = stack[k]
  BY <1>1, <1>3, <1>4
<1>6. \A k \in 1 .. n : new[k].dep = stack[k].dep
  BY <1>2, <1>5
<1>7. ASSUME NEW k \in 1 .. n + 1 PROVE new[k].dep \notin visited /\ new[k].todo \subseteq graph[new[k].dep]
  <2>1. CASE k = n + 1
    BY <1>5, <2>1
  <2>2. CASE k = n
    BY <1>1, <1>2, <1>5, <2>2 DEF StackFacts
  <2>3. CASE k \in 1 .. n /\ k # n
    BY <1>5, <2>3 DEF StackFacts
  <2>4. k = n + 1 \/ k = n \/ (k \in 1 .. n /\ k # n)
    BY <1>1
  <2> QED BY <2>1, <2>2, <2>3, <2>4
<1>8. ASSUME NEW k \in 1 .. n + 1, NEW l \in 1 .. n + 1, new[k].dep = new[l].dep PROVE k = l
  <2>1. CASE k \in 1 .. n /\ l \in 1 .. n
    BY <1>6, <1>8, <2>1 DEF StackFacts
  <2>2. CASE k = n + 1 /\ l \in 1 .. n
    BY <1>5, <1>6, <1>8, <2>2
  <2>3. CASE l = n + 1 /\ k \in 1 .. n
    BY <1>5, <1>6, <1>8, <2>3
  <2>4. (k \in 1 .. n \/ k = n + 1) /\ (l \in 1 .. n \/ l = n + 1)
    BY <1>1
  <2> QED BY <2>1, <2>2, <2>3, <2>4
<1>9. ASSUME NEW k \in 1 .. n
      PROVE  /\ new[k + 1].dep \in graph[new[k].dep]
             /\ SeenOf(graph, new[k]) \subseteq visited \cup {new[k + 1].dep}
  <2>1. CASE k = n
    <3>1. new[k] = g /\ new[k + 1] = f
      BY <1>5, <2>1
    <3>2. child \in graph[top.dep]
      BY <1>1 DEF StackFacts
    <3>3. SeenOf(graph, top) \subseteq visited
      BY <1>1 DEF StackFacts
    <3>4. SeenOf(graph, g) \subseteq visited \cup {child}
      BY <1>2, <3>3 DEF SeenOf
    <3> QED BY <1>2, <3>1, <3>2, <3>4
  <2>2. CASE k # n
    <3>1. k \in 1 .. n - 1 /\ k + 1 \in 1 .. n
      BY <1>1, <2>2
    <3>2. new[k] = stack[k] /\ new[k + 1].dep = stack[k + 1].dep
      BY <1>5, <1>6, <2>2, <3>1
    <3> QED BY <3>1, <3>2 DEF StackFacts
  <2> QED BY <2>1, <2>2
<1>10. SeenOf(graph, f) \subseteq visited
  BY DEF SeenOf
<1>11. graph \in [DepIds -> SUBSET (DepIds \cup {0})]
  BY DEF StackFacts
<1>12. Len(new) - 1 = n
  BY <1>1, <1>5
<1> QED BY <1>5, <1>7, <1>8, <1>9, <1>10, <1>11, <1>12 DEF StackFacts

\* The next child is seen, closes a cycle, is nobody's, or is walked.
LEMMA VisitChildStep ==
    ASSUME subject = "environment", EnvironmentInv, VisitChild PROVE subject' = "environment" /\ EnvironmentInv'
<1>1. /\ EnvironmentShape /\ st.answer = "open" /\ st.stack # <<>> /\ Top.todo # {}
      /\ EnvironmentFacts(st.graph, st.stack, st.visited, st.ordered, st.answer, st.fault)
  BY DEF EnvironmentInv, VisitChild
<1> PICK n : n = Len(st.stack)
  OBVIOUS
<1>2. /\ StackFacts(st.graph, st.stack, st.visited) /\ st.stack \in Seq(Frames) /\ n \in Nat /\ n > 0
      /\ st.graph \in [DepIds -> SUBSET (DepIds \cup {0})]
  BY <1>1 DEF EnvironmentFacts, StackFacts
<1> PICK top : top = st.stack[n]
  OBVIOUS
<1>3. top \in Frames /\ Top = top /\ n \in 1 .. n /\ DOMAIN st.stack = 1 .. n
  BY <1>2 DEF Top
<1>4. top.todo \in SUBSET Nat /\ top.todo # {} /\ top.todo \subseteq st.graph[top.dep] /\ top.dep \in DepIds
  <2>1. top.dep \in DepIds /\ top.todo \in SUBSET (DepIds \cup {0})
    BY <1>3, FrameHolds
  <2>2. top.todo \subseteq st.graph[top.dep]
    BY <1>2, <1>3 DEF StackFacts
  <2>3. top.todo # {}
    BY <1>1, <1>3, Zenon
  <2>4. DepIds \cup {0} \in SUBSET Nat
    BY PacksAssumption
  <2> QED BY <2>1, <2>2, <2>3, <2>4
<1> PICK child : child = Least(top.todo)
  OBVIOUS
<1>5. child \in top.todo
  BY <1>4, LeastIs
<1> PICK f : f = Lessened(top, child)
  OBVIOUS
<1> PICK mid : mid = TopReplaced(st.stack, f)
  OBVIOUS
<1>6. [st EXCEPT !.stack[Len(st.stack)].todo = @ \ {child}] = [st EXCEPT !.stack = mid]
  <2>1. st.stack \in Seq(Frames) /\ Len(st.stack) > 0
    BY <1>2
  <2>2. [st EXCEPT !.stack[Len(st.stack)].todo = @ \ {child}]
          = [st EXCEPT !.stack = TopReplaced(st.stack, Lessened(st.stack[Len(st.stack)], child))]
    BY <2>1, LessenedInState, Zenon
  <2> QED BY <2>2
<1>7. /\ subject' = "environment"
      /\ st' = IF child \in st.visited THEN [st EXCEPT !.stack = mid]
               ELSE IF OnStack(child) \/ child \notin DepIds
               THEN [st EXCEPT !.answer = "dependency_dag_invalid"]
               ELSE [[st EXCEPT !.stack = mid] EXCEPT !.stack = Append(@, Frame(child))]
  <2> PICK popped : popped = [st EXCEPT !.stack[Len(st.stack)].todo = @ \ {child}]
    OBVIOUS
  <2>1. popped = [st EXCEPT !.stack = mid]
    BY <1>6
  <2>2. child = Least(Top.todo)
    BY <1>3
  <2>3. /\ subject' = "environment"
        /\ st' = IF child \in st.visited THEN popped
                 ELSE IF OnStack(child) \/ child \notin DepIds
                 THEN [st EXCEPT !.answer = "dependency_dag_invalid"]
                 ELSE [popped EXCEPT !.stack = Append(@, Frame(child))]
    BY <2>2, Zenon DEF VisitChild, Step
  <2> QED BY <2>1, <2>3, Zenon
<1>8. CASE child \in st.visited
  <2>1. st' = [graph |-> st.graph, stack |-> mid, visited |-> st.visited, ordered |-> st.ordered,
               answer |-> st.answer, fault |-> st.fault]
    BY <1>1, <1>7, <1>8 DEF EnvironmentShape
  <2>2. StackFacts(st.graph, mid, st.visited)
    BY <1>1, <1>2, <1>8, PoppedFacts
  <2>3. EnvironmentFacts(st.graph, mid, st.visited, st.ordered, st.answer, st.fault)
    BY <1>1, <2>2 DEF EnvironmentFacts
  <2> QED BY <1>7, <2>1, <2>3, EnvironmentKept
<1>9. CASE child \notin st.visited /\ (OnStack(child) \/ child \notin DepIds)
  <2>1. st' = [graph |-> st.graph, stack |-> st.stack, visited |-> st.visited, ordered |-> st.ordered,
               answer |-> "dependency_dag_invalid", fault |-> st.fault]
    BY <1>1, <1>7, <1>9 DEF EnvironmentShape
  <2>2. CASE OnStack(child)
    <3>1. PICK i \in 1 .. n : st.stack[i].dep = child
      BY <1>3, <2>2 DEF OnStack
    <3>2. BadGraph(st.graph)
      BY <1>2, <1>4, <1>5, <3>1, StackCycle
    <3>3. EnvironmentFacts(st.graph, st.stack, st.visited, st.ordered, "dependency_dag_invalid", st.fault)
      BY <1>1, <3>2 DEF EnvironmentFacts
    <3> QED BY <1>7, <2>1, <3>3, EnvironmentKept
  <2>3. CASE child \notin DepIds
    <3>1. child = 0 /\ 0 \in st.graph[top.dep]
      BY <1>2, <1>4, <1>5, <2>3
    <3>2. BadGraph(st.graph)
      BY <1>4, <3>1 DEF BadGraph
    <3>3. EnvironmentFacts(st.graph, st.stack, st.visited, st.ordered, "dependency_dag_invalid", st.fault)
      BY <1>1, <3>2 DEF EnvironmentFacts
    <3> QED BY <1>7, <2>1, <3>3, EnvironmentKept
  <2> QED BY <1>9, <2>2, <2>3
<1>10. CASE child \notin st.visited /\ ~OnStack(child) /\ child \in DepIds
  <2> PICK g : g = Frame(child)
    OBVIOUS
  <2> PICK new : new = Append(mid, g)
    OBVIOUS
  <2>1. st' = [graph |-> st.graph, stack |-> new, visited |-> st.visited, ordered |-> st.ordered,
               answer |-> st.answer, fault |-> st.fault]
    BY <1>1, <1>7, <1>10 DEF EnvironmentShape
  <2>2. g \in Frames /\ g.dep = child /\ g.todo = st.graph[child]
    BY <1>2, <1>10, FrameIs
  <2>3. \A k \in 1 .. Len(st.stack) : st.stack[k].dep # child
    BY <1>3, <1>10 DEF OnStack
  <2>4. StackFacts(st.graph, new, st.visited)
    BY <1>1, <1>2, <1>5, <1>10, <2>2, <2>3, PushedFacts
  <2>5. EnvironmentFacts(st.graph, new, st.visited, st.ordered, st.answer, st.fault)
    BY <1>1, <2>4 DEF EnvironmentFacts
  <2> QED BY <1>7, <2>1, <2>5, EnvironmentKept
<1> QED BY <1>8, <1>9, <1>10

\* What is visited is declared, and there is an end to it.
LEMMA VisitedIs ==
    ASSUME NEW graph, NEW visited, NEW ordered, WalkFacts(graph, visited, ordered)
    PROVE  visited \subseteq DepIds /\ IsFiniteSet(visited)
<1>1. ordered \in Seq(DepIds) /\ visited = Placed(ordered)
  BY DEF WalkFacts
<1>2. ASSUME NEW x \in visited PROVE x \in DepIds
  <2>1. PICK i \in 1 .. Len(ordered) : x = ordered[i]
    BY <1>1, Zenon DEF Placed
  <2> QED BY <1>1, <2>1
<1>3. visited \subseteq DepIds
  BY <1>2
<1> QED BY <1>3, PacksAssumption, FS_Subset

\* The stack without its top.
LEMMA StackPops ==
    ASSUME NEW graph, NEW stack, NEW visited, StackFacts(graph, stack, visited), stack # <<>>
    PROVE  StackFacts(graph, SubSeq(stack, 1, Len(stack) - 1), visited \cup {stack[Len(stack)].dep})
<1> PICK n : n = Len(stack)
  OBVIOUS
<1> PICK new : new = SubSeq(stack, 1, Len(stack) - 1)
  OBVIOUS
<1> PICK seen : seen = visited \cup {stack[Len(stack)].dep}
  OBVIOUS
<1>1. n \in Nat /\ n > 0 /\ stack \in Seq(Frames) /\ n \in 1 .. n
  BY DEF StackFacts
<1>2. new \in Seq(Frames) /\ Len(new) = n - 1 /\ \A k \in 1 .. n - 1 : new[k] = stack[k]
  BY <1>1
<1>3. ASSUME NEW k \in 1 .. n - 1 PROVE new[k].dep \notin seen /\ new[k].todo \subseteq graph[new[k].dep]
  <2>1. k \in 1 .. n /\ k # n
    BY <1>1
  <2>2. stack[k].dep \notin visited /\ stack[k].todo \subseteq graph[stack[k].dep]
    BY <2>1 DEF StackFacts
  <2>3. stack[k].dep # stack[n].dep
    BY <1>1, <2>1 DEF StackFacts
  <2> QED BY <1>2, <2>2, <2>3
<1>4. ASSUME NEW k \in 1 .. n - 1, NEW l \in 1 .. n - 1, new[k].dep = new[l].dep PROVE k = l
  <2>1. k \in 1 .. n /\ l \in 1 .. n /\ stack[k].dep = stack[l].dep
    BY <1>1, <1>2, <1>4
  <2> QED BY <2>1 DEF StackFacts
<1>5. ASSUME NEW k \in 1 .. n - 1 - 1
      PROVE  /\ new[k + 1].dep \in graph[new[k].dep]
             /\ SeenOf(graph, new[k]) \subseteq seen \cup {new[k + 1].dep}
  <2>1. k \in 1 .. n - 1 /\ k + 1 \in 1 .. n - 1
    BY <1>1
  <2>2. /\ stack[k + 1].dep \in graph[stack[k].dep]
        /\ SeenOf(graph, stack[k]) \subseteq visited \cup {stack[k + 1].dep}
    BY <2>1 DEF StackFacts
  <2>3. new[k] = stack[k] /\ new[k + 1] = stack[k + 1]
    BY <1>2, <2>1
  <2> QED BY <2>2, <2>3
<1>6. ASSUME Len(new) > 0 PROVE SeenOf(graph, new[Len(new)]) \subseteq seen
  <2>1. n - 1 \in 1 .. n - 1 /\ n - 1 + 1 = n
    BY <1>1, <1>2, <1>6
  <2>2. SeenOf(graph, stack[n - 1]) \subseteq visited \cup {stack[n].dep}
    BY <2>1 DEF StackFacts
  <2>3. new[Len(new)] = stack[n - 1]
    BY <1>2, <2>1
  <2> QED BY <2>2, <2>3
<1>7. graph \in [DepIds -> SUBSET (DepIds \cup {0})]
  BY DEF StackFacts
<1> QED BY <1>2, <1>3, <1>4, <1>5, <1>6, <1>7 DEF StackFacts

\* The order with one more dependency, all of whose children are in it.
LEMMA OrderGrows ==
    ASSUME NEW graph, NEW visited, NEW ordered, WalkFacts(graph, visited, ordered),
           NEW d \in DepIds, d \notin visited, graph[d] \subseteq visited
    PROVE  WalkFacts(graph, visited \cup {d}, Append(ordered, d))
<1> PICK n : n = Len(ordered)
  OBVIOUS
<1> PICK new : new = Append(ordered, d)
  OBVIOUS
<1>1. ordered \in Seq(DepIds) /\ visited = Placed(ordered) /\ Cardinality(visited) = n /\ n \in Nat
  BY DEF WalkFacts
<1>2. /\ new \in Seq(DepIds) /\ Len(new) = n + 1 /\ new[n + 1] = d
      /\ \A i \in 1 .. n : new[i] = ordered[i]
  BY <1>1
<1>3. Placed(new) = Placed(ordered) \cup {d}
  <2>1. ASSUME NEW x \in Placed(new) PROVE x \in Placed(ordered) \cup {d}
    <3>1. PICK i \in 1 .. Len(new) : x = new[i]
      BY Zenon DEF Placed
    <3>2. CASE i = n + 1
      BY <1>2, <3>1, <3>2
    <3>3. CASE i # n + 1
      <4>1. i \in 1 .. n /\ x = ordered[i]
        BY <1>1, <1>2, <3>1, <3>3
      <4> QED BY <4>1, Zenon DEF Placed
    <3> QED BY <3>2, <3>3
  <2>2. ASSUME NEW x \in Placed(ordered) PROVE x \in Placed(new)
    <3>1. PICK i \in 1 .. Len(ordered) : x = ordered[i]
      BY Zenon DEF Placed
    <3>2. i \in 1 .. Len(new) /\ x = new[i]
      BY <1>1, <1>2, <3>1
    <3> QED BY <3>2, Zenon DEF Placed
  <2>3. d \in Placed(new)
    <3>1. n + 1 \in 1 .. Len(new)
      BY <1>1, <1>2
    <3> QED BY <1>2, <3>1, Zenon DEF Placed
  <2> QED BY <2>1, <2>2, <2>3
<1>4. Cardinality(visited \cup {d}) = n + 1
  BY <1>1, VisitedIs, FS_AddElement
<1>5. ASSUME NEW i \in 1 .. n + 1, NEW x \in graph[new[i]] PROVE \E j \in 1 .. i - 1 : new[j] = x
  <2>1. CASE i \in 1 .. n
    <3>1. x \in graph[ordered[i]]
      BY <1>2, <2>1
    <3>2. PICK j \in 1 .. i - 1 : ordered[j] = x
      BY <1>1, <2>1, <3>1 DEF WalkFacts
    <3>3. j \in 1 .. n
      BY <1>1, <2>1
    <3> QED BY <1>2, <3>2, <3>3
  <2>2. CASE i = n + 1
    <3>1. x \in Placed(ordered)
      BY <1>1, <1>2, <2>2
    <3>2. PICK j \in 1 .. Len(ordered) : x = ordered[j]
      BY <3>1, Zenon DEF Placed
    <3>3. j \in 1 .. i - 1 /\ new[j] = x
      BY <1>1, <1>2, <2>2, <3>2
    <3> QED BY <3>3
  <2>3. i \in 1 .. n \/ i = n + 1
    BY <1>1
  <2> QED BY <2>1, <2>2, <2>3
<1> QED BY <1>1, <1>2, <1>3, <1>4, <1>5 DEF WalkFacts

\* A dependency all of whose children are visited joins them.
LEMMA VisitDoneStep ==
    ASSUME subject = "environment", EnvironmentInv, VisitDone PROVE subject' = "environment" /\ EnvironmentInv'
<1>1. /\ EnvironmentShape /\ st.answer = "open" /\ st.stack # <<>> /\ Top.todo = {}
      /\ EnvironmentFacts(st.graph, st.stack, st.visited, st.ordered, st.answer, st.fault)
  BY DEF EnvironmentInv, VisitDone
<1> PICK n : n = Len(st.stack)
  OBVIOUS
<1> PICK top : top = st.stack[n]
  OBVIOUS
<1>2. /\ StackFacts(st.graph, st.stack, st.visited) /\ WalkFacts(st.graph, st.visited, st.ordered)
      /\ st.stack \in Seq(Frames) /\ n \in 1 .. n /\ n > 0
  BY <1>1 DEF EnvironmentFacts, StackFacts
<1>3. top \in Frames /\ Top = top /\ top.todo = {}
  BY <1>1, <1>2, StackHolds DEF Top
<1> PICK d : d = top.dep
  OBVIOUS
<1>4. d \in DepIds /\ d \notin st.visited /\ st.graph[d] \subseteq st.visited
  <2>1. d \in DepIds
    BY <1>3, FrameHolds
  <2>2. d \notin st.visited /\ SeenOf(st.graph, top) \subseteq st.visited
    BY <1>2 DEF StackFacts
  <2> QED BY <1>3, <2>1, <2>2 DEF SeenOf
<1> PICK stack : stack = SubSeq(st.stack, 1, Len(st.stack) - 1)
  OBVIOUS
<1> PICK visited : visited = st.visited \cup {d}
  OBVIOUS
<1> PICK ordered : ordered = Append(st.ordered, d)
  OBVIOUS
<1>5. /\ subject' = "environment"
      /\ st' = [st EXCEPT !.stack = stack, !.visited = visited, !.ordered = ordered]
  <2>1. d = Top.dep
    BY <1>3
  <2> QED BY <2>1, Zenon DEF VisitDone, Step
<1>6. st' = [graph |-> st.graph, stack |-> stack, visited |-> visited, ordered |-> ordered,
             answer |-> st.answer, fault |-> st.fault]
  BY <1>1, <1>5 DEF EnvironmentShape
<1>7. StackFacts(st.graph, stack, visited)
  <2>1. StackFacts(st.graph, SubSeq(st.stack, 1, Len(st.stack) - 1), st.visited \cup {st.stack[Len(st.stack)].dep})
    BY <1>1, <1>2, StackPops, Zenon
  <2> QED BY <2>1
<1>8. WalkFacts(st.graph, visited, ordered)
  BY <1>2, <1>4, OrderGrows
<1>9. EnvironmentFacts(st.graph, stack, visited, ordered, st.answer, st.fault)
  BY <1>1, <1>7, <1>8 DEF EnvironmentFacts
<1> QED BY <1>5, <1>6, <1>9, EnvironmentKept

\* Revoked and unknown or incompatible licences come before ACTIVE.
LEMMA ProfileStep ==
    ASSUME subject = "environment", EnvironmentInv, NEW license \in [DepIds -> LicenseClasses], NEW revoked,
           ProfileStatus(license, revoked)
    PROVE  subject' = "environment" /\ EnvironmentInv'
<1>1. /\ EnvironmentShape /\ st.answer = "ordered"
      /\ EnvironmentFacts(st.graph, st.stack, st.visited, st.ordered, st.answer, st.fault)
  BY DEF EnvironmentInv, ProfileStatus
<1> PICK status : status = EnvironmentStatus(license, revoked)
  OBVIOUS
<1> PICK fault : fault = (revoked # {} \/ \E d \in DepIds : license[d] # "allowed")
  OBVIOUS
<1>2. subject' = "environment" /\ st' = [st EXCEPT !.answer = status, !.fault = fault]
  BY Zenon DEF ProfileStatus, Step
<1>3. st' = [graph |-> st.graph, stack |-> st.stack, visited |-> st.visited, ordered |-> st.ordered,
             answer |-> status, fault |-> fault]
  BY <1>1, <1>2 DEF EnvironmentShape
<1>4. status \in {"REVOKED", "WAIT_LICENSE", "ACTIVE"}
  BY DEF EnvironmentStatus
<1>5. ASSUME status = "ACTIVE" PROVE ~fault
  <2>1. /\ revoked = {} /\ ~(\E d \in DepIds : license[d] = "unknown")
        /\ ~(\E d \in DepIds : license[d] = "incompatible")
    BY <1>5, Zenon DEF EnvironmentStatus
  <2>2. \A d \in DepIds : license[d] \in LicenseClasses
    OBVIOUS
  <2>3. \A d \in DepIds : license[d] = "allowed"
    BY <2>1, <2>2 DEF LicenseClasses
  <2> QED BY <2>1, <2>3
<1>6. EnvironmentFacts(st.graph, st.stack, st.visited, st.ordered, status, fault)
  <2>1. st.visited = DepIds
    BY <1>1 DEF EnvironmentFacts
  <2>2. status # "dependency_dag_invalid"
    BY <1>4
  <2> QED BY <1>1, <1>5, <2>1, <2>2 DEF EnvironmentFacts
<1> QED BY <1>2, <1>3, <1>6, EnvironmentKept

\* A graph all of whose dependencies come after their own has no cycle and
\* names nothing undeclared.
LEMMA EnvironmentInvHolds == ASSUME EnvironmentInv PROVE EnvironmentSound
<1> SUFFICES ASSUME subject = "environment"
             PROVE  /\ st.answer = "dependency_dag_invalid" => BadGraph(st.graph)
                    /\ st.answer \notin {"open", "dependency_dag_invalid"} =>
                         /\ ~BadGraph(st.graph)
                         /\ Len(st.ordered) = Cardinality(DepIds) /\ st.visited = DepIds
                         /\ \A i \in DOMAIN st.ordered :
                              st.graph[st.ordered[i]] \subseteq {st.ordered[j] : j \in 1..(i - 1)}
                    /\ st.answer = "ACTIVE" => ~st.fault
  BY Zenon DEF EnvironmentSound
<1>1. /\ EnvironmentFacts(st.graph, st.stack, st.visited, st.ordered, st.answer, st.fault)
  BY DEF EnvironmentInv
<1>2. ASSUME st.answer \notin {"open", "dependency_dag_invalid"}
      PROVE  /\ ~BadGraph(st.graph)
             /\ Len(st.ordered) = Cardinality(DepIds) /\ st.visited = DepIds
             /\ \A i \in DOMAIN st.ordered :
                  st.graph[st.ordered[i]] \subseteq {st.ordered[j] : j \in 1..(i - 1)}
  <2> PICK order : order = st.ordered
    OBVIOUS
  <2> PICK graph : graph = st.graph
    OBVIOUS
  <2>1. st.visited = DepIds /\ WalkFacts(graph, st.visited, order)
    BY <1>1, <1>2 DEF EnvironmentFacts
  <2>2. /\ order \in Seq(DepIds) /\ Placed(order) = DepIds /\ Cardinality(DepIds) = Len(order)
        /\ DOMAIN order = 1 .. Len(order) /\ Len(order) \in Nat
        /\ \A i \in 1 .. Len(order) : \A d \in graph[order[i]] : \E j \in 1 .. i - 1 : order[j] = d
    <3>1. order \in Seq(DepIds) /\ st.visited = Placed(order) /\ Cardinality(st.visited) = Len(order)
      BY <2>1 DEF WalkFacts
    <3>2. \A i \in 1 .. Len(order) : \A d \in graph[order[i]] : \E j \in 1 .. i - 1 : order[j] = d
      BY <2>1 DEF WalkFacts
    <3>3. DOMAIN order = 1 .. Len(order) /\ Len(order) \in Nat
      BY <3>1
    <3>4. Placed(order) = DepIds /\ Cardinality(DepIds) = Len(order)
      BY <2>1, <3>1, Zenon
    <3> QED BY <3>1, <3>2, <3>3, <3>4, Zenon
  <2>3. ASSUME NEW d \in DepIds, 0 \in graph[d] PROVE FALSE
    <3>1. PICK i \in 1 .. Len(order) : d = order[i]
      BY <2>2, Zenon DEF Placed
    <3>2. PICK j \in 1 .. i - 1 : order[j] = 0
      BY <2>2, <2>3, <3>1
    <3>3. order[j] \in DepIds
      BY <2>2
    <3> QED BY <3>2, <3>3, PacksAssumption
  <2>4. ASSUME NEW S \in SUBSET DepIds, S # {}, \A d \in S : graph[d] \cap S # {} PROVE FALSE
    <3> PICK I : I = {i \in 1 .. Len(order) : order[i] \in S}
      OBVIOUS
    <3>1. I \in SUBSET Nat /\ I # {}
      <4>1. PICK x : x \in S /\ x \in DepIds
        BY <2>4
      <4>2. PICK i \in 1 .. Len(order) : x = order[i]
        BY <2>2, <4>1, Zenon DEF Placed
      <4> QED BY <2>2, <4>1, <4>2
    <3>2. PICK i \in I : \A j \in I : i <= j
      BY <3>1, LeastOfNat
    <3>3. i \in 1 .. Len(order) /\ order[i] \in S
      OBVIOUS
    <3>4. PICK d : d \in graph[order[i]] /\ d \in S
      BY <2>4, <3>3
    <3>5. PICK j \in 1 .. i - 1 : order[j] = d
      BY <2>2, <3>3, <3>4
    <3>6. j \in I /\ j < i
      BY <2>2, <3>3, <3>4, <3>5
    <3> QED BY <2>2, <3>2, <3>3, <3>6
  <2>5. ~BadGraph(graph)
    <3>1. ~\E d \in DepIds : 0 \in graph[d]
      BY <2>3
    <3>2. ~\E S \in (SUBSET DepIds) \ {{}} : \A d \in S : graph[d] \cap S # {}
      <4> SUFFICES ASSUME NEW S \in (SUBSET DepIds) \ {{}}, \A d \in S : graph[d] \cap S # {} PROVE FALSE
        OBVIOUS
      <4>1. S \in SUBSET DepIds /\ S # {}
        <5>1. S \in SUBSET DepIds
          BY Zenon
        <5>2. S \notin {{}}
          BY Zenon
        <5>3. {} \in {{}}
          BY Zenon
        <5>4. S # {}
          BY <5>2, <5>3, Zenon
        <5> QED BY <5>1, <5>4
      <4> QED BY <2>4, <4>1
    <3> QED BY <3>1, <3>2, Zenon DEF BadGraph
  <2>6. ASSUME NEW i \in DOMAIN order, NEW d \in graph[order[i]] PROVE d \in {order[j] : j \in 1..(i - 1)}
    BY <2>2
  <2> QED BY <2>1, <2>2, <2>5, <2>6
<1>3. st.answer = "dependency_dag_invalid" => BadGraph(st.graph)
  BY <1>1 DEF EnvironmentFacts
<1>4. st.answer = "ACTIVE" => ~st.fault
  BY <1>1 DEF EnvironmentFacts
<1> QED BY <1>2, <1>3, <1>4
-----------------------------------------------------------------------------
(***************************************************************************)
(* Packs: building, inventories, fixtures and platforms.                   *)
(***************************************************************************)
BuildInv ==
    subject = "build" =>
        /\ st = [spec |-> st.spec, answer |-> st.answer, manifest |-> st.manifest]
        /\ st.spec \in Specs
        /\ st.answer = "ok" => ManifestVerdict(st.manifest) = "ok"
        /\ st.answer # "refused"
InventoryInv ==
    subject = "inventory" =>
        /\ st = [kind |-> st.kind, declared |-> st.declared, missing |-> st.missing, answer |-> st.answer]
        /\ st.answer = "ACTIVE" => st.declared = "ACTIVE" /\ ~st.missing
FixtureInv ==
    subject = "fixture" =>
        /\ st = [receipts |-> st.receipts, bitwise |-> st.bitwise, answer |-> st.answer]
        /\ st.answer = "receipt" => Len(st.receipts) >= 2
        /\ st.answer = "receipt" /\ st.bitwise =>
              \A i, j \in DOMAIN st.receipts : st.receipts[i] = st.receipts[j]
        /\ \E n \in 1 .. 2 : st.receipts \in [1 .. n -> Runtimes]
PlatformInv ==
    subject = "platform" =>
        /\ st = [platforms |-> st.platforms, host |-> st.host, answer |-> st.answer]
        /\ st.answer = "ok" => \E p \in st.platforms : PlatformFits(p, st.host)

\* A verdict of the builder is none of the inventory's answers.
LEMMA VerdictsAre ==
    ASSUME NEW spec \in Specs
    PROVE  BuildVerdict(spec) \in {"ok", "CONTRACT_INVALID", "LICENSE_INCOMPATIBLE", "LICENSE_UNKNOWN"}
<1>1. spec.license \in LicenseClasses
  BY DEF Specs
<1>2. LicenseVerdict(spec.license) \in {"ok", "LICENSE_INCOMPATIBLE", "LICENSE_UNKNOWN"}
  BY <1>1 DEF LicenseVerdict, LicenseClasses
<1> PICK m : m = BuiltManifest(spec, FALSE, {})
  OBVIOUS
<1>3. m.license = spec.license
  BY DEF BuiltManifest
<1>4. ManifestVerdict(m) \in {"ok", "CONTRACT_INVALID", "LICENSE_INCOMPATIBLE", "LICENSE_UNKNOWN"}
  BY <1>2, <1>3, Zenon DEF ManifestVerdict
<1> QED BY <1>2, <1>4, Zenon DEF BuildVerdict

VerdictOf(shape, platforms, license, probes, entrypoints, writes, authority) ==
    IF ~shape \/ platforms = {} THEN "CONTRACT_INVALID"
    ELSE IF LicenseVerdict(license) # "ok" THEN LicenseVerdict(license)
    ELSE IF \/ ~probes \subseteq {entrypoints[i] : i \in DOMAIN entrypoints}
            \/ writes # 0 \/ authority
         THEN "CONTRACT_INVALID"
    ELSE "ok"

\* The lock and the tree of a manifest are not what its verdict is about.
LEMMA LockIsNoMatter ==
    ASSUME NEW spec, NEW lockFile
    PROVE  ManifestVerdict(BuiltManifest(spec, lockFile, {})) = ManifestVerdict(BuiltManifest(spec, FALSE, {}))
<1> PICK m : m = BuiltManifest(spec, lockFile, {})
  OBVIOUS
<1> PICK k : k = BuiltManifest(spec, FALSE, {})
  OBVIOUS
<1>1. /\ m.shape = k.shape /\ m.platforms = k.platforms /\ m.license = k.license /\ m.probes = k.probes
      /\ m.entrypoints = k.entrypoints /\ m.canonical_writes = k.canonical_writes
      /\ m.grants_authority = k.grants_authority
  BY DEF BuiltManifest
<1>2. ASSUME NEW v
      PROVE  ManifestVerdict(v) = VerdictOf(v.shape, v.platforms, v.license, v.probes, v.entrypoints,
                                            v.canonical_writes, v.grants_authority)
  BY Zenon DEF ManifestVerdict, VerdictOf
<1>3. /\ ManifestVerdict(m) = VerdictOf(m.shape, m.platforms, m.license, m.probes, m.entrypoints,
                                        m.canonical_writes, m.grants_authority)
      /\ ManifestVerdict(k) = VerdictOf(k.shape, k.platforms, k.license, k.probes, k.entrypoints,
                                        k.canonical_writes, k.grants_authority)
  BY <1>2, Zenon
<1> QED BY <1>1, <1>3

\* What the builder accepts, the check of the manifest accepts.
LEMMA BuildStepHolds ==
    ASSUME subject = "build", BuildInv, NEW lockFile, BuildPack(lockFile)
    PROVE  subject' = "build" /\ BuildInv'
<1>1. st = [spec |-> st.spec, answer |-> st.answer, manifest |-> st.manifest] /\ st.spec \in Specs
  BY DEF BuildInv
<1> PICK verdict : verdict = BuildVerdict(st.spec)
  OBVIOUS
<1> PICK built : built = BuiltManifest(st.spec, lockFile, {})
  OBVIOUS
<1> PICK manifest : manifest = IF verdict = "ok" THEN built ELSE st.manifest
  OBVIOUS
<1>2. subject' = "build" /\ st' = [st EXCEPT !.answer = verdict, !.manifest = manifest]
  BY Zenon DEF BuildPack, Step
<1>3. st' = [spec |-> st.spec, answer |-> verdict, manifest |-> manifest]
  BY <1>1, <1>2
<1>4. st'.spec = st.spec /\ st'.answer = verdict /\ st'.manifest = manifest
  BY <1>3
<1>5. ASSUME verdict = "ok" PROVE ManifestVerdict(manifest) = "ok"
  <2>1. ManifestVerdict(BuiltManifest(st.spec, FALSE, {})) = "ok"
    BY <1>5, Zenon DEF BuildVerdict
  <2>2. manifest = BuiltManifest(st.spec, lockFile, {})
    BY <1>5
  <2> QED BY <2>1, <2>2, LockIsNoMatter
<1>6. verdict # "refused"
  BY <1>1, VerdictsAre
<1> QED BY <1>1, <1>2, <1>3, <1>4, <1>5, <1>6 DEF BuildInv

\* The manifest is loaded back as it was built.
LEMMA LoadStepHolds ==
    ASSUME subject = "build", BuildInv, LoadInventory PROVE subject' = "build" /\ BuildInv'
<1>1. /\ st = [spec |-> st.spec, answer |-> st.answer, manifest |-> st.manifest]
      /\ ManifestVerdict(st.manifest) = "ok" /\ st.spec \in Specs
  BY DEF BuildInv, LoadInventory
<1>2. subject' = "build" /\ st' = [st EXCEPT !.answer = "loaded"]
  BY <1>1, Zenon DEF LoadInventory, Step
<1>3. st' = [spec |-> st.spec, answer |-> "loaded", manifest |-> st.manifest]
  BY <1>1, <1>2
<1>4. st'.spec = st.spec /\ st'.answer = "loaded" /\ st'.manifest = st.manifest
  BY <1>3
<1> QED BY <1>1, <1>2, <1>3, <1>4 DEF BuildInv

\* A missing runtime lowers a declared status, and nothing raises one.
LEMMA InventoryStep ==
    ASSUME subject = "inventory", InventoryInv, NEW missing, AssessInventory(missing)
    PROVE  subject' = "inventory" /\ InventoryInv'
<1>1. st = [kind |-> st.kind, declared |-> st.declared, missing |-> st.missing, answer |-> st.answer]
  BY DEF InventoryInv
<1> PICK answer : answer = IF st.kind = "p0" THEN AssessP0(st.declared, missing)
                           ELSE AssessSciml(st.declared, missing)
  OBVIOUS
<1>2. subject' = "inventory" /\ st' = [st EXCEPT !.missing = missing, !.answer = answer]
  BY Zenon DEF AssessInventory, Step
<1>3. st' = [kind |-> st.kind, declared |-> st.declared, missing |-> missing, answer |-> answer]
  BY <1>1, <1>2
<1>4. st'.kind = st.kind /\ st'.declared = st.declared /\ st'.missing = missing /\ st'.answer = answer
  BY <1>3
<1>5. answer = "ACTIVE" => st.declared = "ACTIVE" /\ ~missing
  BY DEF AssessP0, AssessSciml
<1> QED BY <1>2, <1>3, <1>4, <1>5, Zenon DEF InventoryInv

\* Identity is claimed only where all receipts are of one runtime.
LEMMA FixtureStep ==
    ASSUME subject = "fixture", FixtureInv, NEW abs, NEW rel, NEW bitwise, CompareFixtures(abs, rel, bitwise)
    PROVE  subject' = "fixture" /\ FixtureInv'
<1>1. /\ st = [receipts |-> st.receipts, bitwise |-> st.bitwise, answer |-> st.answer]
      /\ \E n \in 1 .. 2 : st.receipts \in [1 .. n -> Runtimes]
  BY DEF FixtureInv
<1> PICK answer : answer = FixtureAnswer(st.receipts, abs, rel, bitwise)
  OBVIOUS
<1>2. subject' = "fixture" /\ st' = [st EXCEPT !.bitwise = bitwise, !.answer = answer]
  BY Zenon DEF CompareFixtures, Step
<1>3. st' = [receipts |-> st.receipts, bitwise |-> bitwise, answer |-> answer]
  BY <1>1, <1>2
<1>4. st'.receipts = st.receipts /\ st'.bitwise = bitwise /\ st'.answer = answer
  BY <1>3
<1>5. ASSUME answer = "receipt"
      PROVE  /\ ~(Len(st.receipts) < 2)
             /\ ~(bitwise /\ \E i, j \in DOMAIN st.receipts : st.receipts[i] # st.receipts[j])
  BY <1>5, Zenon DEF FixtureAnswer
<1>6. answer = "receipt" => Len(st.receipts) >= 2
  <2>1. Len(st.receipts) \in Nat
    BY <1>1
  <2> QED BY <1>5, <2>1
<1> QED BY <1>1, <1>2, <1>3, <1>4, <1>5, <1>6, Zenon DEF FixtureInv

\* Something that holds for all of the receipts is one thing.
LEMMA OneOf ==
    ASSUME NEW S, NEW x \in S, \A y \in S : y = x PROVE Cardinality(S) = 1
<1>1. S = {x}
  OBVIOUS
<1> QED BY <1>1, FS_Singleton

\* Receipts that agree bit by bit name one language and one family.
LEMMA FixtureInvHolds ==
    ASSUME FixtureInv, subject = "fixture", st.answer = "receipt", st.bitwise
    PROVE  /\ Cardinality({st.receipts[i].language : i \in DOMAIN st.receipts}) = 1
           /\ Cardinality({st.receipts[i].family : i \in DOMAIN st.receipts}) = 1
<1>1. /\ \A i, j \in DOMAIN st.receipts : st.receipts[i] = st.receipts[j]
      /\ \E n \in 1 .. 2 : st.receipts \in [1 .. n -> Runtimes]
  BY DEF FixtureInv
<1>2. 1 \in DOMAIN st.receipts
  BY <1>1
<1> PICK L : L = {st.receipts[i].language : i \in DOMAIN st.receipts}
  OBVIOUS
<1> PICK F : F = {st.receipts[i].family : i \in DOMAIN st.receipts}
  OBVIOUS
<1>3. st.receipts[1].language \in L /\ \A y \in L : y = st.receipts[1].language
  BY <1>1, <1>2
<1>4. st.receipts[1].family \in F /\ \A y \in F : y = st.receipts[1].family
  BY <1>1, <1>2
<1>5. Cardinality(L) = 1
  BY <1>3, OneOf
<1>6. Cardinality(F) = 1
  BY <1>4, OneOf
<1> QED BY <1>5, <1>6

\* A host is accepted for a platform that fits it.
LEMMA PlatformStep ==
    ASSUME subject = "platform", PlatformInv, NEW host, CheckPlatform(host)
    PROVE  subject' = "platform" /\ PlatformInv'
<1>1. st = [platforms |-> st.platforms, host |-> st.host, answer |-> st.answer]
  BY DEF PlatformInv
<1> PICK answer : answer = IF \E p \in st.platforms : PlatformFits(p, host) THEN "ok" ELSE "PLATFORM_UNSUPPORTED"
  OBVIOUS
<1>2. subject' = "platform" /\ st' = [st EXCEPT !.host = host, !.answer = answer]
  BY Zenon DEF CheckPlatform, Step
<1>3. st' = [platforms |-> st.platforms, host |-> host, answer |-> answer]
  BY <1>1, <1>2
<1>4. st'.platforms = st.platforms /\ st'.host = host /\ st'.answer = answer
  BY <1>3
<1>5. answer = "ok" => \E p \in st.platforms : PlatformFits(p, host)
  BY Zenon
<1> QED BY <1>2, <1>3, <1>4, <1>5 DEF PlatformInv

PacksInv ==
    /\ AdmissionInv /\ ArchiveInv /\ StagingInv /\ EnvironmentInv /\ P1Inv /\ BuildInv /\ InventoryInv
    /\ FixtureInv /\ PlatformInv

\* Every call keeps what is known of it, and the others are not under way.
LEMMA PacksOne ==
    ASSUME (subject = "admission" /\ AdmissionInv)
           \/ (subject = "archive" /\ ArchiveInv)
           \/ (subject = "staging" /\ StagingInv)
           \/ (subject = "environment" /\ EnvironmentInv)
           \/ (subject = "p1" /\ P1Inv)
           \/ (subject = "build" /\ BuildInv)
           \/ (subject = "inventory" /\ InventoryInv)
           \/ (subject = "fixture" /\ FixtureInv)
           \/ (subject = "platform" /\ PlatformInv)
    PROVE  PacksInv
<1>1. CASE subject = "admission" /\ AdmissionInv
  BY <1>1 DEF PacksInv, ArchiveInv, StagingInv, EnvironmentInv, P1Inv, BuildInv, InventoryInv, FixtureInv, PlatformInv
<1>2. CASE subject = "archive" /\ ArchiveInv
  BY <1>2 DEF PacksInv, AdmissionInv, StagingInv, EnvironmentInv, P1Inv, BuildInv, InventoryInv, FixtureInv, PlatformInv
<1>3. CASE subject = "staging" /\ StagingInv
  BY <1>3 DEF PacksInv, AdmissionInv, ArchiveInv, EnvironmentInv, P1Inv, BuildInv, InventoryInv, FixtureInv, PlatformInv
<1>4. CASE subject = "environment" /\ EnvironmentInv
  BY <1>4 DEF PacksInv, AdmissionInv, ArchiveInv, StagingInv, P1Inv, BuildInv, InventoryInv, FixtureInv, PlatformInv
<1>5. CASE subject = "p1" /\ P1Inv
  BY <1>5 DEF PacksInv, AdmissionInv, ArchiveInv, StagingInv, EnvironmentInv, BuildInv, InventoryInv, FixtureInv, PlatformInv
<1>6. CASE subject = "build" /\ BuildInv
  BY <1>6 DEF PacksInv, AdmissionInv, ArchiveInv, StagingInv, EnvironmentInv, P1Inv, InventoryInv, FixtureInv, PlatformInv
<1>7. CASE subject = "inventory" /\ InventoryInv
  BY <1>7 DEF PacksInv, AdmissionInv, ArchiveInv, StagingInv, EnvironmentInv, P1Inv, BuildInv, FixtureInv, PlatformInv
<1>8. CASE subject = "fixture" /\ FixtureInv
  BY <1>8 DEF PacksInv, AdmissionInv, ArchiveInv, StagingInv, EnvironmentInv, P1Inv, BuildInv, InventoryInv, PlatformInv
<1>9. CASE subject = "platform" /\ PlatformInv
  BY <1>9 DEF PacksInv, AdmissionInv, ArchiveInv, StagingInv, EnvironmentInv, P1Inv, BuildInv, InventoryInv, FixtureInv
<1> QED BY <1>1, <1>2, <1>3, <1>4, <1>5, <1>6, <1>7, <1>8, <1>9

\* One call is under way: its own part of the invariant is all there is to show.
LEMMA PacksOneNext ==
    ASSUME (subject' = "admission" /\ AdmissionInv')
           \/ (subject' = "archive" /\ ArchiveInv')
           \/ (subject' = "staging" /\ StagingInv')
           \/ (subject' = "environment" /\ EnvironmentInv')
           \/ (subject' = "p1" /\ P1Inv')
           \/ (subject' = "build" /\ BuildInv')
           \/ (subject' = "inventory" /\ InventoryInv')
           \/ (subject' = "fixture" /\ FixtureInv')
           \/ (subject' = "platform" /\ PlatformInv')
    PROVE  PacksInv'
<1>1. CASE subject' = "admission" /\ AdmissionInv'
  BY <1>1 DEF PacksInv, ArchiveInv, StagingInv, EnvironmentInv, P1Inv, BuildInv, InventoryInv, FixtureInv, PlatformInv
<1>2. CASE subject' = "archive" /\ ArchiveInv'
  BY <1>2 DEF PacksInv, AdmissionInv, StagingInv, EnvironmentInv, P1Inv, BuildInv, InventoryInv, FixtureInv, PlatformInv
<1>3. CASE subject' = "staging" /\ StagingInv'
  BY <1>3 DEF PacksInv, AdmissionInv, ArchiveInv, EnvironmentInv, P1Inv, BuildInv, InventoryInv, FixtureInv, PlatformInv
<1>4. CASE subject' = "environment" /\ EnvironmentInv'
  BY <1>4 DEF PacksInv, AdmissionInv, ArchiveInv, StagingInv, P1Inv, BuildInv, InventoryInv, FixtureInv, PlatformInv
<1>5. CASE subject' = "p1" /\ P1Inv'
  BY <1>5 DEF PacksInv, AdmissionInv, ArchiveInv, StagingInv, EnvironmentInv, BuildInv, InventoryInv, FixtureInv, PlatformInv
<1>6. CASE subject' = "build" /\ BuildInv'
  BY <1>6 DEF PacksInv, AdmissionInv, ArchiveInv, StagingInv, EnvironmentInv, P1Inv, InventoryInv, FixtureInv, PlatformInv
<1>7. CASE subject' = "inventory" /\ InventoryInv'
  BY <1>7 DEF PacksInv, AdmissionInv, ArchiveInv, StagingInv, EnvironmentInv, P1Inv, BuildInv, FixtureInv, PlatformInv
<1>8. CASE subject' = "fixture" /\ FixtureInv'
  BY <1>8 DEF PacksInv, AdmissionInv, ArchiveInv, StagingInv, EnvironmentInv, P1Inv, BuildInv, InventoryInv, PlatformInv
<1>9. CASE subject' = "platform" /\ PlatformInv'
  BY <1>9 DEF PacksInv, AdmissionInv, ArchiveInv, StagingInv, EnvironmentInv, P1Inv, BuildInv, InventoryInv, FixtureInv
<1> QED BY <1>1, <1>2, <1>3, <1>4, <1>5, <1>6, <1>7, <1>8, <1>9

\* The invariant holds at first.
LEMMA PacksInits == ASSUME PacksInit PROVE PacksInv
<1>1. CASE /\ subject = "admission"
           /\ st = [chain |-> [c \in Curators |-> <<>>], record |-> NoRecord, revoked |-> {}, answer |-> "none"]
  <2>1. AdmissionInv
    BY <1>1, AdmissionInits
  <2> QED BY <1>1, <2>1, PacksOne
<1>2. CASE /\ subject = "archive"
           /\ \E f \in {"tar", "zip"}, m \in Archive :
                st = [format |-> f, members |-> m, next |-> 1, dest |-> {}, answer |-> "open"]
  <2>1. ArchiveInv
    BY <1>2, ArchiveInits
  <2> QED BY <1>2, <2>1, PacksOne
<1>3. CASE /\ subject = "staging"
           /\ \E t, s \in Tree, h \in SUBSET Files, i \in BOOLEAN :
                st = [root |-> t, manifest |-> h, immutable |-> i, staged |-> s, step |-> "check", drifts |-> 0]
  <2>1. PICK t, s, h, i : st = [root |-> t, manifest |-> h, immutable |-> i, staged |-> s, step |-> "check",
                                drifts |-> 0]
    BY <1>3, Zenon
  <2>2. StagingInv
    BY <1>3, <2>1, StagingInits
  <2> QED BY <1>3, <2>2, PacksOne
<1>4. CASE /\ subject = "environment"
           /\ \E g \in [DepIds -> SUBSET (DepIds \cup {0})] :
                st = [graph |-> g, stack |-> <<>>, visited |-> {}, ordered |-> <<>>,
                      answer |-> "open", fault |-> FALSE]
  <2>1. EnvironmentInv
    BY <1>4, EnvironmentInits
  <2> QED BY <1>4, <2>1, PacksOne
<1>5. CASE /\ subject = "p1"
           /\ \E e \in SUBSET P1_REQUIREMENTS, r \in AllowedProfiles :
                st = [evidence |-> e, required |-> r, verdict |-> "none"]
  <2>1. PICK e, r : st = [evidence |-> e, required |-> r, verdict |-> "none"]
    BY <1>5, Zenon
  <2>2. st.evidence = e /\ st.required = r /\ st.verdict = "none"
    BY <2>1
  <2>3. P1Inv
    BY <2>1, <2>2 DEF P1Inv
  <2> QED BY <1>5, <2>3, PacksOne
<1>6. CASE /\ subject = "build"
           /\ \E s \in Specs : st = [spec |-> s, answer |-> "none", manifest |-> NoManifest]
  <2>1. PICK s \in Specs : st = [spec |-> s, answer |-> "none", manifest |-> NoManifest]
    BY <1>6, Zenon
  <2>2. st.spec = s /\ st.answer = "none" /\ st.manifest = NoManifest
    BY <2>1
  <2>3. BuildInv
    BY <2>1, <2>2 DEF BuildInv
  <2> QED BY <1>6, <2>3, PacksOne
<1>7. CASE /\ subject = "inventory"
           /\ \E k \in {"p0", "sciml"}, d \in {"ACTIVE", "DEGRADED", "WAIT_CAPABILITY"} :
                st = [kind |-> k, declared |-> d, missing |-> FALSE, answer |-> "none"]
  <2>1. PICK k, d : st = [kind |-> k, declared |-> d, missing |-> FALSE, answer |-> "none"]
    BY <1>7, Zenon
  <2>2. st.kind = k /\ st.declared = d /\ st.missing = FALSE /\ st.answer = "none"
    BY <2>1
  <2>3. InventoryInv
    BY <2>1, <2>2 DEF InventoryInv
  <2> QED BY <1>7, <2>3, PacksOne
<1>8. CASE /\ subject = "fixture"
           /\ \E n \in 1..2 : \E r \in [1..n -> Runtimes] :
                st = [receipts |-> r, bitwise |-> FALSE, answer |-> "none"]
  <2>1. PICK n \in 1..2 : \E r \in [1..n -> Runtimes] : st = [receipts |-> r, bitwise |-> FALSE, answer |-> "none"]
    BY <1>8, Zenon
  <2>2. PICK r \in [1..n -> Runtimes] : st = [receipts |-> r, bitwise |-> FALSE, answer |-> "none"]
    BY <2>1, Zenon
  <2>3. st.receipts = r /\ st.bitwise = FALSE /\ st.answer = "none"
    BY <2>2
  <2>4. FixtureInv
    BY <2>2, <2>3 DEF FixtureInv
  <2> QED BY <1>8, <2>4, PacksOne
<1>9. CASE /\ subject = "platform"
           /\ \E p, q \in Platforms : st = [platforms |-> {p, q}, host |-> p, answer |-> "none"]
  <2>1. PICK p, q : st = [platforms |-> {p, q}, host |-> p, answer |-> "none"]
    BY <1>9, Zenon
  <2>2. st.platforms = {p, q} /\ st.host = p /\ st.answer = "none"
    BY <2>1
  <2>3. PlatformInv
    BY <2>1, <2>2 DEF PlatformInv
  <2> QED BY <1>9, <2>3, PacksOne
<1> QED BY <1>1, <1>2, <1>3, <1>4, <1>5, <1>6, <1>7, <1>8, <1>9, Zenon DEF PacksInit

\* Every call of a pack keeps it.
LEMMA PacksSteps == ASSUME PacksInv, PacksNext PROVE PacksInv'
<1>0. /\ AdmissionInv /\ ArchiveInv /\ StagingInv /\ EnvironmentInv /\ P1Inv /\ BuildInv /\ InventoryInv
      /\ FixtureInv /\ PlatformInv
  BY DEF PacksInv
<1>1. CASE subject = "admission" /\
           \E c \in Curators, stage \in {STAGES[i] : i \in DOMAIN STAGES} :
             \E ev \in {e \in Evidence : e.kind \in {stage, "BUILT"}} : Advance(c, stage, ev)
  <2>1. PICK c \in Curators, stage \in {STAGES[i] : i \in DOMAIN STAGES} : \E ev : Advance(c, stage, ev)
    BY <1>1, Zenon
  <2>6. PICK ev : Advance(c, stage, ev)
    BY <2>1, Zenon
  <2>2. PICK k \in DOMAIN STAGES : stage = STAGES[k]
    BY Zenon
  <2>3. k \in 1 .. 9
    BY StagesInOrder
  <2>4. Advance(c, STAGES[k], ev)
    BY <2>2, <2>6, Zenon
  <2>5. subject' = "admission" /\ AdmissionInv'
    BY <1>0, <1>1, <2>3, <2>4, AdvanceStep
  <2> QED BY <2>5, PacksOneNext
<1>2. CASE subject = "admission" /\ \E l \in LicenseClasses, e \in GovernanceEvidence : Assess(l, e)
  <2>1. PICK l \in LicenseClasses, e \in GovernanceEvidence : Assess(l, e)
    BY <1>2, Zenon
  <2>2. EvidenceFacts(e)
    BY EvidenceIs
  <2>3. subject' = "admission" /\ AdmissionInv'
    BY <1>0, <1>2, <2>1, <2>2, AssessStep
  <2> QED BY <2>3, PacksOneNext
<1>3. CASE /\ subject = "admission"
           /\ GovernanceReceipt \/ (\E x \in {"pack", "dep"} : Revoke(x))
              \/ (\E listed \in BOOLEAN : DispatchPack(listed))
  <2>1. GovernanceReceipt \/ (\E x : Revoke(x)) \/ (\E listed : DispatchPack(listed))
    BY <1>3, Zenon
  <2>2. subject' = "admission" /\ AdmissionInv'
    BY <1>0, <1>3, <2>1, AdmissionOtherStep
  <2> QED BY <2>2, PacksOneNext
<1>4. CASE subject = "archive" /\ (ExtractMember \/ ExtractReport)
  <2>1. subject' = "archive" /\ ArchiveInv'
    BY <1>0, <1>4, ExtractStep, ReportStep
  <2> QED BY <2>1, PacksOneNext
<1>5. CASE subject = "staging" /\ (CheckRoot \/ CopyTree \/ VerifyCopy \/ \E t \in Tree : Drift(t))
  <2>1. CheckRoot \/ CopyTree \/ VerifyCopy \/ \E t : Drift(t)
    BY <1>5, Zenon
  <2>2. subject' = "staging" /\ StagingInv'
    BY <1>0, <1>5, <2>1, StagingStep
  <2> QED BY <2>2, PacksOneNext
<1>6. CASE subject = "environment" /\ (VisitRoot \/ VisitChild \/ VisitDone)
  <2>1. subject' = "environment" /\ EnvironmentInv'
    BY <1>0, <1>6, VisitRootStep, VisitChildStep, VisitDoneStep
  <2> QED BY <2>1, PacksOneNext
<1>7. CASE subject = "environment" /\ \E l \in [DepIds -> LicenseClasses], r \in SUBSET DepIds : ProfileStatus(l, r)
  <2>1. PICK l \in [DepIds -> LicenseClasses], r \in SUBSET DepIds : ProfileStatus(l, r)
    BY <1>7, Zenon
  <2>2. subject' = "environment" /\ EnvironmentInv'
    BY <1>0, <1>7, <2>1, ProfileStep
  <2> QED BY <2>2, PacksOneNext
<1>8. CASE subject = "p1" /\ EvaluateP1
  <2>1. subject' = "p1" /\ P1Inv'
    BY <1>0, <1>8, P1Step
  <2> QED BY <2>1, PacksOneNext
<1>9. CASE subject = "build" /\ (LoadInventory \/ \E lockFile \in BOOLEAN : BuildPack(lockFile))
  <2>1. subject' = "build" /\ BuildInv'
    BY <1>0, <1>9, LoadStepHolds, BuildStepHolds
  <2> QED BY <2>1, PacksOneNext
<1>10. CASE subject = "inventory" /\ \E missing \in BOOLEAN : AssessInventory(missing)
  <2>1. subject' = "inventory" /\ InventoryInv'
    BY <1>0, <1>10, InventoryStep
  <2> QED BY <2>1, PacksOneNext
<1>11. CASE subject = "fixture" /\ \E abs, rel \in -1..1, bitwise \in BOOLEAN : CompareFixtures(abs, rel, bitwise)
  <2>1. PICK abs, rel, bitwise : CompareFixtures(abs, rel, bitwise)
    BY <1>11, Zenon
  <2>2. subject' = "fixture" /\ FixtureInv'
    BY <1>0, <1>11, <2>1, FixtureStep
  <2> QED BY <2>2, PacksOneNext
<1>12. CASE subject = "platform" /\ \E host \in Platforms : CheckPlatform(host)
  <2>1. subject' = "platform" /\ PlatformInv'
    BY <1>0, <1>12, PlatformStep
  <2> QED BY <2>1, PacksOneNext
<1> QED BY <1>1, <1>2, <1>3, <1>4, <1>5, <1>6, <1>7, <1>8, <1>9, <1>10, <1>11, <1>12, Zenon DEF PacksNext

\* What the invariant says of every pack.
LEMMA PacksInvHolds == ASSUME PacksInv PROVE PacksVetted
<1>0. /\ AdmissionInv /\ ArchiveInv /\ StagingInv /\ EnvironmentInv /\ P1Inv /\ BuildInv /\ InventoryInv
      /\ FixtureInv /\ PlatformInv
  BY DEF PacksInv
<1>1. ChainSound
  <2> SUFFICES ASSUME subject = "admission", NEW c \in Curators, NEW i \in DOMAIN st.chain[c]
               PROVE  /\ st.chain[c][i].from = STAGES[i] /\ st.chain[c][i].stage = STAGES[i + 1]
                      /\ st.chain[c][i].evidence.kind = st.chain[c][i].stage
                      /\ st.chain[c][i].stage # "EXPERIMENTAL_ACCEPTED" =>
                            st.chain[c][i].evidence.found \in {"good", "allowed"}
    BY Zenon DEF ChainSound
  <2>1. StageReceiptFacts(st.chain[c][i], i)
    BY <1>0 DEF AdmissionInv, ChainFacts
  <2> QED BY <2>1 DEF StageReceiptFacts
<1>2. ExtractionSound
  BY <1>0, ArchiveInvHolds
<1>3. StagedIsManifest
  BY <1>0, Zenon DEF StagingInv, StagingFacts, StagedIsManifest
<1>4. EnvironmentSound
  BY <1>0, EnvironmentInvHolds
<1>5. P1Monotone
  BY <1>0, P1InvHolds
<1>6. BuildRoundTrip
  BY <1>0 DEF BuildInv, BuildRoundTrip
<1>7. NoUnearnedClaim
  <2>1. (subject = "inventory" /\ st.answer = "ACTIVE") => st.declared = "ACTIVE" /\ ~st.missing
    BY <1>0, Zenon DEF InventoryInv
  <2>2. ASSUME subject = "platform", st.answer = "ok"
        PROVE  \E p \in st.platforms : p.os = st.host.os /\ p.arch = st.host.arch
    <3>1. PICK p \in st.platforms : PlatformFits(p, st.host)
      BY <1>0, <2>2 DEF PlatformInv
    <3> QED BY <3>1 DEF PlatformFits
  <2> QED BY <1>0, <2>1, <2>2, FixtureInvHolds, Zenon DEF NoUnearnedClaim
<1>8. ActiveIsVetted
  BY <1>0, ActiveIsVettedHolds
<1> QED BY <1>1, <1>2, <1>3, <1>4, <1>5, <1>6, <1>7, <1>8 DEF PacksVetted

\* A step that leaves the state alone keeps the packs invariant.
LEMMA PacksUnmoved == PacksInv /\ UNCHANGED frame => PacksInv'
<1> SUFFICES ASSUME PacksInv, UNCHANGED frame PROVE PacksInv'
  OBVIOUS
<1>0. subject' = subject /\ st' = st
  BY DEF frame
<1>1. PacksInv
  OBVIOUS
<1>2. AdmissionInv'
  BY <1>0, <1>1 DEF PacksInv, AdmissionInv, AdmissionShape
<1>3. ArchiveInv'
  BY <1>0, <1>1 DEF PacksInv, ArchiveInv, ArchiveShape
<1>4. StagingInv'
  BY <1>0, <1>1 DEF PacksInv, StagingInv, StagingShape
<1>5. EnvironmentInv'
  BY <1>0, <1>1 DEF PacksInv, EnvironmentInv, EnvironmentShape
<1>6. P1Inv'
  BY <1>0, <1>1 DEF PacksInv, P1Inv
<1>7. BuildInv'
  BY <1>0, <1>1 DEF PacksInv, BuildInv
<1>8. InventoryInv'
  BY <1>0, <1>1 DEF PacksInv, InventoryInv
<1>9. FixtureInv'
  BY <1>0, <1>1 DEF PacksInv, FixtureInv
<1>10. PlatformInv'
  BY <1>0, <1>1 DEF PacksInv, PlatformInv
<1> QED BY <1>2, <1>3, <1>4, <1>5, <1>6, <1>7, <1>8, <1>9, <1>10 DEF PacksInv

-----------------------------------------------------------------------------
(***************************************************************************)
(* Catalog: sorting.  The k-th entry is the one that k - 1 others come     *)
(* before; an order without repeated ids is one of its set of entries.     *)
(***************************************************************************)
Listed(s, n) == n \in Nat /\ s \in [1 .. n -> Entries]
Ascending(s) == \A i, j \in DOMAIN s : i < j => s[i].id < s[j].id
EntriesOf(s) == {s[i] : i \in DOMAIN s}

\* An entry's id is a number.
LEMMA ListedIds ==
    ASSUME NEW s, NEW n, Listed(s, n)
    PROVE  DOMAIN s = 1 .. n /\ n \in Nat /\ Len(s) = n /\ \A i \in 1 .. n : s[i] \in Entries /\ s[i].id \in Nat
<1>1. n \in Nat /\ s \in [1 .. n -> Entries]
  BY DEF Listed
<1>2. \A e \in Entries : e.id \in Nat
  BY CatalogAssumption DEF Entries
<1> QED BY <1>1, <1>2

\* The number of entries before an entry tells it from the others, and every
\* number up to that of the entries is one entry's.
LEMMA PlacesAreTaken ==
    ASSUME NEW s, NEW n, Listed(s, n), ~HasDuplicate(s), NEW k \in 1 .. n
    PROVE  \E i \in DOMAIN s : Cardinality(SortedBefore(s, i)) = k - 1
<1>1. DOMAIN s = 1 .. n /\ n \in Nat /\ \A i \in 1 .. n : s[i] \in Entries /\ s[i].id \in Nat
  BY ListedIds
<1>2. \A i, j \in 1 .. n : s[i].id = s[j].id => i = j
  BY <1>1 DEF HasDuplicate
<1>3. IsFiniteSet(1 .. n) /\ Cardinality(1 .. n) = n /\ IsFiniteSet(0 .. n - 1) /\ Cardinality(0 .. n - 1) = n
  <2>1. IsFiniteSet(1 .. n) /\ Cardinality(1 .. n) = n
    BY <1>1, FS_Interval
  <2>2. 0 \in Int /\ n - 1 \in Int
    BY <1>1
  <2>3. IsFiniteSet(0 .. n - 1) /\ Cardinality(0 .. n - 1) = IF 0 > n - 1 THEN 0 ELSE n - 1 - 0 + 1
    BY <2>2, FS_Interval
  <2> QED BY <1>1, <2>1, <2>3
<1> DEFINE B(i) == SortedBefore(s, i)
           r == [i \in 1 .. n |-> Cardinality(B(i))]
<1>4. \A i \in 1 .. n : B(i) = {j \in 1 .. n : s[j].id < s[i].id}
  BY <1>1, <1>2 DEF SortedBefore
<1> HIDE DEF B
<1>5. ASSUME NEW i \in 1 .. n PROVE IsFiniteSet(B(i)) /\ Cardinality(B(i)) \in 0 .. n - 1
  <2>1. B(i) \subseteq (1 .. n) \ {i}
    BY <1>1, <1>4
  <2>2. IsFiniteSet((1 .. n) \ {i}) /\ Cardinality((1 .. n) \ {i}) = n - 1
    BY <1>3, FS_RemoveElement
  <2>3. IsFiniteSet(B(i)) /\ Cardinality(B(i)) <= n - 1
    BY <2>1, <2>2, FS_Subset
  <2>4. Cardinality(B(i)) \in Nat
    BY <2>3, FS_CardinalityType
  <2> QED BY <1>1, <2>3, <2>4
<1>6. ASSUME NEW i \in 1 .. n, NEW j \in 1 .. n, s[i].id < s[j].id PROVE Cardinality(B(i)) # Cardinality(B(j))
  <2>1. B(i) \subseteq B(j)
    BY <1>1, <1>4, <1>6
  <2>2. i \in B(j) /\ i \notin B(i)
    BY <1>1, <1>4, <1>6
  <2>3. Cardinality(B(i)) = Cardinality(B(j)) => B(i) = B(j)
    BY <1>5, <2>1, FS_Subset
  <2> QED BY <2>2, <2>3
<1>7. r \in [1 .. n -> 0 .. n - 1]
  BY <1>5
<1>8. \A i, j \in 1 .. n : r[i] = r[j] => i = j
  <2> SUFFICES ASSUME NEW i \in 1 .. n, NEW j \in 1 .. n, r[i] = r[j], i # j PROVE FALSE
    OBVIOUS
  <2>1. s[i].id < s[j].id \/ s[j].id < s[i].id
    BY <1>1, <1>2
  <2>2. r[i] = Cardinality(B(i)) /\ r[j] = Cardinality(B(j))
    OBVIOUS
  <2> QED BY <1>6, <2>1, <2>2
<1> HIDE DEF r
<1>9. r \in Injection(1 .. n, 0 .. n - 1)
  BY <1>7, <1>8 DEF Injection, IsInjective
<1>10. r \in Surjection(1 .. n, 0 .. n - 1)
  BY <1>3, <1>9, FS_Injection
<1>11. PICK i \in 1 .. n : r[i] = k - 1
  <2>1. k - 1 \in 0 .. n - 1
    BY <1>1
  <2> QED BY <1>10, <2>1 DEF Surjection
<1>12. Cardinality(B(i)) = k - 1
  BY <1>11 DEF r
<1> QED BY <1>1, <1>12 DEF B

\* Sorting keeps the entries and puts them in the order of their ids.
LEMMA SortIs ==
    ASSUME NEW s, NEW n, Listed(s, n), ~HasDuplicate(s)
    PROVE  Listed(SortedById(s), n) /\ Ascending(SortedById(s)) /\ EntriesOf(SortedById(s)) = EntriesOf(s)
<1>1. DOMAIN s = 1 .. n /\ n \in Nat /\ \A i \in 1 .. n : s[i] \in Entries /\ s[i].id \in Nat
  BY ListedIds
<1>2. \A i, j \in 1 .. n : s[i].id = s[j].id => i = j
  BY <1>1 DEF HasDuplicate
<1> DEFINE P(k) == CHOOSE i \in DOMAIN s : Cardinality(SortedBefore(s, i)) = k - 1
           t == SortedById(s)
<1>3. ASSUME NEW k \in 1 .. n PROVE P(k) \in 1 .. n /\ Cardinality(SortedBefore(s, P(k))) = k - 1
  <2>1. \E i \in DOMAIN s : Cardinality(SortedBefore(s, i)) = k - 1
    BY PlacesAreTaken
  <2>2. P(k) \in DOMAIN s /\ Cardinality(SortedBefore(s, P(k))) = k - 1
    BY <2>1, Zenon
  <2> QED BY <1>1, <2>2
<1>4. t = [k \in 1 .. n |-> s[P(k)]]
  BY <1>1, Zenon DEF SortedById
<1> HIDE DEF P, t
<1>5. DOMAIN t = 1 .. n /\ \A k \in 1 .. n : t[k] = s[P(k)]
  BY <1>4
<1>6. Listed(t, n)
  BY <1>1, <1>3, <1>4 DEF Listed
<1>7. \A i \in 1 .. n : IsFiniteSet(SortedBefore(s, i))
  <2>1. \A i \in 1 .. n : SortedBefore(s, i) \subseteq 1 .. n
    BY <1>1 DEF SortedBefore
  <2>2. IsFiniteSet(1 .. n)
    BY <1>1, FS_Interval
  <2> QED BY <2>1, <2>2, FS_Subset
<1>13. ASSUME NEW i \in 1 .. n, NEW j \in 1 .. n, s[i].id <= s[j].id
       PROVE  SortedBefore(s, i) \subseteq SortedBefore(s, j)
  BY <1>1, <1>2, <1>13 DEF SortedBefore
<1>14. ASSUME NEW i \in 1 .. n, NEW j \in 1 .. n, s[i].id < s[j].id
       PROVE  i \in SortedBefore(s, j) /\ i \notin SortedBefore(s, i)
  BY <1>1, <1>14 DEF SortedBefore
<1>8. ASSUME NEW i \in 1 .. n, NEW j \in 1 .. n, s[i].id <= s[j].id
      PROVE  Cardinality(SortedBefore(s, i)) <= Cardinality(SortedBefore(s, j))
  <2>1. SortedBefore(s, i) \subseteq SortedBefore(s, j)
    BY <1>8, <1>13
  <2> QED BY <1>7, <2>1, FS_Subset
<1>9. ASSUME NEW k \in 1 .. n, NEW l \in 1 .. n, k < l PROVE t[k].id < t[l].id
  <2> PICK i, j : i = P(k) /\ j = P(l)
    OBVIOUS
  <2>1. /\ i \in 1 .. n /\ j \in 1 .. n /\ t[k] = s[i] /\ t[l] = s[j]
        /\ Cardinality(SortedBefore(s, i)) = k - 1 /\ Cardinality(SortedBefore(s, j)) = l - 1
    BY <1>3, <1>5
  <2>2. ~(s[j].id <= s[i].id)
    BY <1>8, <1>9, <2>1
  <2> QED BY <1>1, <2>1, <2>2
<1>10. Ascending(t)
  BY <1>5, <1>9 DEF Ascending
<1>11. ASSUME NEW i \in 1 .. n PROVE \E k \in 1 .. n : t[k] = s[i]
  <2> PICK k : k = Cardinality(SortedBefore(s, i)) + 1
    OBVIOUS
  <2>1. k \in 1 .. n
    <3>1. SortedBefore(s, i) \subseteq (1 .. n) \ {i}
      BY <1>1 DEF SortedBefore
    <3>2. IsFiniteSet(1 .. n) /\ Cardinality(1 .. n) = n
      BY <1>1, FS_Interval
    <3>3. IsFiniteSet((1 .. n) \ {i}) /\ Cardinality((1 .. n) \ {i}) = n - 1
      BY <3>2, FS_RemoveElement
    <3>4. Cardinality(SortedBefore(s, i)) <= n - 1
      BY <3>1, <3>3, FS_Subset
    <3>5. Cardinality(SortedBefore(s, i)) \in Nat
      BY <1>7, FS_CardinalityType
    <3> QED BY <1>1, <3>4, <3>5
  <2> PICK j : j = P(k)
    OBVIOUS
  <2>2. j \in 1 .. n /\ Cardinality(SortedBefore(s, j)) = k - 1 /\ t[k] = s[j]
    BY <1>3, <1>5, <2>1
  <2>3. Cardinality(SortedBefore(s, j)) = Cardinality(SortedBefore(s, i))
    <3>1. Cardinality(SortedBefore(s, i)) \in Nat
      BY <1>7, FS_CardinalityType
    <3> QED BY <2>2, <3>1
  <2>4. SortedBefore(s, i) = SortedBefore(s, j)
    <3>1. CASE s[i].id <= s[j].id
      <4>1. SortedBefore(s, i) \subseteq SortedBefore(s, j)
        BY <1>13, <2>2, <3>1
      <4> QED BY <1>7, <2>2, <2>3, <4>1, FS_Subset
    <3>2. CASE s[j].id <= s[i].id
      <4>1. SortedBefore(s, j) \subseteq SortedBefore(s, i)
        BY <1>13, <2>2, <3>2
      <4> QED BY <1>7, <2>2, <2>3, <4>1, FS_Subset
    <3> QED BY <1>1, <2>2, <3>1, <3>2
  <2>5. i = j
    <3>1. ~(s[i].id < s[j].id)
      BY <1>14, <2>2, <2>4
    <3>2. ~(s[j].id < s[i].id)
      BY <1>14, <2>2, <2>4
    <3>3. s[i].id = s[j].id
      BY <1>1, <2>2, <3>1, <3>2
    <3> QED BY <1>2, <2>2, <3>3
  <2> QED BY <2>1, <2>2, <2>5
<1>12. EntriesOf(t) = EntriesOf(s)
  <2>1. ASSUME NEW x \in EntriesOf(t) PROVE x \in EntriesOf(s)
    <3>1. PICK k \in 1 .. n : x = t[k]
      BY <1>5, Zenon DEF EntriesOf
    <3>2. P(k) \in DOMAIN s /\ x = s[P(k)]
      BY <1>1, <1>3, <1>5, <3>1
    <3> QED BY <3>2, Zenon DEF EntriesOf
  <2>2. ASSUME NEW x \in EntriesOf(s) PROVE x \in EntriesOf(t)
    <3>1. PICK i \in 1 .. n : x = s[i]
      BY <1>1, Zenon DEF EntriesOf
    <3>2. PICK k \in 1 .. n : t[k] = s[i]
      BY <1>11
    <3>3. k \in DOMAIN t
      BY <1>5
    <3> QED BY <3>1, <3>2, <3>3, Zenon DEF EntriesOf
  <2> QED BY <2>1, <2>2
<1> QED BY <1>6, <1>10, <1>12 DEF t

\* Of two ascending lists of the same entries, neither has an entry at a place
\* before which they agree that the other has not.
LEMMA AscendingAgree ==
    ASSUME NEW a, NEW m, Listed(a, m), Ascending(a), NEW b, NEW n, Listed(b, n), Ascending(b),
           EntriesOf(a) = EntriesOf(b), NEW k \in 1 .. m, \A i \in 1 .. k - 1 : i \in 1 .. n /\ a[i] = b[i]
    PROVE  \E l \in k .. n : b[l] = a[k]
<1>1. /\ DOMAIN a = 1 .. m /\ m \in Nat /\ DOMAIN b = 1 .. n /\ n \in Nat
      /\ (\A i \in 1 .. m : a[i].id \in Nat) /\ \A i \in 1 .. n : b[i].id \in Nat
  BY ListedIds
<1>2. a[k] \in EntriesOf(a)
  BY <1>1 DEF EntriesOf
<1>3. PICK l \in 1 .. n : b[l] = a[k]
  BY <1>1, <1>2, Zenon DEF EntriesOf
<1>4. ~(l < k)
  <2> SUFFICES ASSUME l < k PROVE FALSE
    OBVIOUS
  <2>1. l \in 1 .. k - 1 /\ l \in 1 .. m
    BY <1>1
  <2>2. a[l] = a[k]
    BY <1>3, <2>1
  <2>3. a[l].id < a[k].id
    BY <1>1, <2>1 DEF Ascending
  <2> QED BY <1>1, <2>1, <2>2, <2>3
<1> QED BY <1>1, <1>3, <1>4

\* Ascending lists of the same entries are the same list.
LEMMA AscendingIsOne ==
    ASSUME NEW a, NEW m, Listed(a, m), Ascending(a), NEW b, NEW n, Listed(b, n), Ascending(b),
           EntriesOf(a) = EntriesOf(b)
    PROVE  a = b
<1>1. /\ DOMAIN a = 1 .. m /\ m \in Nat /\ DOMAIN b = 1 .. n /\ n \in Nat
      /\ (\A i \in 1 .. m : a[i].id \in Nat) /\ \A i \in 1 .. n : b[i].id \in Nat
  BY ListedIds
<1> DEFINE D == {k \in Nat \ {0} : ~(k \in 1 .. m /\ k \in 1 .. n /\ a[k] = b[k])}
<1>2. m + 1 \in D
  BY <1>1
<1>3. PICK k \in D : \A j \in D : k <= j
  <2>1. D \in SUBSET Nat /\ D # {}
    BY <1>2
  <2> HIDE DEF D
  <2> QED BY <2>1, LeastOfNat
<1>4. \A i \in 1 .. k - 1 : i \in 1 .. m /\ i \in 1 .. n /\ a[i] = b[i]
  BY <1>3
<1>5. k \in Nat \ {0} /\ ~(k \in 1 .. m /\ k \in 1 .. n /\ a[k] = b[k])
  BY <1>3
<1> HIDE DEF D
<1>6. CASE k \in 1 .. m
  <2>1. PICK l \in k .. n : b[l] = a[k]
    BY <1>4, <1>6, AscendingAgree
  <2>2. k \in 1 .. n
    BY <1>1, <1>5
  <2>3. PICK p \in k .. m : a[p] = b[k]
    <3>1. \A i \in 1 .. k - 1 : i \in 1 .. m /\ b[i] = a[i]
      BY <1>4
    <3> QED BY <2>2, <3>1, AscendingAgree
  <2>4. l # k /\ p # k
    BY <1>5, <1>6, <2>1, <2>2, <2>3
  <2>5. k < l /\ l \in 1 .. n /\ k < p /\ p \in 1 .. m
    BY <1>1, <1>5, <2>1, <2>3, <2>4
  <2>6. b[k].id < b[l].id /\ a[k].id < a[p].id
    BY <1>1, <1>6, <2>2, <2>5 DEF Ascending
  <2> QED BY <1>1, <1>6, <2>1, <2>2, <2>3, <2>6
<1>7. CASE k \notin 1 .. m /\ k \in 1 .. n
  <2>1. \A i \in 1 .. k - 1 : i \in 1 .. m /\ b[i] = a[i]
    BY <1>4
  <2>2. PICK p \in k .. m : a[p] = b[k]
    BY <1>7, <2>1, AscendingAgree
  <2> QED BY <1>1, <1>5, <1>7, <2>2
<1>8. CASE k \notin 1 .. m /\ k \notin 1 .. n
  <2>1. m = k - 1 /\ n = k - 1
    <3>1. k - 1 = 0 \/ k - 1 \in 1 .. k - 1
      BY <1>5
    <3> QED BY <1>1, <1>4, <1>5, <1>8, <3>1
  <2>2. \A i \in 1 .. m : a[i] = b[i]
    BY <1>4, <2>1
  <2>3. a \in [1 .. m -> Entries] /\ b \in [1 .. m -> Entries]
    BY <2>1 DEF Listed
  <2>4. a = [i \in 1 .. m |-> a[i]] /\ b = [i \in 1 .. m |-> b[i]]
    BY <2>3
  <2> QED BY <2>2, <2>4
<1> QED BY <1>6, <1>7, <1>8

\* An ascending list has no duplicate and is sorted already.
LEMMA SortedOnce ==
    ASSUME NEW s, NEW n, Listed(s, n), Ascending(s)
    PROVE  ~HasDuplicate(s) /\ SortedById(s) = s
<1>1. DOMAIN s = 1 .. n /\ n \in Nat /\ \A i \in 1 .. n : s[i].id \in Nat
  BY ListedIds
<1>2. ~HasDuplicate(s)
  BY <1>1 DEF HasDuplicate, Ascending
<1>3. Listed(SortedById(s), n) /\ Ascending(SortedById(s)) /\ EntriesOf(SortedById(s)) = EntriesOf(s)
  BY <1>2, SortIs
<1> QED BY <1>2, <1>3, AscendingIsOne
-----------------------------------------------------------------------------
(***************************************************************************)
(* Catalog: the Merkle tree.  A level of different nodes is known from the *)
(* level above it, although the last node of an odd one is hashed with     *)
(* itself; trees of different height have no node in common.               *)
(***************************************************************************)
Level(l, m) == m \in Nat \ {0} /\ l = [i \in 1 .. m |-> l[i]] /\ Len(l) = m
Unlike(l) == \A i, j \in DOMAIN l : l[i] = l[j] => i = j
NodePair(l, m, i) == <<l[2 * i - 1], l[IF 2 * i <= m THEN 2 * i ELSE 2 * i - 1]>>

\* A function on 1 .. m is a level of m nodes.
LEMMA LevelOf ==
    ASSUME NEW m \in Nat \ {0}, NEW l, l = [i \in 1 .. m |-> l[i]] PROVE Level(l, m)
<1> DEFINE V == {l[i] : i \in 1 .. m}
<1>1. \A i \in 1 .. m : l[i] \in V
  OBVIOUS
<1> HIDE DEF V
<1>2. l \in [1 .. m -> V]
  BY <1>1
<1>3. Len(l) = m
  BY <1>2
<1> QED BY <1>3 DEF Level

\* Half of a number, rounded up.
LEMMA HalfIs ==
    ASSUME NEW m \in Nat \ {0}, NEW h, h = (m + 1) \div 2
    PROVE  h \in Nat \ {0} /\ (2 * h = m \/ 2 * h = m + 1)
OBVIOUS

\* The level above.
LEMMA PairedIs ==
    ASSUME NEW l, NEW m, Level(l, m), NEW h, h = (m + 1) \div 2
    PROVE  Level(Paired(l), h) /\ \A i \in 1 .. h : Paired(l)[i] = NodePair(l, m, i)
<1>1. m \in Nat \ {0} /\ Len(l) = m
  BY DEF Level
<1>2. h \in Nat \ {0}
  BY <1>1, HalfIs
<1> DEFINE q == Paired(l)
<1>3. q = [i \in 1 .. h |-> NodePair(l, m, i)]
  BY <1>1, Zenon DEF Paired, NodePair
<1> HIDE DEF q
<1>4. DOMAIN q = 1 .. h /\ \A i \in 1 .. h : q[i] = NodePair(l, m, i)
  BY <1>3
<1>5. q = [i \in 1 .. h |-> q[i]]
  BY <1>3, <1>4
<1>6. Level(q, h)
  BY <1>2, <1>5, LevelOf
<1> QED BY <1>4, <1>6 DEF q

\* The parts of a pair.
LEMMA PairParts ==
    ASSUME NEW l, NEW m, NEW i
    PROVE  /\ NodePair(l, m, i)[1] = l[2 * i - 1]
           /\ NodePair(l, m, i)[2] = l[IF 2 * i <= m THEN 2 * i ELSE 2 * i - 1]
BY DEF NodePair

\* Nodes of different pairs differ.
LEMMA PairedUnlike ==
    ASSUME NEW l, NEW m, Level(l, m), Unlike(l) PROVE Unlike(Paired(l))
<1> PICK h : h = (m + 1) \div 2
  OBVIOUS
<1>1. m \in Nat \ {0} /\ DOMAIN l = 1 .. m
  BY DEF Level
<1>2. h \in Nat \ {0} /\ (2 * h = m \/ 2 * h = m + 1)
  BY <1>1, HalfIs
<1>3. Level(Paired(l), h) /\ \A i \in 1 .. h : Paired(l)[i] = NodePair(l, m, i)
  BY PairedIs
<1>4. DOMAIN Paired(l) = 1 .. h
  BY <1>3 DEF Level
<1>5. ASSUME NEW i \in 1 .. h, NEW j \in 1 .. h, Paired(l)[i] = Paired(l)[j] PROVE i = j
  <2>1. l[2 * i - 1] = l[2 * j - 1]
    <3>1. NodePair(l, m, i) = NodePair(l, m, j)
      BY <1>3, <1>5
    <3>2. NodePair(l, m, i)[1] = NodePair(l, m, j)[1]
      BY <3>1
    <3> QED BY <3>2, PairParts
  <2>2. 2 * i - 1 \in 1 .. m /\ 2 * j - 1 \in 1 .. m
    BY <1>1, <1>2
  <2>3. 2 * i - 1 = 2 * j - 1
    BY <1>1, <2>1, <2>2 DEF Unlike
  <2> QED BY <1>2, <2>3
<1> QED BY <1>4, <1>5 DEF Unlike

\* A level whose pairs are known has no more nodes than another of the same pairs.
LEMMA PairedNodes ==
    ASSUME NEW a, NEW m, Level(a, m), Unlike(a), NEW b, NEW n, Level(b, n), Paired(a) = Paired(b),
           NEW k \in 1 .. m
    PROVE  k \in 1 .. n /\ a[k] = b[k]
<1> PICK h : h = (m + 1) \div 2
  OBVIOUS
<1> PICK g : g = (n + 1) \div 2
  OBVIOUS
<1>1. m \in Nat \ {0} /\ n \in Nat \ {0} /\ DOMAIN a = 1 .. m /\ DOMAIN b = 1 .. n
  BY DEF Level
<1>2. /\ h \in Nat \ {0} /\ (2 * h = m \/ 2 * h = m + 1)
      /\ g \in Nat \ {0} /\ (2 * g = n \/ 2 * g = n + 1)
  BY <1>1, HalfIs
<1>3. /\ Level(Paired(a), h) /\ \A i \in 1 .. h : Paired(a)[i] = NodePair(a, m, i)
      /\ Level(Paired(b), g) /\ \A i \in 1 .. g : Paired(b)[i] = NodePair(b, n, i)
  BY PairedIs
<1>4. h = g
  BY <1>3 DEF Level
<1>5. ASSUME NEW i \in 1 .. h
      PROVE  /\ a[2 * i - 1] = b[2 * i - 1]
             /\ a[IF 2 * i <= m THEN 2 * i ELSE 2 * i - 1] = b[IF 2 * i <= n THEN 2 * i ELSE 2 * i - 1]
  <2>1. NodePair(a, m, i) = NodePair(b, n, i)
    BY <1>3, <1>4
  <2>2. NodePair(a, m, i)[1] = NodePair(b, n, i)[1] /\ NodePair(a, m, i)[2] = NodePair(b, n, i)[2]
    BY <2>1
  <2> QED BY <2>2, PairParts
<1>6. PICK i \in 1 .. h : k = 2 * i - 1 \/ k = 2 * i
  <2> PICK i : i = (k + 1) \div 2
    OBVIOUS
  <2>1. k \in Nat \ {0}
    BY <1>1
  <2>2. i \in Nat \ {0} /\ (2 * i = k \/ 2 * i = k + 1)
    BY <2>1, HalfIs
  <2> QED BY <1>1, <1>2, <2>1, <2>2
<1>7. CASE k = 2 * i - 1
  BY <1>1, <1>2, <1>4, <1>5, <1>7
<1>8. CASE k = 2 * i
  <2>1. 2 * i <= m /\ 2 * i - 1 \in 1 .. m /\ 2 * i \in 1 .. m /\ 2 * i # 2 * i - 1
    BY <1>1, <1>2, <1>8
  <2>2. CASE 2 * i <= n
    BY <1>1, <1>2, <1>5, <1>8, <2>1, <2>2
  <2>3. CASE ~(2 * i <= n)
    <3>1. a[2 * i] = b[2 * i - 1] /\ a[2 * i - 1] = b[2 * i - 1]
      BY <1>5, <2>1, <2>3
    <3> QED BY <1>1, <2>1, <3>1 DEF Unlike
  <2> QED BY <2>2, <2>3
<1> QED BY <1>6, <1>7, <1>8

\* Two levels of the tree with the same nodes are the same level.
LEMMA LevelsEqual ==
    ASSUME NEW a, NEW m, Level(a, m), NEW b, NEW n, Level(b, n),
           \A k \in 1 .. m : k \in 1 .. n /\ a[k] = b[k], \A k \in 1 .. n : k \in 1 .. m
    PROVE  a = b
<1>1. m \in Nat \ {0} /\ n \in Nat \ {0} /\ a = [i \in 1 .. m |-> a[i]] /\ b = [i \in 1 .. n |-> b[i]]
  BY DEF Level
<1>2. m = n
  <2>1. m \in 1 .. m /\ n \in 1 .. n
    BY <1>1
  <2>2. m \in 1 .. n /\ n \in 1 .. m
    BY <2>1
  <2> QED BY <1>1, <2>2
<1> QED BY <1>1, <1>2

\* Hashing pair by pair keeps different levels apart, when no level repeats a node.
LEMMA PairedInjective ==
    ASSUME NEW a, NEW m, Level(a, m), Unlike(a), NEW b, NEW n, Level(b, n), Unlike(b), Paired(a) = Paired(b)
    PROVE  a = b
<1>1. \A k \in 1 .. m : k \in 1 .. n /\ a[k] = b[k]
  BY PairedNodes
<1>2. \A k \in 1 .. n : k \in 1 .. m
  BY PairedNodes
<1> QED BY <1>1, <1>2, LevelsEqual

\* The loop of _merkle_root: every level is the pairs of the one below it.
Climbs(f, leaves, n) ==
    DOMAIN f = 0 .. n /\ f[0] = leaves /\ \A i \in 1 .. n : f[i] = Shorter(f[i - 1])

\* The levels of the tree above any leaves exist.
LEMMA TreeGrows == ASSUME NEW leaves, NEW n \in Nat PROVE \E f : Climbs(f, leaves, n)
<1> DEFINE S == {m \in Nat : \E f : Climbs(f, leaves, m)}
<1>1. 0 \in S
  <2> PICK f : f = [i \in 0 .. 0 |-> leaves]
    OBVIOUS
  <2>1. Climbs(f, leaves, 0)
    BY DEF Climbs
  <2> QED BY <2>1
<1>2. ASSUME NEW m \in S PROVE m + 1 \in S
  <2>1. PICK f : Climbs(f, leaves, m)
    OBVIOUS
  <2>2. m \in Nat
    OBVIOUS
  <2> DEFINE g == [i \in 0 .. m + 1 |-> IF i = m + 1 THEN Shorter(f[m]) ELSE f[i]]
  <2>3. DOMAIN g = 0 .. m + 1 /\ g[m + 1] = Shorter(f[m]) /\ \A i \in 0 .. m : g[i] = f[i]
    BY <2>2
  <2> HIDE DEF g
  <2>4. ASSUME NEW i \in 1 .. m + 1 PROVE g[i] = Shorter(g[i - 1])
    <3>1. CASE i = m + 1
      <4>1. g[m] = f[m] /\ i - 1 = m
        BY <2>2, <2>3, <3>1
      <4> QED BY <2>3, <3>1, <4>1
    <3>2. CASE i # m + 1
      <4>1. i \in 1 .. m /\ i \in 0 .. m /\ i - 1 \in 0 .. m
        BY <2>2, <3>2
      <4>2. g[i] = f[i] /\ g[i - 1] = f[i - 1]
        BY <2>3, <4>1
      <4>3. f[i] = Shorter(f[i - 1])
        BY <2>1, <4>1 DEF Climbs
      <4> QED BY <4>2, <4>3
    <3> QED BY <3>1, <3>2
  <2>5. g[0] = leaves
    BY <2>1, <2>2, <2>3 DEF Climbs
  <2>6. Climbs(g, leaves, m + 1)
    BY <2>3, <2>4, <2>5 DEF Climbs
  <2> QED BY <2>2, <2>6
<1> HIDE DEF S
<1>3. S = Nat
  <2>1. S \in SUBSET Nat
    BY DEF S
  <2> QED BY <1>1, <1>2, <2>1, Induction
<1> QED BY <1>3 DEF S

\* The root is read off the last of those levels.
LEMMA TopLevelIs ==
    ASSUME NEW leaves PROVE \E f : Climbs(f, leaves, MaxEntries) /\ TopLevel(leaves) = f[MaxEntries]
<1>1. MaxEntries \in Nat
  BY CatalogAssumption
<1> DEFINE Is(f) == f = [n \in 0 .. MaxEntries |-> IF n = 0 THEN leaves ELSE Shorter(f[n - 1])]
<1>2. PICK h : Climbs(h, leaves, MaxEntries)
  BY <1>1, TreeGrows
<1> DEFINE k == [n \in 0 .. MaxEntries |-> h[n]]
<1>3. DOMAIN k = 0 .. MaxEntries /\ \A n \in 0 .. MaxEntries : k[n] = h[n]
  OBVIOUS
<1>4. \A n \in 0 .. MaxEntries : k[n] = IF n = 0 THEN leaves ELSE Shorter(k[n - 1])
  <2> SUFFICES ASSUME NEW n \in 0 .. MaxEntries PROVE k[n] = IF n = 0 THEN leaves ELSE Shorter(k[n - 1])
    OBVIOUS
  <2> HIDE DEF k
  <2>1. CASE n = 0
    BY <1>2, <1>3, <2>1 DEF Climbs
  <2>2. CASE n # 0
    <3>1. n \in 1 .. MaxEntries /\ n - 1 \in 0 .. MaxEntries
      BY <1>1, <2>2
    <3>2. k[n] = h[n] /\ k[n - 1] = h[n - 1]
      BY <1>3, <3>1
    <3>3. h[n] = Shorter(h[n - 1])
      BY <1>2, <3>1 DEF Climbs
    <3> QED BY <2>2, <3>2, <3>3
  <2> QED BY <2>1, <2>2
<1>5. k = [n \in 0 .. MaxEntries |-> k[n]]
  OBVIOUS
<1> HIDE DEF k
<1>6. Is(k)
  BY <1>4, <1>5, Zenon
<1>7. PICK f : Is(f) /\ TopLevel(leaves) = f[MaxEntries]
  <2>1. Is(CHOOSE f : Is(f))
    BY <1>6, Zenon
  <2> QED BY <2>1, Zenon DEF TopLevel
<1>8. DOMAIN f = 0 .. MaxEntries /\ f[0] = leaves
  BY <1>1, <1>7
<1>9. ASSUME NEW i \in 1 .. MaxEntries PROVE f[i] = Shorter(f[i - 1])
  BY <1>1, <1>7
<1> QED BY <1>7, <1>8, <1>9 DEF Climbs

\* The nodes of every height: leaves, and pairs of nodes one lower.
Heights(N, n) ==
    /\ DOMAIN N = 0 .. n /\ N[0] = {<<e>> : e \in Entries}
    /\ \A i \in 1 .. n : N[i] = N[i - 1] \X N[i - 1]

\* So do the numbers of nodes on them.
LEMMA HeightsExist == ASSUME NEW n \in Nat PROVE \E N : Heights(N, n)
<1> DEFINE S == {m \in Nat : \E N : Heights(N, m)}
<1>1. 0 \in S
  <2> PICK N : N = [i \in 0 .. 0 |-> {<<e>> : e \in Entries}]
    OBVIOUS
  <2>1. Heights(N, 0)
    BY DEF Heights
  <2> QED BY <2>1
<1>2. ASSUME NEW m \in S PROVE m + 1 \in S
  <2>1. PICK N : Heights(N, m)
    OBVIOUS
  <2>2. m \in Nat
    OBVIOUS
  <2> DEFINE g == [i \in 0 .. m + 1 |-> IF i = m + 1 THEN N[m] \X N[m] ELSE N[i]]
  <2>3. DOMAIN g = 0 .. m + 1 /\ g[m + 1] = N[m] \X N[m] /\ \A i \in 0 .. m : g[i] = N[i]
    BY <2>2
  <2> HIDE DEF g
  <2>4. ASSUME NEW i \in 1 .. m + 1 PROVE g[i] = g[i - 1] \X g[i - 1]
    <3>1. CASE i = m + 1
      <4>1. g[m] = N[m] /\ i - 1 = m
        BY <2>2, <2>3, <3>1
      <4> QED BY <2>3, <3>1, <4>1
    <3>2. CASE i # m + 1
      <4>1. i \in 1 .. m /\ i \in 0 .. m /\ i - 1 \in 0 .. m
        BY <2>2, <3>2
      <4>2. g[i] = N[i] /\ g[i - 1] = N[i - 1]
        BY <2>3, <4>1
      <4>3. N[i] = N[i - 1] \X N[i - 1]
        BY <2>1, <4>1 DEF Heights
      <4> QED BY <4>2, <4>3
    <3> QED BY <3>1, <3>2
  <2>5. g[0] = {<<e>> : e \in Entries}
    <3>1. g[0] = N[0]
      BY <2>2, <2>3
    <3>2. N[0] = {<<e>> : e \in Entries}
      BY <2>1, Zenon DEF Heights
    <3> QED BY <3>1, <3>2, Zenon
  <2>6. Heights(g, m + 1)
    BY <2>3, <2>4, <2>5, Zenon DEF Heights
  <2> QED BY <2>2, <2>6
<1> HIDE DEF S
<1>3. S = Nat
  <2>1. S \in SUBSET Nat
    BY DEF S
  <2> QED BY <1>1, <1>2, <2>1, Induction
<1> QED BY <1>3 DEF S

\* A leaf is no pair.
LEMMA LeafIsNoPair == ASSUME NEW e, NEW x, NEW y PROVE <<e>> # <<x, y>>
<1>1. Len(<<e>>) = 1 /\ Len(<<x, y>>) = 2
  OBVIOUS
<1> QED BY <1>1

\* Trees of different height have nothing in common.
LEMMA HeightsApart ==
    ASSUME NEW n \in Nat, NEW N, Heights(N, n), NEW i \in 0 .. n, NEW j \in 0 .. n, i < j
    PROVE  N[i] \cap N[j] = {}
<1> DEFINE S == {k \in 0 .. n : \A l \in 0 .. n : k < l => N[k] \cap N[l] = {}}
<1>1. 0 \in S
  <2> SUFFICES ASSUME NEW l \in 0 .. n, 0 < l, NEW x, x \in N[0], x \in N[l] PROVE FALSE
    OBVIOUS
  <2>1. PICK e \in Entries : x = <<e>>
    <3>1. N[0] = {<<d>> : d \in Entries}
      BY Zenon DEF Heights
    <3> QED BY <3>1, Zenon
  <2>2. N[l] = N[l - 1] \X N[l - 1]
    <3>1. l \in 1 .. n
      OBVIOUS
    <3> QED BY <3>1 DEF Heights
  <2>3. PICK y, z : x = <<y, z>>
    BY <2>2
  <2> QED BY <2>1, <2>3, LeafIsNoPair
<1>2. ASSUME NEW k \in 0 .. n - 1, k \in S PROVE k + 1 \in S
  <2> SUFFICES ASSUME NEW l \in 0 .. n, k + 1 < l, NEW x, x \in N[k + 1], x \in N[l] PROVE FALSE
    OBVIOUS
  <2>1. /\ k + 1 \in 1 .. n /\ l \in 1 .. n /\ k + 1 - 1 = k /\ l - 1 \in 0 .. n /\ k < l - 1
    OBVIOUS
  <2>2. N[k + 1] = N[k] \X N[k] /\ N[l] = N[l - 1] \X N[l - 1]
    <3>1. N[k + 1] = N[k + 1 - 1] \X N[k + 1 - 1] /\ N[l] = N[l - 1] \X N[l - 1]
      BY <2>1 DEF Heights
    <3> QED BY <2>1, <3>1
  <2>3. N[k] \cap N[l - 1] = {}
    BY <1>2, <2>1
  <2>4. x[1] \in N[k] /\ x[1] \in N[l - 1]
    BY <2>2
  <2> QED BY <2>3, <2>4
<1> HIDE DEF S
<1>3. i \in S
  BY <1>1, <1>2, InductionUpTo
<1> QED BY <1>3 DEF S

\* What is known of the level at height i of a tree over p leaves: its nodes differ,
\* it is shorter by one at least for every level, and all have one height, which is
\* the level's own as long as there is something to pair.
LevelFacts(l, i, p, N) ==
    \E m : /\ Level(l, m) /\ Unlike(l) /\ (m = 1 \/ m + i <= p)
           /\ \E h \in 0 .. i : (m > 1 => h = i) /\ \A j \in 1 .. m : l[j] \in N[h]

\* One level up keeps the facts about a level.
LEMMA ShorterFacts ==
    ASSUME NEW n \in Nat, NEW N, Heights(N, n), NEW i \in 0 .. n - 1, NEW p \in Nat, NEW l, LevelFacts(l, i, p, N)
    PROVE  LevelFacts(Shorter(l), i + 1, p, N)
<1>1. PICK m : /\ Level(l, m) /\ Unlike(l) /\ (m = 1 \/ m + i <= p)
               /\ \E h \in 0 .. i : (m > 1 => h = i) /\ \A j \in 1 .. m : l[j] \in N[h]
  BY Zenon DEF LevelFacts
<1>2. PICK h \in 0 .. i : (m > 1 => h = i) /\ \A j \in 1 .. m : l[j] \in N[h]
  BY <1>1
<1>3. m \in Nat \ {0} /\ Len(l) = m
  BY <1>1 DEF Level
<1>4. CASE m > 1
  <2>1. Shorter(l) = Paired(l)
    BY <1>3, <1>4 DEF Shorter
  <2> PICK g : g = (m + 1) \div 2
    OBVIOUS
  <2>2. g \in Nat \ {0} /\ (2 * g = m \/ 2 * g = m + 1)
    BY <1>3, HalfIs
  <2>3. Level(Paired(l), g) /\ \A j \in 1 .. g : Paired(l)[j] = NodePair(l, m, j)
    BY <1>1, PairedIs
  <2>4. Unlike(Paired(l))
    BY <1>1, PairedUnlike
  <2>5. g = 1 \/ g + (i + 1) <= p
    <3>1. m # 1 /\ m \in Nat /\ i \in Nat
      BY <1>3, <1>4
    <3>2. m + i <= p
      BY <1>1, <3>1
    <3>3. g = 1 \/ g + 1 <= m
      BY <1>4, <2>2, <3>1
    <3>4. g \in Nat /\ p \in Nat
      BY <2>2
    <3> QED BY <3>1, <3>2, <3>3, <3>4
  <2>6. \A j \in 1 .. g : Paired(l)[j] \in N[i + 1]
    <3> SUFFICES ASSUME NEW j \in 1 .. g PROVE Paired(l)[j] \in N[i + 1]
      OBVIOUS
    <3>1. N[i + 1] = N[i] \X N[i]
      <4>1. i + 1 \in 1 .. n /\ (i + 1) - 1 = i
        OBVIOUS
      <4>0. \A k \in 1 .. n : N[k] = N[k - 1] \X N[k - 1]
        BY Zenon DEF Heights
      <4>2. N[i + 1] = N[(i + 1) - 1] \X N[(i + 1) - 1]
        BY <4>0, <4>1, Zenon
      <4> QED BY <4>1, <4>2
    <3> PICK q : q = IF 2 * j <= m THEN 2 * j ELSE 2 * j - 1
      OBVIOUS
    <3>2. 2 * j - 1 \in 1 .. m /\ q \in 1 .. m
      BY <1>3, <2>2
    <3>3. l[2 * j - 1] \in N[i] /\ l[q] \in N[i]
      BY <1>2, <1>4, <3>2
    <3>4. Paired(l)[j] = <<l[2 * j - 1], l[q]>>
      BY <2>3 DEF NodePair
    <3> QED BY <3>1, <3>3, <3>4
  <2>7. i + 1 \in 0 .. i + 1
    OBVIOUS
  <2>8. \E k \in 0 .. i + 1 : (g > 1 => k = i + 1) /\ \A j \in 1 .. g : Paired(l)[j] \in N[k]
    BY <2>6, <2>7
  <2>9. LevelFacts(Paired(l), i + 1, p, N)
    BY <2>3, <2>4, <2>5, <2>8, Zenon DEF LevelFacts
  <2> QED BY <2>1, <2>9
<1>5. CASE m = 1
  <2>1. Shorter(l) = l
    BY <1>3, <1>5 DEF Shorter
  <2>2. h \in 0 .. i + 1 /\ ~(m > 1)
    BY <1>5
  <2>3. \E k \in 0 .. i + 1 : (m > 1 => k = i + 1) /\ \A j \in 1 .. m : l[j] \in N[k]
    BY <1>2, <2>2
  <2>4. LevelFacts(l, i + 1, p, N)
    BY <1>1, <1>5, <2>3, Zenon DEF LevelFacts
  <2> QED BY <2>1, <2>4
<1> QED BY <1>3, <1>4, <1>5

\* They hold of every level above the leaves.
LEMMA TreeFacts ==
    ASSUME NEW n \in Nat, NEW N, Heights(N, n), NEW p \in Nat, NEW leaves, LevelFacts(leaves, 0, p, N),
           NEW f, Climbs(f, leaves, n)
    PROVE  \A i \in 0 .. n : LevelFacts(f[i], i, p, N)
<1> DEFINE S == {i \in 0 .. n : LevelFacts(f[i], i, p, N)}
<1>1. 0 \in S
  BY DEF Climbs
<1>2. ASSUME NEW i \in 0 .. n - 1, i \in S PROVE i + 1 \in S
  <2>1. LevelFacts(f[i], i, p, N)
    BY <1>2
  <2>2. LevelFacts(Shorter(f[i]), i + 1, p, N)
    BY <2>1, ShorterFacts
  <2>3. f[i + 1] = Shorter(f[i])
    <3>1. i + 1 \in 1 .. n /\ i + 1 - 1 = i
      OBVIOUS
    <3>2. f[i + 1] = Shorter(f[i + 1 - 1])
      BY <3>1 DEF Climbs
    <3> QED BY <3>1, <3>2
  <2> QED BY <2>2, <2>3
<1> HIDE DEF S
<1>3. \A i \in 0 .. n : i \in S
  BY <1>1, <1>2, InductionUpTo
<1> QED BY <1>3 DEF S

\* One step down: levels whose next levels are one were one already.
LEMMA StepDown ==
    ASSUME NEW n \in Nat, NEW N, Heights(N, n), NEW i \in 0 .. n - 1, NEW p \in Nat, NEW a, LevelFacts(a, i, p, N),
           NEW q \in Nat, NEW b, LevelFacts(b, i, q, N), Shorter(a) = Shorter(b)
    PROVE  a = b
<1>1. PICK m : /\ Level(a, m) /\ Unlike(a)
               /\ \E h \in 0 .. i : (m > 1 => h = i) /\ \A j \in 1 .. m : a[j] \in N[h]
  BY Zenon DEF LevelFacts
<1>2. PICK k : /\ Level(b, k) /\ Unlike(b)
               /\ \E h \in 0 .. i : (k > 1 => h = i) /\ \A j \in 1 .. k : b[j] \in N[h]
  BY Zenon DEF LevelFacts
<1>3. m \in Nat \ {0} /\ Len(a) = m /\ k \in Nat \ {0} /\ Len(b) = k
  BY <1>1, <1>2 DEF Level
<1>4. CASE m > 1 /\ k > 1
  BY <1>1, <1>2, <1>3, <1>4, PairedInjective DEF Shorter
<1>5. CASE m = 1 /\ k = 1
  BY <1>3, <1>5 DEF Shorter
<1>6. ASSUME NEW x, NEW y, NEW u, NEW v, Level(x, u), u > 1, \A j \in 1 .. u : x[j] \in N[i],
             Level(y, v), v = 1, \E h \in 0 .. i : y[1] \in N[h], Shorter(x) = Shorter(y)
      PROVE  FALSE
  <2>1. u \in Nat \ {0} /\ Len(x) = u /\ Len(y) = 1
    BY <1>6 DEF Level
  <2>2. Paired(x) = y
    BY <1>6, <2>1 DEF Shorter
  <2> PICK g : g = (u + 1) \div 2
    OBVIOUS
  <2>3. g \in Nat \ {0} /\ (2 * g = u \/ 2 * g = u + 1)
    BY <2>1, HalfIs
  <2>4. Level(Paired(x), g) /\ \A j \in 1 .. g : Paired(x)[j] = NodePair(x, u, j)
    BY <1>6, PairedIs
  <2>5. y[1] = NodePair(x, u, 1)
    BY <2>2, <2>3, <2>4
  <2>6. u >= 2
    BY <1>6, <2>1
  <2>7. y[1] = <<x[1], x[2]>>
    <3>1. 2 * 1 - 1 = 1 /\ 2 * 1 = 2 /\ 2 * 1 <= u
      BY <2>6
    <3> QED BY <2>5, <3>1 DEF NodePair
  <2>8. x[1] \in N[i] /\ x[2] \in N[i]
    <3>1. 1 \in 1 .. u /\ 2 \in 1 .. u
      BY <2>1, <2>6
    <3> QED BY <1>6, <3>1
  <2>9. N[i + 1] = N[i] \X N[i]
    <3>1. i + 1 \in 1 .. n /\ i + 1 - 1 = i
      OBVIOUS
    <3>2. N[i + 1] = N[i + 1 - 1] \X N[i + 1 - 1]
      BY <3>1 DEF Heights
    <3> QED BY <3>1, <3>2
  <2>10. y[1] \in N[i + 1]
    BY <2>7, <2>8, <2>9
  <2>11. PICK h \in 0 .. i : y[1] \in N[h]
    BY <1>6
  <2>12. h \in 0 .. n /\ i + 1 \in 0 .. n /\ h < i + 1
    OBVIOUS
  <2>13. N[h] \cap N[i + 1] = {}
    BY <2>12, HeightsApart
  <2> QED BY <2>10, <2>11, <2>13
<1>7. CASE m > 1 /\ k = 1
  <2>1. \A j \in 1 .. m : a[j] \in N[i]
    BY <1>1, <1>7
  <2>2. \E h \in 0 .. i : b[1] \in N[h]
    BY <1>2, <1>7
  <2> QED BY <1>1, <1>2, <1>6, <1>7, <2>1, <2>2
<1>8. CASE m = 1 /\ k > 1
  <2>1. \A j \in 1 .. k : b[j] \in N[i]
    BY <1>2, <1>8
  <2>2. \E h \in 0 .. i : a[1] \in N[h]
    BY <1>1, <1>8
  <2>3. Shorter(b) = Shorter(a)
    OBVIOUS
  <2> QED BY <1>1, <1>2, <1>6, <1>8, <2>1, <2>2, <2>3
<1>9. (m > 1 \/ m = 1) /\ (k > 1 \/ k = 1)
  BY <1>3
<1> QED BY <1>4, <1>5, <1>7, <1>8, <1>9

\* Trees with one root have the same leaves.
LEMMA RootTellsLeaves ==
    ASSUME NEW n \in Nat, NEW N, Heights(N, n), NEW p \in 0 .. n, NEW la, LevelFacts(la, 0, p, N), NEW a, Climbs(a, la, n),
           NEW q \in 0 .. n, NEW lb, LevelFacts(lb, 0, q, N), NEW b, Climbs(b, lb, n), a[n][1] = b[n][1]
    PROVE  la = lb
<1>1. p \in Nat /\ q \in Nat
  OBVIOUS
<1>2. \A i \in 0 .. n : LevelFacts(a[i], i, p, N) /\ LevelFacts(b[i], i, q, N)
  BY <1>1, TreeFacts
<1>3. a[n] = b[n]
  <2>1. LevelFacts(a[n], n, p, N) /\ LevelFacts(b[n], n, q, N)
    BY <1>2
  <2>2. PICK m : Level(a[n], m) /\ (m = 1 \/ m + n <= p)
    BY <2>1, Zenon DEF LevelFacts
  <2>3. PICK k : Level(b[n], k) /\ (k = 1 \/ k + n <= q)
    BY <2>1, Zenon DEF LevelFacts
  <2>4. m \in Nat \ {0} /\ k \in Nat \ {0}
    BY <2>2, <2>3 DEF Level
  <2>5. m = 1 /\ k = 1
    BY <2>2, <2>3, <2>4
  <2>6. Level(a[n], 1) /\ Level(b[n], 1)
    BY <2>2, <2>3, <2>5
  <2>7. \A j \in 1 .. 1 : j \in 1 .. 1 /\ a[n][j] = b[n][j]
    OBVIOUS
  <2> QED BY <2>6, <2>7, LevelsEqual
<1> DEFINE S == {i \in 0 .. n : a[n - i] = b[n - i]}
<1>4. 0 \in S
  BY <1>3
<1>5. ASSUME NEW i \in 0 .. n - 1, i \in S PROVE i + 1 \in S
  <2> PICK k : k = n - (i + 1)
    OBVIOUS
  <2>1. k \in 0 .. n - 1 /\ k \in 0 .. n /\ k + 1 = n - i /\ k + 1 \in 1 .. n /\ k + 1 - 1 = k
    OBVIOUS
  <2>2. a[k + 1] = b[k + 1]
    BY <1>5, <2>1
  <2>3. a[k + 1] = Shorter(a[k]) /\ b[k + 1] = Shorter(b[k])
    <3>1. a[k + 1] = Shorter(a[k + 1 - 1]) /\ b[k + 1] = Shorter(b[k + 1 - 1])
      BY <2>1 DEF Climbs
    <3> QED BY <2>1, <3>1
  <2>4. LevelFacts(a[k], k, p, N) /\ LevelFacts(b[k], k, q, N)
    BY <1>2, <2>1
  <2>5. Shorter(a[k]) = Shorter(b[k])
    BY <2>2, <2>3
  <2>6. a[k] = b[k]
    BY <1>1, <2>1, <2>4, <2>5, StepDown
  <2> QED BY <2>1, <2>6
<1> HIDE DEF S
<1>6. n \in S
  BY <1>4, <1>5, InductionUpTo
<1>7. a[0] = b[0]
  BY <1>6 DEF S
<1> QED BY <1>7 DEF Climbs

\* The leaves of a list of entries that are all different.
LEMMA LeavesAre ==
    ASSUME NEW s, NEW n \in Nat \ {0}, Listed(s, n), ~HasDuplicate(s), NEW N, NEW k, Heights(N, k), k \in Nat,
           NEW leaves, leaves = [i \in DOMAIN s |-> <<s[i]>>]
    PROVE  LevelFacts(leaves, 0, n, N)
<1>1. DOMAIN s = 1 .. n /\ \A i \in 1 .. n : s[i] \in Entries
  BY ListedIds
<1>2. DOMAIN leaves = 1 .. n /\ (\A i \in 1 .. n : leaves[i] = <<s[i]>>) /\ leaves = [i \in 1 .. n |-> leaves[i]]
  BY <1>1
<1>3. Level(leaves, n)
  BY <1>2, LevelOf
<1>4. Unlike(leaves)
  <2> SUFFICES ASSUME NEW i \in 1 .. n, NEW j \in 1 .. n, leaves[i] = leaves[j] PROVE i = j
    BY <1>2 DEF Unlike
  <2>1. <<s[i]>> = <<s[j]>>
    BY <1>2
  <2>2. s[i] = s[j]
    BY <2>1
  <2> QED BY <1>1, <2>2 DEF HasDuplicate
<1>5. \A j \in 1 .. n : leaves[j] \in N[0]
  <2>1. N[0] = {<<e>> : e \in Entries}
    BY Zenon DEF Heights
  <2> QED BY <1>1, <1>2, <2>1
<1>6. 0 \in 0 .. 0 /\ n + 0 <= n
  OBVIOUS
<1>7. \E h \in 0 .. 0 : (n > 1 => h = 0) /\ \A j \in 1 .. n : leaves[j] \in N[h]
  BY <1>5, <1>6
<1> QED BY <1>3, <1>4, <1>6, <1>7, Zenon DEF LevelFacts

\* Different lists have different roots.
LEMMA RootTellsEntries ==
    ASSUME NEW a, NEW m \in 0 .. MaxEntries, Listed(a, m), ~HasDuplicate(a),
           NEW b, NEW n \in 0 .. MaxEntries, Listed(b, n), ~HasDuplicate(b), MerkleRoot(a) = MerkleRoot(b)
    PROVE  a = b
<1>0. MaxEntries \in Nat
  BY CatalogAssumption
<1>1. DOMAIN a = 1 .. m /\ DOMAIN b = 1 .. n /\ Len(a) = m /\ Len(b) = n
  BY ListedIds
<1>2. PICK N : Heights(N, MaxEntries)
  BY <1>0, HeightsExist
<1> PICK la : la = [i \in DOMAIN a |-> <<a[i]>>]
  OBVIOUS
<1> PICK lb : lb = [i \in DOMAIN b |-> <<b[i]>>]
  OBVIOUS
<1>3. PICK f : Climbs(f, la, MaxEntries) /\ TopLevel(la) = f[MaxEntries]
  BY TopLevelIs
<1>4. PICK g : Climbs(g, lb, MaxEntries) /\ TopLevel(lb) = g[MaxEntries]
  BY TopLevelIs
<1>5. /\ a # <<>> => MerkleRoot(a) = f[MaxEntries][1]
      /\ b # <<>> => MerkleRoot(b) = g[MaxEntries][1]
      /\ a = <<>> => MerkleRoot(a) = <<>>
      /\ b = <<>> => MerkleRoot(b) = <<>>
  BY <1>3, <1>4, Zenon DEF MerkleRoot
<1>6. /\ m # 0 => LevelFacts(la, 0, m, N)
      /\ n # 0 => LevelFacts(lb, 0, n, N)
  BY <1>0, <1>2, LeavesAre
<1>7. (m = 0 <=> a = <<>>) /\ (n = 0 <=> b = <<>>)
  <2>1. a \in Seq(Entries) /\ b \in Seq(Entries)
    BY <1>1 DEF Listed
  <2> QED BY <1>1, <2>1
<1>8. CASE m # 0 /\ n # 0
  <2>1. f[MaxEntries][1] = g[MaxEntries][1]
    BY <1>5, <1>7, <1>8
  <2>2. la = lb
    BY <1>0, <1>2, <1>3, <1>4, <1>6, <1>8, <2>1, RootTellsLeaves
  <2>3. \A i \in 1 .. m : la[i] = <<a[i]>>
    BY <1>1
  <2>4. \A i \in 1 .. n : lb[i] = <<b[i]>>
    BY <1>1
  <2>5. DOMAIN la = 1 .. m /\ DOMAIN lb = 1 .. n
    BY <1>1
  <2>6. m = n
    <3>1. m \in Nat \ {0} /\ n \in Nat \ {0}
      BY <1>8
    <3>2. m \in 1 .. m /\ n \in 1 .. n
      BY <3>1
    <3>3. m \in 1 .. n /\ n \in 1 .. m
      BY <2>2, <2>5, <3>2
    <3> QED BY <3>1, <3>3
  <2>7. ASSUME NEW i \in 1 .. m PROVE a[i] = b[i]
    <3>1. <<a[i]>> = <<b[i]>>
      BY <2>2, <2>3, <2>4, <2>6
    <3> QED BY <3>1
  <2>8. a = [i \in 1 .. m |-> a[i]] /\ b = [i \in 1 .. m |-> b[i]]
    BY <2>6 DEF Listed
  <2> QED BY <2>7, <2>8
<1>9. ASSUME NEW s, NEW k \in 0 .. MaxEntries, k # 0, NEW l, LevelFacts(l, 0, k, N), NEW t, Climbs(t, l, MaxEntries)
      PROVE  t[MaxEntries][1] # <<>>
  <2>1. LevelFacts(t[MaxEntries], MaxEntries, k, N)
    BY <1>0, <1>2, <1>9, TreeFacts
  <2>2. PICK u : /\ Level(t[MaxEntries], u)
                 /\ \E h \in 0 .. MaxEntries : \A j \in 1 .. u : t[MaxEntries][j] \in N[h]
    BY <2>1, Zenon DEF LevelFacts
  <2>3. PICK h \in 0 .. MaxEntries : t[MaxEntries][1] \in N[h]
    <3>1. u \in Nat \ {0}
      BY <2>2 DEF Level
    <3>2. 1 \in 1 .. u
      BY <3>1
    <3> QED BY <2>2, <3>2
  <2>4. N[0] = {<<e>> : e \in Entries}
    BY <1>2, Zenon DEF Heights
  <2>5. h # 0 => N[h] = N[h - 1] \X N[h - 1]
    BY <1>0, <1>2 DEF Heights
  <2>6. CASE h = 0
    <3>1. PICK e : t[MaxEntries][1] = <<e>>
      BY <2>3, <2>4, <2>6
    <3> QED BY <3>1
  <2>7. CASE h # 0
    <3>1. PICK x, y : t[MaxEntries][1] = <<x, y>>
      BY <2>3, <2>5, <2>7
    <3> QED BY <3>1
  <2> QED BY <2>6, <2>7
<1>10. CASE m = 0 /\ n # 0
  BY <1>4, <1>5, <1>6, <1>7, <1>9, <1>10
<1>11. CASE m # 0 /\ n = 0
  BY <1>3, <1>5, <1>6, <1>7, <1>9, <1>11
<1>12. CASE m = 0 /\ n = 0
  BY <1>7, <1>12
<1> QED BY <1>8, <1>10, <1>11, <1>12

-----------------------------------------------------------------------------
(***************************************************************************)
(* Catalog: snapshots and the cache file.                                  *)
(***************************************************************************)
\* A snapshot of the listed entries e: sorted, none twice, digested over locations.
SnapshotFacts(x, e, locations) ==
    /\ \E n \in 0 .. MaxEntries : Listed(e, n)
    /\ Ascending(e) /\ ~HasDuplicate(e)
    /\ x = SnapshotOf(e, locations)

\* What build_snapshot returns is such a snapshot of what it was handed.
LEMMA BuildIs ==
    ASSUME NEW s \in EntryLists, NEW locations, NEW x \in BuildSnapshot(s, locations)
    PROVE  SnapshotFacts(x, SortedById(s), locations)
<1>1. ~HasDuplicate(s) /\ x = SnapshotOf(SortedById(s), locations)
  BY Zenon DEF BuildSnapshot
<1>2. PICK n \in 0 .. MaxEntries : s \in [1 .. n -> Entries]
  BY DEF EntryLists
<1>3. n \in Nat
  BY CatalogAssumption
<1>4. Listed(s, n)
  BY <1>2, <1>3 DEF Listed
<1>5. Listed(SortedById(s), n) /\ Ascending(SortedById(s))
  BY <1>1, <1>4, SortIs
<1>6. ~HasDuplicate(SortedById(s))
  BY <1>5, SortedOnce
<1> QED BY <1>1, <1>5, <1>6, Zenon DEF SnapshotFacts

\* The fields of a snapshot.
LEMMA SnapshotFields ==
    ASSUME NEW e, NEW locations, NEW x, x = SnapshotOf(e, locations)
    PROVE  /\ x.entries = e /\ x.merkle_root = MerkleRoot(e)
           /\ x.snapshot_id = <<e, MerkleRoot(e)>> /\ x.location_state_ref = locations
BY DEF SnapshotOf, LocationRef

SameIdentity(a, b) ==
    LET same == {a.entries[i] : i \in DOMAIN a.entries} = {b.entries[i] : i \in DOMAIN b.entries}
    IN  (a.snapshot_id = b.snapshot_id) = same /\ (a.merkle_root = b.merkle_root) = same

\* Two snapshots have one id, and one root, exactly when their entries are the same.
LEMMA IdentityIs ==
    ASSUME NEW a, NEW d, NEW la, SnapshotFacts(a, d, la), NEW b, NEW e, NEW lb, SnapshotFacts(b, e, lb)
    PROVE  SameIdentity(a, b)
<1>1. PICK m \in 0 .. MaxEntries : Listed(d, m)
  BY Zenon DEF SnapshotFacts
<1>2. PICK n \in 0 .. MaxEntries : Listed(e, n)
  BY Zenon DEF SnapshotFacts
<1>3. Ascending(d) /\ Ascending(e) /\ ~HasDuplicate(d) /\ ~HasDuplicate(e)
  BY Zenon DEF SnapshotFacts
<1>4. a = SnapshotOf(d, la) /\ b = SnapshotOf(e, lb)
  BY Zenon DEF SnapshotFacts
<1>5. /\ a.entries = d /\ a.merkle_root = MerkleRoot(d) /\ a.snapshot_id = <<d, MerkleRoot(d)>>
      /\ b.entries = e /\ b.merkle_root = MerkleRoot(e) /\ b.snapshot_id = <<e, MerkleRoot(e)>>
  BY <1>4, SnapshotFields
<1>6. (EntriesOf(d) = EntriesOf(e)) => d = e
  BY <1>1, <1>2, <1>3, AscendingIsOne
<1>7. (MerkleRoot(d) = MerkleRoot(e)) => d = e
  BY <1>1, <1>2, <1>3, RootTellsEntries
<1>8. (a.snapshot_id = b.snapshot_id) => d = e
  BY <1>5
<1>9. d = e => a.snapshot_id = b.snapshot_id /\ a.merkle_root = b.merkle_root /\ EntriesOf(d) = EntriesOf(e)
  BY <1>5
<1>10. {a.entries[i] : i \in DOMAIN a.entries} = EntriesOf(d) /\ {b.entries[i] : i \in DOMAIN b.entries} = EntriesOf(e)
  BY <1>5 DEF EntriesOf
<1>11. (EntriesOf(d) = EntriesOf(e)) = (d = e) /\ (a.snapshot_id = b.snapshot_id) = (d = e) /\ (a.merkle_root = b.merkle_root) = (d = e)
  BY <1>5, <1>6, <1>7, <1>8, <1>9, Zenon
<1> QED BY <1>10, <1>11, Zenon DEF SameIdentity

\* A snapshot is rebuilt from its own entries as it was, and verifies.
LEMMA RebuiltIs ==
    ASSUME NEW x, NEW e, NEW locations, SnapshotFacts(x, e, locations)
    PROVE  BuildSnapshot(x.entries, locations) = {x} /\ Verified(x, locations)
<1>1. PICK n \in 0 .. MaxEntries : Listed(e, n)
  BY Zenon DEF SnapshotFacts
<1>2. Ascending(e) /\ ~HasDuplicate(e) /\ x = SnapshotOf(e, locations)
  BY Zenon DEF SnapshotFacts
<1>3. SortedById(e) = e
  BY <1>1, <1>2, SortedOnce
<1>4. /\ x.entries = e /\ x.merkle_root = MerkleRoot(e)
      /\ x.snapshot_id = <<e, MerkleRoot(e)>> /\ x.location_state_ref = locations
  BY <1>2, SnapshotFields
<1>5. BuildSnapshot(x.entries, locations) = {x}
  BY <1>2, <1>3, <1>4, Zenon DEF BuildSnapshot
<1>6. Verified(x, locations)
  BY <1>3, <1>4, Zenon DEF Verified, LocationRef
<1> QED BY <1>5, <1>6

\* The two builders have built nothing, or each what it was handed.
Handed(s, t, b) ==
    \/ b = <<>>
    \/ \E loc : b = <<BuildSnapshot(s, "here"), BuildSnapshot(t, loc)>>

SnapshotInv ==
    subject = "snapshot" =>
        \E s, t \in EntryLists : \E b : st = [left |-> s, right |-> t, built |-> b] /\ Handed(s, t, b)

\* An envelope nobody edited.
Envelope(w) ==
    \E x, e, locations : w = [snapshot |-> x, locations |-> locations] /\ SnapshotFacts(x, e, locations)

CacheShape(v) ==
    v = [file |-> v.file, written |-> v.written, steps |-> v.steps, read |-> v.read, shown |-> v.shown]

\* What was written is in the file as long as it is remembered, it is what was read
\* if anything was, and a location is shown only with the store.
CacheFacts(file, written, read, shown) ==
    /\ \A w \in written : Envelope(w) /\ file = {w}
    /\ \A w \in written, r \in read : r.ok /\ r.snapshot = w.snapshot /\ r.locations = w.locations
    /\ \A v \in shown : v.present \/ \A row \in v.rows : row[2] = "unknown"

CacheInv ==
    subject = "cache" => CacheShape(st) /\ CacheFacts(st.file, st.written, st.read, st.shown)

CatalogInv == SnapshotInv /\ CacheInv

\* The initial states satisfy the catalog invariant.
LEMMA CatalogInits == CatalogInit => CatalogInv
<1>1. SnapshotInit => CatalogInv
  BY Zenon DEF SnapshotInit, CatalogInv, SnapshotInv, CacheInv, Handed
<1>2. CacheInit => CatalogInv
  <2> SUFFICES ASSUME CacheInit PROVE CatalogInv
    OBVIOUS
  <2>1. subject = "cache" /\ st = [file |-> {}, written |-> {}, steps |-> 0, read |-> {}, shown |-> {}]
    BY DEF CacheInit
  <2>2. CacheShape(st) /\ st.file = {} /\ st.written = {} /\ st.read = {} /\ st.shown = {}
    BY <2>1 DEF CacheShape
  <2>3. CacheFacts(st.file, st.written, st.read, st.shown)
    BY <2>2 DEF CacheFacts
  <2> QED BY <2>1, <2>2, <2>3 DEF CatalogInv, SnapshotInv, CacheInv
<1>3. SeedInit => CatalogInv
  BY DEF SeedInit, CatalogInv, SnapshotInv, CacheInv
<1> QED BY <1>1, <1>2, <1>3 DEF CatalogInit

\* Building two snapshots keeps the snapshots' part.
LEMMA BuildTwoSteps == SnapshotInv /\ BuildTwo => SnapshotInv'
<1> SUFFICES ASSUME SnapshotInv, BuildTwo PROVE SnapshotInv'
  OBVIOUS
<1>1. subject = "snapshot"
  BY DEF BuildTwo
<1>2. PICK s \in EntryLists : \E t \in EntryLists : \E b : st = [left |-> s, right |-> t, built |-> b] /\ Handed(s, t, b)
  BY <1>1, Zenon DEF SnapshotInv
<1>3. PICK t \in EntryLists : \E b : st = [left |-> s, right |-> t, built |-> b] /\ Handed(s, t, b)
  BY <1>2
<1>4. PICK b : st = [left |-> s, right |-> t, built |-> b]
  BY <1>3
<1>5. PICK loc : st' = [st EXCEPT !.built = <<BuildSnapshot(st.left, "here"), BuildSnapshot(st.right, loc)>>]
  BY Zenon DEF BuildTwo, Step
<1>6. st.left = s /\ st.right = t
  BY <1>4
<1> PICK c : c = <<BuildSnapshot(s, "here"), BuildSnapshot(t, loc)>>
  OBVIOUS
<1>7. st' = [st EXCEPT !.built = c]
  BY <1>5, <1>6
<1>8. st' = [left |-> s, right |-> t, built |-> c]
  BY <1>4, <1>7
<1>9. Handed(s, t, c)
  BY Zenon DEF Handed
<1> QED BY <1>8, <1>9, Zenon DEF SnapshotInv

\* The cache after a step, by its fields.
LEMMA CacheKept ==
    ASSUME NEW file, NEW written, NEW steps, NEW read, NEW shown, CacheFacts(file, written, read, shown),
           st' = [file |-> file, written |-> written, steps |-> steps, read |-> read, shown |-> shown]
    PROVE  CacheInv'
<1>1. CacheShape(st') /\ st'.file = file /\ st'.written = written /\ st'.read = read /\ st'.shown = shown
  BY DEF CacheShape
<1>2. CacheFacts(st'.file, st'.written, st'.read, st'.shown)
  BY <1>1
<1> QED BY <1>1, <1>2 DEF CacheInv

\* Writing the cache keeps the cache's part.
LEMMA WriteSteps ==
    ASSUME NEW s \in EntryLists, NEW loc, CacheWrite(s, loc), CacheShape(st)
    PROVE  CacheInv'
<1> PICK sl : sl = StoredLocations(s, loc)
  OBVIOUS
<1>1. PICK x \in BuildSnapshot(s, sl) :
          st' = [st EXCEPT !.file = {[snapshot |-> x, locations |-> sl]}, !.written = {[snapshot |-> x, locations |-> sl]},
                           !.read = {}, !.shown = {}, !.steps = @ + 1]
  BY Zenon DEF CacheWrite, Step
<1> PICK w : w = [snapshot |-> x, locations |-> sl]
  OBVIOUS
<1>2. SnapshotFacts(x, SortedById(s), sl)
  BY BuildIs
<1>3. Envelope(w)
  BY <1>2, Zenon DEF Envelope
<1>4. st' = [st EXCEPT !.file = {w}, !.written = {w}, !.read = {}, !.shown = {}, !.steps = @ + 1]
  BY <1>1
<1>5. PICK k : st' = [file |-> {w}, written |-> {w}, steps |-> k, read |-> {}, shown |-> {}]
  BY <1>4 DEF CacheShape
<1>6. CacheFacts({w}, {w}, {}, {})
  BY <1>3 DEF CacheFacts
<1> QED BY <1>5, <1>6, CacheKept

\* A file edited from outside keeps it.
LEMMA EditSteps ==
    ASSUME NEW s, EditFile(s), CacheShape(st)
    PROVE  CacheInv'
<1>1. PICK f : st' = [st EXCEPT !.file = f, !.read = {}, !.written = {}, !.shown = {}, !.steps = @ + 1]
  BY Zenon DEF EditFile, Step
<1>2. PICK k : st' = [file |-> f, written |-> {}, steps |-> k, read |-> {}, shown |-> {}]
  BY <1>1 DEF CacheShape
<1>3. CacheFacts(f, {}, {}, {})
  BY DEF CacheFacts
<1> QED BY <1>2, <1>3, CacheKept

\* Reading the cache back keeps it.
LEMMA ReadSteps ==
    ASSUME CacheRead, CacheShape(st), CacheFacts(st.file, st.written, st.read, st.shown)
    PROVE  CacheInv'
<1>1. PICK env \in st.file :
          LET snap == BuildSnapshot(env.snapshot.entries, env.locations)
          IN  st' = [st EXCEPT !.read =
                  IF snap # {} /\ \A x \in snap : Verified(x, env.locations)
                  THEN {[ok |-> TRUE, snapshot |-> x, locations |-> env.locations] : x \in snap}
                  ELSE {[ok |-> FALSE]}]
  BY Zenon DEF CacheRead, Step
<1> PICK snap : snap = BuildSnapshot(env.snapshot.entries, env.locations)
  OBVIOUS
<1> PICK r : r = IF snap # {} /\ \A x \in snap : Verified(x, env.locations)
                 THEN {[ok |-> TRUE, snapshot |-> x, locations |-> env.locations] : x \in snap}
                 ELSE {[ok |-> FALSE]}
  OBVIOUS
<1>2. st' = [st EXCEPT !.read = r]
  BY <1>1, Zenon
<1>3. st' = [file |-> st.file, written |-> st.written, steps |-> st.steps, read |-> r, shown |-> st.shown]
  BY <1>2 DEF CacheShape
<1>4. ASSUME NEW w \in st.written, NEW q \in r PROVE q.ok /\ q.snapshot = w.snapshot /\ q.locations = w.locations
  <2>1. Envelope(w) /\ env = w
    BY DEF CacheFacts
  <2>2. PICK x, e, l : w = [snapshot |-> x, locations |-> l] /\ SnapshotFacts(x, e, l)
    BY <2>1, Zenon DEF Envelope
  <2>3. w.snapshot = x /\ w.locations = l /\ env.snapshot = x /\ env.locations = l
    BY <2>1, <2>2
  <2>4. BuildSnapshot(x.entries, l) = {x} /\ Verified(x, l)
    BY <2>2, RebuiltIs
  <2>5. snap = {x}
    BY <2>3, <2>4
  <2>6. snap # {} /\ \A y \in snap : Verified(y, env.locations)
    BY <2>3, <2>4, <2>5
  <2>7. r = {[ok |-> TRUE, snapshot |-> y, locations |-> env.locations] : y \in snap}
    BY <2>6, Zenon
  <2>8. PICK y \in snap : q = [ok |-> TRUE, snapshot |-> y, locations |-> env.locations]
    BY <2>7, Zenon
  <2> QED BY <2>3, <2>5, <2>8
<1>5. CacheFacts(st.file, st.written, r, st.shown)
  BY <1>4 DEF CacheFacts
<1> QED BY <1>3, <1>5, CacheKept

\* Listing capabilities from the cache keeps it.
LEMMA ListSteps ==
    ASSUME NEW present \in BOOLEAN, ListCapabilities(present), CacheShape(st),
           CacheFacts(st.file, st.written, st.read, st.shown)
    PROVE  CacheInv'
<1>1. PICK r : st' = [st EXCEPT !.shown = {[present |-> present, rows |->
              {<<r.snapshot.entries[i].id, Resolved(r.snapshot.entries[i].id, r.locations, present)>> :
                  i \in DOMAIN r.snapshot.entries}]}]
  BY Zenon DEF ListCapabilities, Step
<1> PICK rows : rows = {<<r.snapshot.entries[i].id, Resolved(r.snapshot.entries[i].id, r.locations, present)>> :
                           i \in DOMAIN r.snapshot.entries}
  OBVIOUS
<1> PICK v : v = [present |-> present, rows |-> rows]
  OBVIOUS
<1>2. st' = [st EXCEPT !.shown = {v}]
  BY <1>1
<1>3. st' = [file |-> st.file, written |-> st.written, steps |-> st.steps, read |-> st.read, shown |-> {v}]
  BY <1>2 DEF CacheShape
<1>4. ASSUME ~present, NEW row \in rows PROVE row[2] = "unknown"
  <2>1. PICK i \in DOMAIN r.snapshot.entries :
            row = <<r.snapshot.entries[i].id, Resolved(r.snapshot.entries[i].id, r.locations, present)>>
    BY Zenon
  <2>2. Resolved(r.snapshot.entries[i].id, r.locations, present) = "unknown"
    BY <1>4, Zenon DEF Resolved
  <2> QED BY <2>1, <2>2
<1>5. v.present = present /\ v.rows = rows
  OBVIOUS
<1>6. \A u \in {v} : u.present \/ \A row \in u.rows : row[2] = "unknown"
  BY <1>4, <1>5, Zenon
<1>7. CacheFacts(st.file, st.written, st.read, {v})
  BY <1>6 DEF CacheFacts
<1> QED BY <1>3, <1>7, CacheKept

\* Every step of such a call keeps the catalog invariant.
LEMMA CatalogSteps == CatalogInv /\ CatalogNext => CatalogInv'
<1> SUFFICES ASSUME CatalogInv, CatalogNext PROVE CatalogInv'
  OBVIOUS
<1>1. CASE BuildTwo
  <2>1. subject' = "snapshot"
    BY <1>1 DEF BuildTwo, Step
  <2> QED BY <1>1, <2>1, BuildTwoSteps DEF CatalogInv, CacheInv
<1>2. CASE subject = "cache" /\ CacheStep
  <2>1. CacheShape(st) /\ CacheFacts(st.file, st.written, st.read, st.shown)
    BY <1>2 DEF CatalogInv, CacheInv
  <2>2. CacheInv'
    <3>1. ASSUME NEW s \in {t \in EntryLists : Len(t) <= 2}, EditFile(s) PROVE CacheInv'
      BY <2>1, <3>1, EditSteps
    <3>2. ASSUME NEW s \in {t \in EntryLists : Len(t) <= 2}, NEW loc, CacheWrite(s, loc) PROVE CacheInv'
      <4>1. s \in EntryLists
        OBVIOUS
      <4> QED BY <2>1, <3>2, <4>1, WriteSteps
    <3>3. ASSUME CacheRead PROVE CacheInv'
      BY <2>1, <3>3, ReadSteps
    <3>4. ASSUME NEW present \in BOOLEAN, ListCapabilities(present) PROVE CacheInv'
      BY <2>1, <3>4, ListSteps
    <3> QED BY <1>2, <3>1, <3>2, <3>3, <3>4, Zenon DEF CacheStep
  <2>3. subject' = "cache"
    BY <1>2 DEF CacheStep, EditFile, CacheWrite, CacheRead, ListCapabilities, Step
  <2> QED BY <2>2, <2>3 DEF CatalogInv, SnapshotInv
<1>3. CASE LoadSeed
  BY <1>3 DEF LoadSeed, Step, CatalogInv, SnapshotInv, CacheInv
<1> QED BY <1>1, <1>2, <1>3 DEF CatalogNext

\* The invariant gives what the catalog promises.
LEMMA CatalogInvHolds == CatalogInv => CatalogSpeaksTrue
<1> SUFFICES ASSUME CatalogInv PROVE CatalogSpeaksTrue
  OBVIOUS
<1>1. IdentityOfEntries
  <2> SUFFICES ASSUME subject = "snapshot", st.built # <<>>, NEW a \in st.built[1], NEW b \in st.built[2]
               PROVE  SameIdentity(a, b)
    BY Zenon DEF IdentityOfEntries, SameIdentity
  <2>1. PICK s \in EntryLists : \E t \in EntryLists : \E c : st = [left |-> s, right |-> t, built |-> c] /\ Handed(s, t, c)
    BY Zenon DEF CatalogInv, SnapshotInv
  <2>2. PICK t \in EntryLists : \E c : st = [left |-> s, right |-> t, built |-> c] /\ Handed(s, t, c)
    BY <2>1
  <2>3. PICK c : st = [left |-> s, right |-> t, built |-> c] /\ Handed(s, t, c)
    BY <2>2
  <2>4. st.built = c
    BY <2>3
  <2>5. PICK loc : c = <<BuildSnapshot(s, "here"), BuildSnapshot(t, loc)>>
    BY <2>3, <2>4, Zenon DEF Handed
  <2>6. st.built[1] = BuildSnapshot(s, "here") /\ st.built[2] = BuildSnapshot(t, loc)
    BY <2>4, <2>5
  <2>7. SnapshotFacts(a, SortedById(s), "here") /\ SnapshotFacts(b, SortedById(t), loc)
    BY <2>6, BuildIs
  <2> QED BY <2>7, IdentityIs
<1>2. CacheRoundTrip /\ NoStaleLocation
  BY Zenon DEF CatalogInv, CacheInv, CacheFacts, CacheRoundTrip, NoStaleLocation
<1> QED BY <1>1, <1>2 DEF CatalogSpeaksTrue

\* A step that leaves the state alone keeps the catalog invariant.
LEMMA CatalogUnmoved == CatalogInv /\ UNCHANGED frame => CatalogInv'
<1> SUFFICES ASSUME CatalogInv, UNCHANGED frame PROVE CatalogInv'
  OBVIOUS
<1>0. subject' = subject /\ st' = st
  BY DEF frame
<1>1. CatalogInv
  OBVIOUS
<1>2. SnapshotInv'
  BY <1>0, <1>1 DEF CatalogInv, SnapshotInv
<1>3. CacheInv'
  BY <1>0, <1>1 DEF CatalogInv, CacheInv
<1> QED BY <1>2, <1>3 DEF CatalogInv
-----------------------------------------------------------------------------
(***************************************************************************)
(* Contracts: schemas, paths and timestamps.                               *)
(***************************************************************************)
SchemaInv ==
    subject = "schema" =>
        \E f, e, k, u : /\ st = [file |-> f, edits |-> e, kept |-> k, used |-> u]
                        /\ u \subseteq k /\ (k = {} \/ k = {"good"} \/ k = {"better"})

\* The initial states satisfy the schema invariant.
LEMMA SchemaInits == SchemaInit => SchemaInv
<1> SUFFICES ASSUME SchemaInit PROVE SchemaInv
  OBVIOUS
<1>1. PICK f : st = [file |-> f, edits |-> 0, kept |-> {}, used |-> {}]
  BY Zenon DEF SchemaInit
<1>2. {} \subseteq {}
  OBVIOUS
<1> QED BY <1>1, <1>2, Zenon DEF SchemaInv

\* Every step of such a call keeps the schema invariant.
LEMMA SchemaSteps ==
    ASSUME SchemaInv, subject = "schema", ReplaceSchemaFile \/ SchemaValidate PROVE SchemaInv'
<1>1. PICK f, e, k, u : /\ st = [file |-> f, edits |-> e, kept |-> k, used |-> u]
                        /\ u \subseteq k /\ (k = {} \/ k = {"good"} \/ k = {"better"})
  BY Zenon DEF SchemaInv
<1>2. CASE ReplaceSchemaFile
  <2>1. PICK g : st' = [st EXCEPT !.file = g, !.edits = @ + 1]
    BY <1>2, Zenon DEF ReplaceSchemaFile, Step
  <2>2. PICK d : st' = [file |-> g, edits |-> d, kept |-> k, used |-> u]
    BY <1>1, <2>1
  <2> QED BY <1>1, <2>2, Zenon DEF SchemaInv
<1>3. CASE SchemaValidate
  <2> PICK new : new = IF st.kept # {} THEN st.kept ELSE LoadAndMetavalidate(st.file)
    OBVIOUS
  <2>1. st' = [st EXCEPT !.kept = new, !.used = @ \cup new]
    BY <1>3, Zenon DEF SchemaValidate, Step
  <2>2. st.kept = k /\ st.used = u /\ st.file = f
    BY <1>1
  <2>3. st' = [file |-> f, edits |-> e, kept |-> new, used |-> u \cup new]
    BY <1>1, <2>1
  <2>4. k # {} => new = k
    BY <2>2
  <2>5. k = {} => (new = {} \/ new = {"good"} \/ new = {"better"})
    BY <2>2, Zenon DEF LoadAndMetavalidate
  <2>6. (u \cup new) \subseteq new /\ (new = {} \/ new = {"good"} \/ new = {"better"})
    BY <1>1, <2>4, <2>5
  <2> QED BY <2>3, <2>6, Zenon DEF SchemaInv
<1> QED BY <1>2, <1>3

\* The schema invariant gives the property its calls are checked for.
LEMMA SchemaInvHolds == SchemaInv => OneSoundSchema
<1> SUFFICES ASSUME SchemaInv, subject = "schema"
             PROVE  st.used \subseteq {"good", "better"} /\ Cardinality(st.used) <= 1
  BY DEF OneSoundSchema
<1>1. PICK f, e, k, u : /\ st = [file |-> f, edits |-> e, kept |-> k, used |-> u]
                        /\ u \subseteq k /\ (k = {} \/ k = {"good"} \/ k = {"better"})
  BY Zenon DEF SchemaInv
<1>2. st.used = u
  BY <1>1
<1>3. u = {} \/ u = {"good"} \/ u = {"better"}
  BY <1>1
<1>4. Cardinality({}) = 0 /\ Cardinality({"good"}) = 1 /\ Cardinality({"better"}) = 1
  BY FS_EmptySet, FS_Singleton
<1>5. Cardinality(u) = 0 \/ Cardinality(u) = 1
  BY <1>3, <1>4
<1> QED BY <1>2, <1>3, <1>5

\* The depths along a path, as the reference defines them.
Depths(d, parts) ==
    d = [i \in 0 .. Len(parts) |-> IF i = 0 THEN 0 ELSE d[i - 1] + Descent(parts[i])]

\* Only a parent reference climbs.
LEMMA DescentIs == \A part : Descent(part) \in Int /\ (part \notin {"..", "back"} => Descent(part) >= 0)
<1> SUFFICES ASSUME NEW part PROVE Descent(part) \in Int /\ (part \notin {"..", "back"} => Descent(part) >= 0)
  OBVIOUS
<1>1. CASE part \in {"none", "."}
  BY <1>1 DEF Descent
<1>2. CASE part \in {"..", "back"}
  BY <1>2 DEF Descent
<1>3. CASE part \notin {"none", "."} /\ part \notin {"..", "back"}
  BY <1>3 DEF Descent
<1> QED BY <1>1, <1>2, <1>3

\* The depth below the root, part by part.
LEMMA DepthIs ==
    ASSUME NEW n \in Nat, NEW parts, NEW V, parts \in [1 .. n -> V]
    PROVE  /\ Depth(parts)[0] = 0
           /\ \A i \in 1 .. n : Depth(parts)[i] = Depth(parts)[i - 1] + Descent(parts[i])
<1>1. Len(parts) = n
  OBVIOUS
<1> DEFINE F == [x \in Int \X (1 .. n) |-> x[1] + Descent(parts[x[2]])]
<1>2. Carrier(F, n, Int)
  <2>1. \A x \in Int \X (1 .. n) : x[1] + Descent(parts[x[2]]) \in Int
    BY DescentIs
  <2> QED BY <2>1 DEF Carrier
<1>3. PICK f : Carried(f, n, Int, 0, F)
  <2>1. 0 \in Int
    OBVIOUS
  <2> HIDE DEF F
  <2> QED BY <1>2, <2>1, Recursion
<1>4. /\ f \in [0 .. n -> Int] /\ f[0] = 0 /\ \A i \in 1 .. n : f[i] = f[i - 1] + Descent(parts[i])
  <2>1. f \in [0 .. n -> Int] /\ f[0] = 0 /\ \A i \in 1 .. n : f[i] = F[<<f[i - 1], i>>]
    BY <1>3 DEF Carried
  <2>2. ASSUME NEW i \in 1 .. n PROVE f[i] = f[i - 1] + Descent(parts[i])
    <3>1. i - 1 \in 0 .. n
      OBVIOUS
    <3>2. <<f[i - 1], i>> \in Int \X (1 .. n)
      BY <2>1, <3>1
    <3>3. F[<<f[i - 1], i>>] = f[i - 1] + Descent(parts[i])
      BY <3>2
    <3> QED BY <2>1, <3>3
  <2> QED BY <2>1, <2>2
<1>5. f = [i \in 0 .. n |-> IF i = 0 THEN 0 ELSE f[i - 1] + Descent(parts[i])]
  <2>1. \A i \in 0 .. n : f[i] = IF i = 0 THEN 0 ELSE f[i - 1] + Descent(parts[i])
    BY <1>4
  <2>2. f = [i \in 0 .. n |-> f[i]]
    BY <1>4
  <2> QED BY <2>1, <2>2, Zenon
<1>6. Depths(f, parts)
  BY <1>1, <1>5, Zenon DEF Depths
<1>7. Depths(CHOOSE d : Depths(d, parts), parts)
  BY <1>6, Zenon
<1> PICK d : d = Depth(parts)
  OBVIOUS
<1>8. Depths(d, parts)
  BY <1>7, Zenon DEF Depth, Depths
<1>9. d = [i \in 0 .. n |-> IF i = 0 THEN 0 ELSE d[i - 1] + Descent(parts[i])]
  BY <1>1, <1>8, Zenon DEF Depths
<1>10. \A i \in 0 .. n : d[i] = IF i = 0 THEN 0 ELSE d[i - 1] + Descent(parts[i])
  BY <1>9, Zenon
<1>11. ASSUME NEW i \in 1 .. n PROVE d[i] = d[i - 1] + Descent(parts[i])
  <2>1. i \in 0 .. n /\ i # 0
    OBVIOUS
  <2> QED BY <1>10, <2>1
<1>12. d[0] = 0
  BY <1>10
<1> QED BY <1>11, <1>12, Zenon

\* A portable path never comes back.
LEMMA PortableStays ==
    ASSUME NEW n \in Nat \ {0}, NEW parts, NEW V, parts \in [1 .. n -> V], PortablePath(parts)
    PROVE  \A i \in DOMAIN parts : Depth(parts)[i] >= 0
<1> PICK d : d = Depth(parts)
  OBVIOUS
<1>1. d[0] = 0 /\ \A i \in 1 .. n : d[i] = d[i - 1] + Descent(parts[i])
  BY DepthIs
<1>2. \A i \in 1 .. n : Descent(parts[i]) \in Nat
  <2>1. \A i \in 1 .. n : parts[i] \notin {"..", "back"}
    BY DEF PortablePath
  <2> QED BY <2>1, DescentIs
<1> DEFINE S == {i \in 0 .. n : d[i] \in Nat}
<1>3. 0 \in S
  BY <1>1
<1>4. ASSUME NEW i \in 0 .. n - 1, i \in S PROVE i + 1 \in S
  <2>1. i + 1 \in 1 .. n /\ i + 1 \in 0 .. n /\ (i + 1) - 1 = i
    OBVIOUS
  <2>2. d[i + 1] = d[i] + Descent(parts[i + 1])
    <3>1. d[i + 1] = d[(i + 1) - 1] + Descent(parts[i + 1])
      BY <1>1, <2>1, Zenon
    <3> QED BY <2>1, <3>1
  <2>3. d[i] \in Nat
    BY <1>4
  <2> QED BY <1>2, <2>1, <2>2, <2>3
<1> HIDE DEF S
<1>5. \A i \in 0 .. n : i \in S
  BY <1>3, <1>4, InductionUpTo
<1>6. \A i \in 1 .. n : d[i] \in Nat
  BY <1>5 DEF S
<1> QED BY <1>6

PortableInv ==
    subject = "path" =>
        \E n \in Nat \ {0} : \E p \in [1 .. n -> PathParts] : \E o :
            st = [parts |-> p, out |-> o] /\ (o = {} \/ (o = {p} /\ PortablePath(p)))

\* The initial states satisfy the portable path invariant.
LEMMA PathInits == PathInit => PortableInv
<1> SUFFICES ASSUME PathInit PROVE PortableInv
  OBVIOUS
<1>1. PICK n \in 1 .. MaxParts : \E p \in [1 .. n -> PathParts] : st = [parts |-> p, out |-> {}]
  BY Zenon DEF PathInit
<1>2. n \in Nat \ {0}
  BY ContractsAssumption
<1> QED BY <1>1, <1>2, Zenon DEF PortableInv

\* Every step of such a call keeps the portable path invariant.
LEMMA PathSteps == ASSUME PortableInv, subject = "path", ValidatePortablePath PROVE PortableInv'
<1>1. PICK n \in Nat \ {0} : \E p \in [1 .. n -> PathParts] : \E o :
          st = [parts |-> p, out |-> o] /\ (o = {} \/ (o = {p} /\ PortablePath(p)))
  BY Zenon DEF PortableInv
<1>2. PICK p \in [1 .. n -> PathParts] : \E o : st = [parts |-> p, out |-> o]
  BY <1>1
<1>3. PICK o : st = [parts |-> p, out |-> o]
  BY <1>2
<1>4. st.parts = p
  BY <1>3
<1>5. PortablePath(p) /\ st' = [st EXCEPT !.out = {p}]
  BY <1>4, Zenon DEF ValidatePortablePath, Step
<1>6. st' = [parts |-> p, out |-> {p}]
  BY <1>3, <1>5
<1> QED BY <1>5, <1>6, Zenon DEF PortableInv

\* The portable path invariant gives the property its calls are checked for.
LEMMA PortableInvHolds == PortableInv => PortablePathStaysBelow
<1> SUFFICES ASSUME PortableInv, subject = "path", NEW q \in st.out PROVE \A i \in DOMAIN q : Depth(q)[i] >= 0
  BY Zenon DEF PortablePathStaysBelow
<1>1. PICK n \in Nat \ {0} : \E p \in [1 .. n -> PathParts] : \E o :
          st = [parts |-> p, out |-> o] /\ (o = {} \/ (o = {p} /\ PortablePath(p)))
  BY Zenon DEF PortableInv
<1>2. PICK p \in [1 .. n -> PathParts] : \E o :
          st = [parts |-> p, out |-> o] /\ (o = {} \/ (o = {p} /\ PortablePath(p)))
  BY <1>1
<1>3. PICK o : st = [parts |-> p, out |-> o] /\ (o = {} \/ (o = {p} /\ PortablePath(p)))
  BY <1>2
<1>4. st.out = o
  BY <1>3
<1>5. q = p /\ PortablePath(p)
  BY <1>3, <1>4
<1>6. \A i \in DOMAIN p : Depth(p)[i] >= 0
  BY <1>5, PortableStays
<1> QED BY <1>5, <1>6

\* The calendar's own rule for the length of a month agrees with the distance
\* between the first days of two months.
MonthLength(y, m) ==
    IF m = 12 THEN DaysTo(y + 1, 1) - DaysTo(y, 12) ELSE DaysTo(y, m + 1) - DaysTo(y, m)

\* The length of February is the calendar's.
LEMMA FebruaryIs ==
    ASSUME NEW y \in Nat
    PROVE  MonthLength(y, 2) = IF IsLeap(y) THEN 29 ELSE 28
<1>1. DaysTo(y, 3) = 365 * y + y \div 4 - y \div 100 + y \div 400 + 0
  BY DEF DaysTo
<1>2. DaysTo(y, 2) = 365 * (y - 1) + (y - 1) \div 4 - (y - 1) \div 100 + (y - 1) \div 400 + 337
  BY DEF DaysTo
<1>3. MonthLength(y, 2) = DaysTo(y, 3) - DaysTo(y, 2)
  BY DEF MonthLength
<1>4. y \div 4 - (y - 1) \div 4 = IF y % 4 = 0 THEN 1 ELSE 0
  OBVIOUS
<1>5. y \div 100 - (y - 1) \div 100 = IF y % 100 = 0 THEN 1 ELSE 0
  OBVIOUS
<1>6. y \div 400 - (y - 1) \div 400 = IF y % 400 = 0 THEN 1 ELSE 0
  OBVIOUS
<1>7. (y % 400 = 0 => y % 100 = 0) /\ (y % 100 = 0 => y % 4 = 0)
  OBVIOUS
<1>8. y \div 4 \in Int /\ (y - 1) \div 4 \in Int /\ y \div 100 \in Int /\ (y - 1) \div 100 \in Int
      /\ y \div 400 \in Int /\ (y - 1) \div 400 \in Int
  OBVIOUS
<1>9. MonthLength(y, 2) = 28 + (y \div 4 - (y - 1) \div 4) - (y \div 100 - (y - 1) \div 100)
                             + (y \div 400 - (y - 1) \div 400)
  BY <1>1, <1>2, <1>3, <1>8
<1> QED BY <1>4, <1>5, <1>6, <1>7, <1>9 DEF IsLeap

\* So is that of every month.
LEMMA MonthsAre ==
    ASSUME NEW y \in Nat, NEW m \in 1 .. 12
    PROVE  MonthLength(y, m) = DaysInMonth(y, m)
<1> DEFINE q == y \div 4 - y \div 100 + y \div 400
           r == (y - 1) \div 4 - (y - 1) \div 100 + (y - 1) \div 400
<1>1. q \in Int /\ r \in Int
  OBVIOUS
<1>2. /\ DaysTo(y, 1) = 365 * (y - 1) + r + 306 /\ DaysTo(y, 2) = 365 * (y - 1) + r + 337
      /\ DaysTo(y, 3) = 365 * y + q /\ DaysTo(y, 4) = 365 * y + q + 31
      /\ DaysTo(y, 5) = 365 * y + q + 61 /\ DaysTo(y, 6) = 365 * y + q + 92
      /\ DaysTo(y, 7) = 365 * y + q + 122 /\ DaysTo(y, 8) = 365 * y + q + 153
      /\ DaysTo(y, 9) = 365 * y + q + 184 /\ DaysTo(y, 10) = 365 * y + q + 214
      /\ DaysTo(y, 11) = 365 * y + q + 245 /\ DaysTo(y, 12) = 365 * y + q + 275
  BY DEF DaysTo
<1>3. DaysTo(y + 1, 1) = 365 * y + q + 306
  <2>1. (y + 1) - 1 = y
    OBVIOUS
  <2> QED BY <2>1 DEF DaysTo
<1> HIDE DEF q, r
<1>4. /\ MonthLength(y, 1) = 31 /\ MonthLength(y, 3) = 31 /\ MonthLength(y, 4) = 30
      /\ MonthLength(y, 5) = 31 /\ MonthLength(y, 6) = 30 /\ MonthLength(y, 7) = 31
      /\ MonthLength(y, 8) = 31 /\ MonthLength(y, 9) = 30 /\ MonthLength(y, 10) = 31
      /\ MonthLength(y, 11) = 30 /\ MonthLength(y, 12) = 31
  BY <1>1, <1>2, <1>3 DEF MonthLength
<1>5. m = 1 \/ m = 2 \/ m = 3 \/ m = 4 \/ m = 5 \/ m = 6 \/ m = 7 \/ m = 8 \/ m = 9 \/ m = 10 \/ m = 11 \/ m = 12
  OBVIOUS
<1>6. MonthLength(y, 2) = IF IsLeap(y) THEN 29 ELSE 28
  BY FebruaryIs
<1>7. CASE m = 2
  BY <1>6, <1>7 DEF DaysInMonth
<1>8. CASE m # 2
  <2>1. DaysInMonth(y, m) = <<31, 28, 31, 30, 31, 30, 31, 31, 30, 31, 30, 31>>[m]
    BY <1>8 DEF DaysInMonth
  <2> QED BY <1>4, <1>5, <1>8, <2>1
<1> QED BY <1>7, <1>8

\* What is known of any timestamp the layer is given.
StampShape(t) ==
    /\ t = [year |-> t.year, month |-> t.month, day |-> t.day, hour |-> t.hour, fraction |-> t.fraction, zone |-> t.zone]
    /\ t.year \in Nat /\ t.month \in Nat /\ t.day \in Nat

\* The shape of the timestamps presented.
LEMMA StampsAre == ASSUME NEW t \in Stamps PROVE StampShape(t)
<1>1. CASE t \in DayStamps
  <2>1. t = [year |-> t.year, month |-> t.month, day |-> t.day, hour |-> t.hour, fraction |-> t.fraction, zone |-> t.zone]
    BY <1>1 DEF DayStamps
  <2>2. t.year \in Years /\ t.month \in 0 .. 13 /\ t.day \in 0 .. 32
    BY <1>1 DEF DayStamps
  <2>3. t.year \in Nat
    BY <2>2, ContractsAssumption
  <2> QED BY <2>1, <2>2, <2>3 DEF StampShape
<1>2. CASE t \in FormStamps
  <2>1. t = [year |-> t.year, month |-> t.month, day |-> t.day, hour |-> t.hour, fraction |-> t.fraction, zone |-> t.zone]
    BY <1>2 DEF FormStamps
  <2>2. t.year \in Nat /\ t.month \in Nat /\ t.day \in Nat
    BY <1>2 DEF FormStamps
  <2> QED BY <2>1, <2>2 DEF StampShape
<1> QED BY <1>1, <1>2 DEF Stamps

\* In the right form, a timestamp names a real day exactly when the calendar check
\* passes.
LEMMA CalendarIsReal ==
    ASSUME NEW t, StampShape(t), t.month \in 1 .. 12
    PROVE  RealDate(t) <=> CheckCalendar(t)
<1>1. t.year \in Nat
  BY DEF StampShape
<1>2. MonthLength(t.year, t.month) = DaysInMonth(t.year, t.month)
  BY <1>1, MonthsAre
<1>3. RealDate(t) <=> t.day <= MonthLength(t.year, t.month)
  BY DEF RealDate, MonthLength
<1> QED BY <1>2, <1>3 DEF CheckCalendar

\* Normalising settles: what comes out is canonical and comes out of a second call
\* as it is.
LEMMA NormalizeSettles ==
    ASSUME NEW t, StampShape(t), NEW u \in NormalizeStamp(t)
    PROVE  RealDate(u) /\ ValidStamp(u) /\ NormalizeStamp(u) = {u}
<1>1. Shape(t, {"Z", "z", "+00:00"}) /\ CheckCalendar(t) /\ u = [t EXCEPT !.zone = "Z"]
  BY Zenon DEF NormalizeStamp
<1>2. u = [year |-> t.year, month |-> t.month, day |-> t.day, hour |-> t.hour, fraction |-> t.fraction, zone |-> "Z"]
  BY <1>1 DEF StampShape
<1>3. /\ u.year = t.year /\ u.month = t.month /\ u.day = t.day /\ u.hour = t.hour /\ u.zone = "Z"
      /\ u = [u EXCEPT !.zone = "Z"]
  BY <1>2
<1>4. u.fraction = t.fraction
  BY <1>2, Zenon
<1>5. t.month \in 1 .. 12 /\ t.day \in 1 .. 31 /\ t.hour \in 0 .. 23
  BY <1>1 DEF Shape
<1>6. ~u.fraction
  BY <1>1, <1>4, Zenon DEF Shape
<1>7. Shape(u, {"Z"}) /\ Shape(u, {"Z", "z", "+00:00"})
  BY <1>3, <1>5, <1>6, Zenon DEF Shape
<1>8. CheckCalendar(u)
  BY <1>1, <1>3 DEF CheckCalendar
<1>9. RealDate(t)
  BY <1>1, <1>5, CalendarIsReal
<1>10. RealDate(u)
  BY <1>3, <1>9 DEF RealDate
<1>11. NormalizeStamp(u) = {u}
  BY <1>3, <1>7, <1>8, Zenon DEF NormalizeStamp
<1> QED BY <1>7, <1>8, <1>10, <1>11 DEF ValidStamp

StampInv ==
    subject = "timestamp" =>
        \E t \in Stamps : \E o : st = [stamp |-> t, out |-> o] /\ (o = {} \/ o = NormalizeStamp(t))

\* The initial states satisfy the timestamp invariant.
LEMMA StampInits == StampInit => StampInv
BY Zenon DEF StampInit, StampInv

\* Every step of such a call keeps the timestamp invariant.
LEMMA StampSteps == ASSUME StampInv, subject = "timestamp", NormalizeTimestamp PROVE StampInv'
<1>1. PICK t \in Stamps : \E o : st = [stamp |-> t, out |-> o] /\ (o = {} \/ o = NormalizeStamp(t))
  BY Zenon DEF StampInv
<1>2. PICK o : st = [stamp |-> t, out |-> o]
  BY <1>1
<1>3. st.stamp = t
  BY <1>2
<1> PICK w : w = NormalizeStamp(t)
  OBVIOUS
<1>4. st' = [st EXCEPT !.out = w]
  BY <1>3, Zenon DEF NormalizeTimestamp, Step
<1>5. st' = [stamp |-> t, out |-> w]
  BY <1>2, <1>4
<1> QED BY <1>5, Zenon DEF StampInv

\* The timestamp invariant gives the property its calls are checked for.
LEMMA StampInvHolds == StampInv => TimestampIsRealDay
<1> SUFFICES ASSUME StampInv, subject = "timestamp"
             PROVE  /\ \A t \in st.out : RealDate(t) /\ ValidStamp(t) /\ NormalizeStamp(t) = {t}
                    /\ Shape(st.stamp, {"Z"}) /\ RealDate(st.stamp) => ValidStamp(st.stamp)
  BY Zenon DEF TimestampIsRealDay
<1>1. PICK t \in Stamps : \E o : st = [stamp |-> t, out |-> o] /\ (o = {} \/ o = NormalizeStamp(t))
  BY Zenon DEF StampInv
<1>2. PICK o : st = [stamp |-> t, out |-> o] /\ (o = {} \/ o = NormalizeStamp(t))
  BY <1>1
<1>3. st.stamp = t /\ st.out = o
  BY <1>2
<1>4. StampShape(t)
  BY StampsAre
<1>5. \A u \in NormalizeStamp(t) : RealDate(u) /\ ValidStamp(u) /\ NormalizeStamp(u) = {u}
  BY <1>4, NormalizeSettles
<1>6. ASSUME Shape(t, {"Z"}), RealDate(t) PROVE ValidStamp(t)
  <2>1. t.month \in 1 .. 12
    BY <1>6 DEF Shape
  <2>2. CheckCalendar(t)
    BY <1>4, <1>6, <2>1, CalendarIsReal
  <2> QED BY <1>6, <2>2 DEF ValidStamp
<1>7. \A u \in o : RealDate(u) /\ ValidStamp(u) /\ NormalizeStamp(u) = {u}
  BY <1>2, <1>5, Zenon
<1> QED BY <1>3, <1>6, <1>7, Zenon
-----------------------------------------------------------------------------
(***************************************************************************)
(* Contracts: decimal strings.                                             *)
(***************************************************************************)
\* f holds the values of the prefixes of the n digits s.
Digits(s, n) == n \in Nat /\ s \in [1 .. n -> Nat]
Prefixes(f, s, n) ==
    f \in [0 .. n -> Nat] /\ f[0] = 0 /\ \A i \in 1 .. n : f[i] = 10 * f[i - 1] + s[i]
NumeralBy(g, s) == g = [i \in 0 .. Len(s) |-> IF i = 0 THEN 0 ELSE 10 * g[i - 1] + s[i]]

\* The values of a numeral's prefixes exist.
LEMMA PrefixesExist == ASSUME NEW s, NEW n, Digits(s, n) PROVE \E f : Prefixes(f, s, n)
<1> USE DEF Digits
<1> DEFINE F == [x \in Nat \X (1 .. n) |-> 10 * x[1] + s[x[2]]]
<1>1. Carrier(F, n, Nat)
  BY DEF Carrier
<1>2. PICK f : Carried(f, n, Nat, 0, F)
  <2>1. 0 \in Nat /\ n \in Nat
    OBVIOUS
  <2> HIDE DEF F
  <2> QED BY <1>1, <2>1, Recursion
<1>3. f \in [0 .. n -> Nat] /\ f[0] = 0 /\ \A i \in 1 .. n : f[i] = F[<<f[i - 1], i>>]
  BY <1>2 DEF Carried
<1>4. ASSUME NEW i \in 1 .. n PROVE f[i] = 10 * f[i - 1] + s[i]
  <2>1. i - 1 \in 0 .. n
    OBVIOUS
  <2>2. <<f[i - 1], i>> \in Nat \X (1 .. n)
    BY <1>3, <2>1
  <2>3. F[<<f[i - 1], i>>] = 10 * f[i - 1] + s[i]
    BY <2>2
  <2> QED BY <1>3, <2>3
<1> QED BY <1>3, <1>4 DEF Prefixes

\* The values of the prefixes are the numeral's, whoever computed them.
LEMMA NumeralIs ==
    ASSUME NEW s, NEW n, Digits(s, n), NEW f, Prefixes(f, s, n)
    PROVE  Numeral(s) = f[n]
<1>0. n \in Nat /\ Len(s) = n
  BY DEF Digits
<1>1. f = [i \in 0 .. n |-> IF i = 0 THEN 0 ELSE 10 * f[i - 1] + s[i]]
  <2>1. \A i \in 0 .. n : f[i] = IF i = 0 THEN 0 ELSE 10 * f[i - 1] + s[i]
    BY <1>0 DEF Prefixes
  <2>2. f = [i \in 0 .. n |-> f[i]]
    BY DEF Prefixes
  <2> QED BY <2>1, <2>2, Zenon
<1>2. NumeralBy(f, s)
  BY <1>0, <1>1, Zenon DEF NumeralBy
<1>3. NumeralBy(CHOOSE g : NumeralBy(g, s), s)
  BY <1>2, Zenon
<1>4. PICK g : NumeralBy(g, s) /\ Numeral(s) = g[Len(s)]
  BY <1>3, Zenon DEF Numeral, NumeralBy
<1>5. \A i \in 0 .. n : g[i] = IF i = 0 THEN 0 ELSE 10 * g[i - 1] + s[i]
  BY <1>0, <1>4, Zenon DEF NumeralBy
<1> DEFINE S == {i \in 0 .. n : g[i] = f[i]}
<1>6. 0 \in S
  BY <1>0, <1>5 DEF Prefixes
<1>7. ASSUME NEW i \in 0 .. n - 1, i \in S PROVE i + 1 \in S
  <2>1. i + 1 \in 1 .. n /\ i + 1 \in 0 .. n /\ (i + 1) - 1 = i /\ i + 1 # 0
    BY <1>0
  <2>2. g[i + 1] = 10 * g[(i + 1) - 1] + s[i + 1]
    BY <1>5, <2>1
  <2>3. f[i + 1] = 10 * f[(i + 1) - 1] + s[i + 1]
    BY <2>1 DEF Prefixes
  <2>4. g[i] = f[i]
    BY <1>7
  <2> QED BY <2>1, <2>2, <2>3, <2>4
<1> HIDE DEF S
<1>8. \A i \in 0 .. n : i \in S
  BY <1>0, <1>6, <1>7, InductionUpTo
<1>9. n \in S
  BY <1>0, <1>8
<1> QED BY <1>0, <1>4, <1>9 DEF S

Powers(p, e) == p \in [0 .. e -> Nat] /\ p[0] = 1 /\ \A i \in 1 .. e : p[i] = 10 * p[i - 1]
PowersBy(g, e) == g = [i \in 0 .. e |-> IF i = 0 THEN 1 ELSE 10 * g[i - 1]]

\* So do the powers of ten.
LEMMA PowerIs == ASSUME NEW e \in Nat PROVE \E p : Powers(p, e) /\ PowerOfTen(e) = p[e]
<1> DEFINE F == [x \in Nat \X (1 .. e) |-> 10 * x[1]]
<1>1. Carrier(F, e, Nat)
  BY DEF Carrier
<1>2. PICK f : Carried(f, e, Nat, 1, F)
  <2>1. 1 \in Nat
    OBVIOUS
  <2> HIDE DEF F
  <2> QED BY <1>1, <2>1, Recursion
<1>3. f \in [0 .. e -> Nat] /\ f[0] = 1 /\ \A i \in 1 .. e : f[i] = F[<<f[i - 1], i>>]
  BY <1>2 DEF Carried
<1>4. ASSUME NEW i \in 1 .. e PROVE f[i] = 10 * f[i - 1]
  <2>1. i - 1 \in 0 .. e
    OBVIOUS
  <2>2. <<f[i - 1], i>> \in Nat \X (1 .. e)
    BY <1>3, <2>1
  <2>3. F[<<f[i - 1], i>>] = 10 * f[i - 1]
    BY <2>2
  <2> QED BY <1>3, <2>3
<1>5. f = [i \in 0 .. e |-> IF i = 0 THEN 1 ELSE 10 * f[i - 1]]
  <2>1. \A i \in 0 .. e : f[i] = IF i = 0 THEN 1 ELSE 10 * f[i - 1]
    BY <1>3, <1>4
  <2>2. f = [i \in 0 .. e |-> f[i]]
    BY <1>3
  <2> QED BY <2>1, <2>2, Zenon
<1>6. PowersBy(CHOOSE g : PowersBy(g, e), e)
  BY <1>5, Zenon DEF PowersBy
<1>7. PICK g : PowersBy(g, e) /\ PowerOfTen(e) = g[e]
  BY <1>6, Zenon DEF PowerOfTen, PowersBy
<1>8. \A i \in 0 .. e : g[i] = IF i = 0 THEN 1 ELSE 10 * g[i - 1]
  BY <1>7, Zenon DEF PowersBy
<1> DEFINE S == {i \in 0 .. e : g[i] = f[i]}
<1>9. 0 \in S
  BY <1>3, <1>8
<1>10. ASSUME NEW i \in 0 .. e - 1, i \in S PROVE i + 1 \in S
  <2>1. i + 1 \in 1 .. e /\ i + 1 \in 0 .. e /\ (i + 1) - 1 = i /\ i + 1 # 0
    OBVIOUS
  <2>2. g[i + 1] = 10 * g[(i + 1) - 1]
    BY <1>8, <2>1
  <2>3. f[i + 1] = 10 * f[(i + 1) - 1]
    BY <1>4, <2>1, Zenon
  <2>4. g[i] = f[i]
    BY <1>10
  <2> QED BY <2>1, <2>2, <2>3, <2>4
<1> HIDE DEF S
<1>11. \A i \in 0 .. e : i \in S
  BY <1>9, <1>10, InductionUpTo
<1>12. e \in S
  BY <1>11
<1>13. PowerOfTen(e) = f[e]
  BY <1>7, <1>12 DEF S
<1> QED BY <1>3, <1>4, <1>13 DEF Powers

\* The two halves of a concatenation, digit by digit.
Joined(z, s, m, t, n) ==
    Digits(z, m + n) /\ (\A i \in 1 .. m : z[i] = s[i]) /\ \A i \in 1 .. n : z[m + i] = t[i]

\* The value of two numerals written one after the other.
LEMMA JoinIs ==
    ASSUME NEW s, NEW m, Digits(s, m), NEW t, NEW n, Digits(t, n)
    PROVE  Joined(s \o t, s, m, t, n)
<1>1. s \in Seq(Nat) /\ t \in Seq(Nat) /\ Len(s) = m /\ Len(t) = n /\ m \in Nat /\ n \in Nat
  BY DEF Digits
<1> PICK q : q = s \o t
  OBVIOUS
<1>2. /\ q \in Seq(Nat) /\ Len(q) = m + n
      /\ \A i \in 1 .. m + n : q[i] = IF i <= m THEN s[i] ELSE t[i - m]
  BY <1>1, ConcatProperties
<1>3. Digits(q, m + n)
  <2>1. q \in [1 .. Len(q) -> Nat]
    BY <1>2, LenProperties
  <2> QED BY <1>1, <1>2, <2>1 DEF Digits
<1>4. ASSUME NEW i \in 1 .. m PROVE q[i] = s[i]
  <2>1. i \in 1 .. m + n /\ i <= m
    BY <1>1
  <2> QED BY <1>2, <2>1
<1>5. ASSUME NEW i \in 1 .. n PROVE q[m + i] = t[i]
  <2>1. m + i \in 1 .. m + n /\ ~(m + i <= m) /\ (m + i) - m = i
    BY <1>1
  <2> QED BY <1>2, <2>1
<1> QED BY <1>3, <1>4, <1>5 DEF Joined

\* A run of zeros is a numeral of zeros.
LEMMA ZerosAre == ASSUME NEW k \in Nat PROVE Digits(Zeros(k), k) /\ \A i \in 1 .. k : Zeros(k)[i] = 0
BY DEF Digits, Zeros

\* Zeros at the end shift a number.
LEMMA TrailingZeros ==
    ASSUME NEW s, NEW n, Digits(s, n), NEW e \in Nat
    PROVE  Numeral(s \o Zeros(e)) = Numeral(s) * PowerOfTen(e)
<1>0. n \in Nat
  BY DEF Digits
<1> PICK z : z = s \o Zeros(e)
  OBVIOUS
<1>1. Digits(z, n + e) /\ (\A i \in 1 .. n : z[i] = s[i]) /\ \A i \in 1 .. e : z[n + i] = 0
  <2>1. Digits(Zeros(e), e) /\ \A i \in 1 .. e : Zeros(e)[i] = 0
    BY ZerosAre
  <2>2. /\ Digits(z, n + e) /\ (\A i \in 1 .. n : z[i] = s[i])
        /\ \A i \in 1 .. e : z[n + i] = Zeros(e)[i]
    <3>1. Joined(z, s, n, Zeros(e), e)
      BY <2>1, JoinIs
    <3> QED BY <3>1 DEF Joined
  <2> QED BY <2>1, <2>2
<1>2. PICK f : Prefixes(f, s, n)
  BY PrefixesExist
<1>3. PICK p : Powers(p, e) /\ PowerOfTen(e) = p[e]
  BY PowerIs
<1>4. f \in [0 .. n -> Nat] /\ f[0] = 0 /\ \A i \in 1 .. n : f[i] = 10 * f[i - 1] + s[i]
  BY <1>2 DEF Prefixes
<1>5. p \in [0 .. e -> Nat] /\ p[0] = 1 /\ \A i \in 1 .. e : p[i] = 10 * p[i - 1]
  BY <1>3 DEF Powers
<1> PICK N : N = f[n]
  OBVIOUS
<1>6. N \in Nat
  BY <1>0, <1>4
<1> DEFINE g == [i \in 0 .. n + e |-> IF i <= n THEN f[i] ELSE N * p[i - n]]
<1>7. g \in [0 .. n + e -> Nat]
  <2> SUFFICES ASSUME NEW i \in 0 .. n + e PROVE (IF i <= n THEN f[i] ELSE N * p[i - n]) \in Nat
    OBVIOUS
  <2>1. CASE i <= n
    BY <1>0, <1>4, <2>1
  <2>2. CASE ~(i <= n)
    <3>1. i - n \in 0 .. e
      BY <1>0, <2>2
    <3>2. p[i - n] \in Nat
      BY <1>5, <3>1
    <3> QED BY <1>6, <2>2, <3>2
  <2> QED BY <2>1, <2>2
<1>8. g[0] = 0
  BY <1>0, <1>4
<1>9. ASSUME NEW i \in 1 .. n + e PROVE g[i] = 10 * g[i - 1] + z[i]
  <2>1. CASE i <= n
    <3>1. i \in 1 .. n /\ i \in 0 .. n + e /\ i - 1 \in 0 .. n + e /\ i - 1 <= n
      BY <1>0, <2>1
    <3>2. g[i] = f[i] /\ g[i - 1] = f[i - 1]
      BY <2>1, <3>1
    <3> QED BY <1>1, <1>4, <3>1, <3>2
  <2>2. CASE ~(i <= n)
    <3> PICK j : j = i - n
      OBVIOUS
    <3>1. j \in 1 .. e /\ i = n + j /\ j - 1 \in 0 .. e /\ i \in 0 .. n + e /\ i - 1 \in 0 .. n + e
      BY <1>0, <2>2
    <3>2. g[i] = N * p[j] /\ z[i] = 0
      BY <1>1, <2>2, <3>1
    <3>3. g[i - 1] = N * p[j - 1]
      <4>1. CASE j = 1
        <5>1. i - 1 = n /\ i - 1 <= n
          BY <1>0, <3>1, <4>1
        <5>2. g[i - 1] = N
          BY <3>1, <5>1
        <5> QED BY <1>5, <1>6, <4>1, <5>2
      <4>2. CASE j # 1
        <5>1. ~(i - 1 <= n) /\ (i - 1) - n = j - 1
          BY <1>0, <3>1, <4>2
        <5> QED BY <3>1, <5>1
      <4> QED BY <4>1, <4>2
    <3>4. p[j] = 10 * p[j - 1] /\ p[j - 1] \in Nat
      BY <1>5, <3>1
    <3>5. N * (10 * p[j - 1]) = 10 * (N * p[j - 1]) + 0
      BY <1>6, <3>4
    <3> QED BY <3>2, <3>3, <3>4, <3>5
  <2> QED BY <2>1, <2>2
<1>10. g[n + e] = N * p[e]
  <2>1. n + e \in 0 .. n + e
    BY <1>0
  <2>2. CASE e = 0
    <3>1. g[n + e] = N
      BY <1>0, <2>1, <2>2
    <3> QED BY <1>5, <1>6, <2>2, <3>1
  <2>3. CASE e # 0
    <3>1. ~(n + e <= n) /\ (n + e) - n = e
      BY <1>0, <2>3
    <3> QED BY <2>1, <3>1
  <2> QED BY <2>2, <2>3
<1> HIDE DEF g
<1>11. Prefixes(g, z, n + e)
  BY <1>7, <1>8, <1>9 DEF Prefixes
<1>12. Numeral(z) = g[n + e]
  BY <1>1, <1>11, NumeralIs
<1>13. Numeral(s) = N
  BY <1>2, NumeralIs
<1> QED BY <1>3, <1>10, <1>12, <1>13

\* Zeros in front say nothing.
LEMMA LeadingZeros ==
    ASSUME NEW s, NEW n, Digits(s, n), NEW k \in Nat
    PROVE  Numeral(Zeros(k) \o s) = Numeral(s)
<1>0. n \in Nat
  BY DEF Digits
<1> PICK z : z = Zeros(k) \o s
  OBVIOUS
<1>1. Digits(z, k + n) /\ (\A i \in 1 .. k : z[i] = 0) /\ \A i \in 1 .. n : z[k + i] = s[i]
  <2>1. Digits(Zeros(k), k) /\ \A i \in 1 .. k : Zeros(k)[i] = 0
    BY ZerosAre
  <2>2. /\ Digits(z, k + n) /\ (\A i \in 1 .. k : z[i] = Zeros(k)[i])
        /\ \A i \in 1 .. n : z[k + i] = s[i]
    <3>1. Joined(z, Zeros(k), k, s, n)
      BY <2>1, JoinIs
    <3> QED BY <3>1 DEF Joined
  <2> QED BY <2>1, <2>2
<1>2. PICK f : Prefixes(f, s, n)
  BY PrefixesExist
<1>4. f \in [0 .. n -> Nat] /\ f[0] = 0 /\ \A i \in 1 .. n : f[i] = 10 * f[i - 1] + s[i]
  BY <1>2 DEF Prefixes
<1> DEFINE g == [i \in 0 .. k + n |-> IF i <= k THEN 0 ELSE f[i - k]]
<1>7. g \in [0 .. k + n -> Nat]
  <2> SUFFICES ASSUME NEW i \in 0 .. k + n PROVE (IF i <= k THEN 0 ELSE f[i - k]) \in Nat
    OBVIOUS
  <2>1. CASE i <= k
    BY <2>1
  <2>2. CASE ~(i <= k)
    <3>1. i - k \in 0 .. n
      BY <1>0, <2>2
    <3> QED BY <1>4, <2>2, <3>1
  <2> QED BY <2>1, <2>2
<1>8. g[0] = 0
  BY <1>0
<1>9. ASSUME NEW i \in 1 .. k + n PROVE g[i] = 10 * g[i - 1] + z[i]
  <2>0. i \in 0 .. k + n /\ i - 1 \in 0 .. k + n
    BY <1>0
  <2>1. CASE i <= k
    <3>1. i \in 1 .. k /\ i - 1 <= k
      BY <2>1
    <3>2. g[i] = 0 /\ g[i - 1] = 0 /\ z[i] = 0
      BY <1>1, <2>0, <2>1, <3>1
    <3> QED BY <3>2
  <2>2. CASE ~(i <= k)
    <3> PICK j : j = i - k
      OBVIOUS
    <3>1. j \in 1 .. n /\ i = k + j /\ j - 1 \in 0 .. n
      BY <1>0, <2>2
    <3>2. g[i] = f[j] /\ z[i] = s[j]
      BY <1>1, <2>0, <2>2, <3>1
    <3>3. g[i - 1] = f[j - 1]
      <4>1. CASE j = 1
        BY <1>4, <2>0, <3>1, <4>1
      <4>2. CASE j # 1
        <5>1. ~(i - 1 <= k) /\ (i - 1) - k = j - 1
          BY <1>0, <3>1, <4>2
        <5> QED BY <2>0, <5>1
      <4> QED BY <4>1, <4>2
    <3> QED BY <1>4, <3>1, <3>2, <3>3
  <2> QED BY <2>1, <2>2
<1>10. g[k + n] = f[n]
  <2>1. k + n \in 0 .. k + n
    BY <1>0
  <2>2. CASE n = 0
    BY <1>4, <2>1, <2>2
  <2>3. CASE n # 0
    <3>1. ~(k + n <= k) /\ (k + n) - k = n
      BY <1>0, <2>3
    <3> QED BY <2>1, <3>1
  <2> QED BY <2>2, <2>3
<1> HIDE DEF g
<1>11. Prefixes(g, z, k + n)
  BY <1>7, <1>8, <1>9 DEF Prefixes
<1>12. Numeral(z) = g[k + n]
  BY <1>1, <1>11, NumeralIs
<1>13. Numeral(s) = f[n]
  BY <1>2, NumeralIs
<1> QED BY <1>10, <1>12, <1>13

\* A number in two halves, and one with nothing in front of the point.
LEMMA SplitDigits ==
    ASSUME NEW s, NEW n, Digits(s, n), NEW m \in 0 .. n
    PROVE  SubSeq(s, 1, m) \o SubSeq(s, m + 1, n) = s /\ Len(SubSeq(s, m + 1, n)) = n - m
<1>1. s \in Seq(Nat) /\ Len(s) = n /\ n \in Nat /\ \A i \in 1 .. n : s[i] \in Nat
  BY DEF Digits
<1>2. SubSeq(s, 1, m) \o SubSeq(s, m + 1, n) = SubSeq(s, 1, n)
  <2>1. 1 \in 1 .. Len(s) + 1 /\ m \in 1 - 1 .. Len(s) /\ n \in m .. Len(s)
    BY <1>1
  <2> QED BY <1>1, <2>1, ConcatAdjacentSubSeq
<1>3. SubSeq(s, 1, n) = s
  BY <1>1, SubSeqFull
<1>4. Len(SubSeq(s, m + 1, n)) = n - m
  <2>1. m + 1 \in Int /\ n \in Int /\ \A i \in m + 1 .. n : s[i] \in Nat
    BY <1>1
  <2>2. Len(SubSeq(s, m + 1, n)) = IF m + 1 <= n THEN n - (m + 1) + 1 ELSE 0
    BY <2>1, SubSeqProperties
  <2> QED BY <1>1, <2>2
<1> QED BY <1>2, <1>3, <1>4

\* A zero in front of a padded numeral is one more zero of padding.
LEMMA ZeroInFront ==
    ASSUME NEW s, NEW n, Digits(s, n), NEW k \in Nat
    PROVE  <<0>> \o (Zeros(k) \o s) = Zeros(k + 1) \o s /\ Len(Zeros(k) \o s) = k + n
<1>0. n \in Nat /\ Len(s) = n /\ s \in Seq(Nat)
  BY DEF Digits
<1>1. ASSUME NEW j \in Nat PROVE Zeros(j) \in Seq(Nat) /\ Len(Zeros(j)) = j /\ \A i \in 1 .. j : Zeros(j)[i] = 0
  <2>1. Digits(Zeros(j), j) /\ \A i \in 1 .. j : Zeros(j)[i] = 0
    BY ZerosAre
  <2> QED BY <2>1 DEF Digits
<1> PICK y : y = Zeros(k)
  OBVIOUS
<1> PICK x : x = Zeros(k + 1)
  OBVIOUS
<1> PICK o : o = <<0>>
  OBVIOUS
<1>2. y \in Seq(Nat) /\ Len(y) = k /\ \A i \in 1 .. k : y[i] = 0
  BY <1>1
<1>3. x \in Seq(Nat) /\ Len(x) = k + 1 /\ \A i \in 1 .. k + 1 : x[i] = 0
  <2>1. k + 1 \in Nat
    OBVIOUS
  <2> QED BY <1>1, <2>1
<1>4. o \in Seq(Nat) /\ Len(o) = 1 /\ o[1] = 0
  OBVIOUS
<1> PICK w : w = o \o y
  OBVIOUS
<1>5. /\ w \in Seq(Nat) /\ Len(w) = 1 + k
      /\ \A i \in 1 .. 1 + k : w[i] = IF i <= 1 THEN o[i] ELSE y[i - 1]
  BY <1>2, <1>4, ConcatProperties
<1>6. w = x
  <2>1. ASSUME NEW i \in 1 .. k + 1 PROVE w[i] = x[i]
    <3>1. i \in 1 .. 1 + k
      OBVIOUS
    <3>2. CASE i <= 1
      <4>1. i = 1
        BY <3>2
      <4> QED BY <1>3, <1>4, <1>5, <3>1, <3>2, <4>1
    <3>3. CASE ~(i <= 1)
      <4>1. i - 1 \in 1 .. k
        BY <3>3
      <4> QED BY <1>2, <1>3, <1>5, <3>1, <3>3, <4>1
    <3> QED BY <3>2, <3>3
  <2>2. Len(w) = Len(x) /\ \A i \in 1 .. Len(w) : w[i] = x[i]
    BY <1>3, <1>5, <2>1
  <2> QED BY <1>3, <1>5, <2>2, SeqEqual
<1>7. (o \o y) \o s = o \o (y \o s)
  BY <1>0, <1>2, <1>4, ConcatAssociative
<1>8. Len(y \o s) = k + n
  BY <1>0, <1>2, ConcatProperties
<1> QED BY <1>6, <1>7, <1>8

\* A Decimal's text is worth its digits, shifted by its exponent when that is positive.
ExactText(s, sign, digits, exponent) ==
    LET places == IF exponent < 0 THEN -exponent ELSE 0
        scale  == IF exponent < 0 THEN 1 ELSE PowerOfTen(exponent)
    IN  /\ s.sign = sign
        /\ Len(s.frac) = places
        /\ Numeral(s.whole \o s.frac) = Numeral(digits) * scale

\* The text of a decimal has exactly the decimal's value.
LEMMA TextIsExact ==
    ASSUME NEW sign, NEW digits, NEW n, Digits(digits, n), NEW exponent \in Int, Numeral(digits) \in Nat
    PROVE  ExactText(DecimalTupleToStr(sign, digits, exponent), sign, digits, exponent)
<1>0. n \in Nat /\ Len(digits) = n /\ digits \in Seq(Nat)
  BY DEF Digits
<1> PICK s : s = DecimalTupleToStr(sign, digits, exponent)
  OBVIOUS
<1>1. CASE exponent >= 0
  <2>1. s = [sign |-> sign, whole |-> digits \o Zeros(exponent), frac |-> <<>>]
    BY <1>1, Zenon DEF DecimalTupleToStr
  <2>2. s.sign = sign /\ s.whole = digits \o Zeros(exponent) /\ s.frac = <<>>
    BY <2>1
  <2>3. exponent \in Nat /\ ~(exponent < 0)
    BY <1>1
  <2>4. Digits(Zeros(exponent), exponent)
    BY <2>3, ZerosAre
  <2>5. Zeros(exponent) \in Seq(Nat)
    BY <2>3, <2>4 DEF Digits
  <2>6. s.whole \o s.frac = s.whole
    <3>1. s.whole \in Seq(Nat)
      BY <1>0, <2>2, <2>5
    <3> QED BY <2>2, <3>1
  <2>7. Numeral(digits \o Zeros(exponent)) = Numeral(digits) * PowerOfTen(exponent)
    BY <2>3, TrailingZeros
  <2>8. Len(s.frac) = 0
    BY <2>2
  <2> QED BY <2>2, <2>3, <2>6, <2>7, <2>8 DEF ExactText
<1>2. CASE exponent < 0
  <2> PICK k : k = -exponent
    OBVIOUS
  <2>1. k \in Nat /\ k # 0 /\ ~(exponent >= 0)
    BY <1>2
  <2>2. CASE n > k
    <3>1. s = [sign |-> sign, whole |-> SubSeq(digits, 1, n - k), frac |-> SubSeq(digits, (n - k) + 1, n)]
      BY <1>0, <2>1, <2>2 DEF DecimalTupleToStr
    <3>2. n - k \in 0 .. n /\ n - (n - k) = k
      BY <1>0, <2>1, <2>2
    <3>3. /\ SubSeq(digits, 1, n - k) \o SubSeq(digits, (n - k) + 1, n) = digits
          /\ Len(SubSeq(digits, (n - k) + 1, n)) = k
      BY <3>2, SplitDigits
    <3>4. s.sign = sign /\ s.whole \o s.frac = digits /\ Len(s.frac) = k
      <4>1. PICK a : a = SubSeq(digits, 1, n - k)
        OBVIOUS
      <4>2. PICK b : b = SubSeq(digits, (n - k) + 1, n)
        OBVIOUS
      <4>3. s = [sign |-> sign, whole |-> a, frac |-> b]
        BY <3>1, <4>1, <4>2, Zenon
      <4>4. s.sign = sign /\ s.whole = a /\ s.frac = b
        BY <4>3
      <4> QED BY <3>3, <4>1, <4>2, <4>4, Zenon
    <3> QED BY <1>2, <3>4 DEF ExactText
  <2>3. CASE ~(n > k)
    <3>1. s = [sign |-> sign, whole |-> <<0>>, frac |-> Zeros(k - n) \o digits]
      BY <1>0, <2>1, <2>3 DEF DecimalTupleToStr
    <3>2. k - n \in Nat /\ (k - n) + n = k /\ (k - n) + 1 \in Nat
      BY <1>0, <2>1, <2>3
    <3>3. /\ <<0>> \o (Zeros(k - n) \o digits) = Zeros((k - n) + 1) \o digits
          /\ Len(Zeros(k - n) \o digits) = (k - n) + n
      BY <3>2, ZeroInFront
    <3>4. Numeral(Zeros((k - n) + 1) \o digits) = Numeral(digits)
      BY <3>2, LeadingZeros
    <3>5. s.sign = sign /\ s.whole = <<0>> /\ s.frac = Zeros(k - n) \o digits
      BY <3>1
    <3>6. Numeral(s.whole \o s.frac) = Numeral(digits) /\ Len(s.frac) = k
      BY <3>2, <3>3, <3>4, <3>5
    <3> QED BY <1>2, <3>5, <3>6 DEF ExactText
  <2> QED BY <2>2, <2>3
<1> QED BY <1>1, <1>2

DecimalInv ==
    subject = "decimal" =>
        \E n, digits : \E exponent \in Int : \E sign, o :
            /\ Digits(digits, n)
            /\ st = [sign |-> sign, digits |-> digits, exponent |-> exponent, out |-> o]
            /\ o = {} \/ o = {DecimalTupleToStr(sign, digits, exponent)}

\* The initial states satisfy the decimal invariant.
LEMMA DecimalInits == DecimalInit => DecimalInv
<1> SUFFICES ASSUME DecimalInit PROVE DecimalInv
  OBVIOUS
<1>1. PICK n \in 1 .. MaxDigits : \E digits \in [1 .. n -> {0, 1, 9}],
           exponent \in -MaxExponent .. MaxExponent, sign \in 0 .. 1 :
              st = [sign |-> sign, digits |-> digits, exponent |-> exponent, out |-> {}]
  BY Zenon DEF DecimalInit
<1>2. PICK digits \in [1 .. n -> {0, 1, 9}], exponent \in -MaxExponent .. MaxExponent, sign \in 0 .. 1 :
              st = [sign |-> sign, digits |-> digits, exponent |-> exponent, out |-> {}]
  BY <1>1
<1>3. MaxDigits \in Nat /\ MaxExponent \in Nat
  BY ContractsAssumption
<1>4. Digits(digits, n) /\ exponent \in Int
  BY <1>3 DEF Digits
<1> QED BY <1>2, <1>4, Zenon DEF DecimalInv

\* Every step of such a call keeps the decimal invariant.
LEMMA DecimalSteps == ASSUME DecimalInv, subject = "decimal", DecimalToStr PROVE DecimalInv'
<1>1. PICK n, digits : \E exponent \in Int : \E sign, o :
            /\ Digits(digits, n)
            /\ st = [sign |-> sign, digits |-> digits, exponent |-> exponent, out |-> o]
            /\ o = {} \/ o = {DecimalTupleToStr(sign, digits, exponent)}
  BY Zenon DEF DecimalInv
<1>2. PICK exponent \in Int : \E sign, o :
            st = [sign |-> sign, digits |-> digits, exponent |-> exponent, out |-> o]
  BY <1>1
<1>3. PICK sign, o : st = [sign |-> sign, digits |-> digits, exponent |-> exponent, out |-> o]
  BY <1>2
<1>4. st.sign = sign /\ st.digits = digits /\ st.exponent = exponent
  BY <1>3
<1> PICK s : s = DecimalTupleToStr(sign, digits, exponent)
  OBVIOUS
<1>5. st' = [st EXCEPT !.out = {s}]
  BY <1>4, Zenon DEF DecimalToStr, Step
<1>6. st' = [sign |-> sign, digits |-> digits, exponent |-> exponent, out |-> {s}]
  BY <1>3, <1>5
<1> QED BY <1>1, <1>6, Zenon DEF DecimalInv

\* The decimal invariant gives the property its calls are checked for.
LEMMA DecimalInvHolds == DecimalInv => DecimalIsExact
<1> SUFFICES ASSUME DecimalInv, subject = "decimal", NEW s \in st.out
             PROVE  ExactText(s, st.sign, st.digits, st.exponent)
  BY Zenon DEF DecimalIsExact, ExactText
<1>1. PICK n, digits : \E exponent \in Int : \E sign, o :
            /\ Digits(digits, n)
            /\ st = [sign |-> sign, digits |-> digits, exponent |-> exponent, out |-> o]
            /\ o = {} \/ o = {DecimalTupleToStr(sign, digits, exponent)}
  BY Zenon DEF DecimalInv
<1>2. PICK exponent \in Int : \E sign, o :
            /\ st = [sign |-> sign, digits |-> digits, exponent |-> exponent, out |-> o]
            /\ o = {} \/ o = {DecimalTupleToStr(sign, digits, exponent)}
  BY <1>1
<1>3. PICK sign, o :
            /\ st = [sign |-> sign, digits |-> digits, exponent |-> exponent, out |-> o]
            /\ o = {} \/ o = {DecimalTupleToStr(sign, digits, exponent)}
  BY <1>2
<1>4. st.sign = sign /\ st.digits = digits /\ st.exponent = exponent /\ st.out = o
  BY <1>3
<1>5. s = DecimalTupleToStr(sign, digits, exponent)
  BY <1>3, <1>4
<1>6. Digits(digits, n)
  BY <1>1
<1>7. Numeral(digits) \in Nat
  <2>1. PICK f : Prefixes(f, digits, n)
    BY <1>6, PrefixesExist
  <2>2. Numeral(digits) = f[n]
    BY <1>6, <2>1, NumeralIs
  <2> QED BY <1>6, <2>1, <2>2 DEF Prefixes, Digits
<1>8. ExactText(DecimalTupleToStr(sign, digits, exponent), sign, digits, exponent)
  BY <1>6, <1>7, TextIsExact
<1> QED BY <1>4, <1>5, <1>8
-----------------------------------------------------------------------------
(***************************************************************************)
(* Contracts: canonical JSON.                                              *)
(***************************************************************************)
KeyTexts == {"1", "a", "object_id"}

\* The order of the texts is total, and no text comes before itself.
LEMMA BeforeIs ==
    /\ \A x, y \in KeyTexts : x # y => Before(x, y) \/ Before(y, x)
    /\ \A x, y : ~(Before(x, y) /\ Before(y, x))
<1> DEFINE q == <<"1", "a", "object_id">>
<1>1. q[1] = "1" /\ q[2] = "a" /\ q[3] = "object_id"
  OBVIOUS
<1> HIDE DEF q
<1>2. ASSUME NEW x, NEW y, NEW i \in 1 .. 3, NEW j \in 1 .. 3, i < j, q[i] = x, q[j] = y PROVE Before(x, y)
  <2>1. \E k, l \in 1 .. 3 : k < l /\ q[k] = x /\ q[l] = y
    BY <1>2
  <2> QED BY <2>1, Zenon DEF Before, q
<1>3. Before("1", "a") /\ Before("1", "object_id") /\ Before("a", "object_id")
  <2>1. 1 \in 1 .. 3 /\ 2 \in 1 .. 3 /\ 3 \in 1 .. 3 /\ 1 < 2 /\ 1 < 3 /\ 2 < 3
    OBVIOUS
  <2> QED BY <1>1, <1>2, <2>1
<1>4. ASSUME NEW x, NEW y, Before(x, y) PROVE \E i, j \in 1 .. 3 : i < j /\ q[i] = x /\ q[j] = y
  BY <1>4, Zenon DEF Before, q
<1>5. ASSUME NEW i \in 1 .. 3, NEW j \in 1 .. 3, q[i] = q[j] PROVE i = j
  BY <1>1, <1>5
<1>6. ASSUME NEW x, NEW y, Before(x, y), Before(y, x) PROVE FALSE
  <2>1. PICK i, j \in 1 .. 3 : i < j /\ q[i] = x /\ q[j] = y
    BY <1>4, <1>6
  <2>2. PICK k, l \in 1 .. 3 : k < l /\ q[k] = y /\ q[l] = x
    BY <1>4, <1>6
  <2>3. i = l /\ j = k
    BY <1>5, <2>1, <2>2
  <2> QED BY <2>1, <2>2, <2>3
<1> QED BY <1>3, <1>6 DEF KeyTexts

\* n items, no text twice.
ItemsAre(s, n) ==
    /\ n \in 0 .. 2 /\ s \in [1 .. n -> [text : KeyTexts, value : Scalar]]
    /\ \A i, j \in 1 .. n : i # j => s[i].text # s[j].text
ItemsOf(s) == {s[i] : i \in DOMAIN s}

\* The same items have one order.
LEMMA OrderIsOne ==
    ASSUME NEW a, NEW m, ItemsAre(a, m), InOrder(a), NEW b, NEW n, ItemsAre(b, n), InOrder(b),
           ItemsOf(a) = ItemsOf(b)
    PROVE  a = b
<1>1. /\ m \in 0 .. 2 /\ DOMAIN a = 1 .. m /\ (\A i, j \in 1 .. m : i # j => a[i].text # a[j].text)
      /\ n \in 0 .. 2 /\ DOMAIN b = 1 .. n /\ (\A i, j \in 1 .. n : i # j => b[i].text # b[j].text)
      /\ (\A i \in 1 .. m : a[i].text \in KeyTexts) /\ \A i \in 1 .. n : b[i].text \in KeyTexts
      /\ a = [i \in 1 .. m |-> a[i]] /\ b = [i \in 1 .. n |-> b[i]]
  BY DEF ItemsAre
<1>2. \A i \in 1 .. m : \E j \in 1 .. n : b[j] = a[i]
  <2> SUFFICES ASSUME NEW i \in 1 .. m PROVE \E j \in 1 .. n : b[j] = a[i]
    OBVIOUS
  <2>1. a[i] \in ItemsOf(a)
    BY <1>1, Zenon DEF ItemsOf
  <2>2. PICK j \in DOMAIN b : a[i] = b[j]
    BY <2>1, Zenon DEF ItemsOf
  <2> QED BY <1>1, <2>2
<1>3. \A i \in 1 .. n : \E j \in 1 .. m : a[j] = b[i]
  <2> SUFFICES ASSUME NEW i \in 1 .. n PROVE \E j \in 1 .. m : a[j] = b[i]
    OBVIOUS
  <2>1. b[i] \in ItemsOf(b)
    BY <1>1, Zenon DEF ItemsOf
  <2>2. PICK j \in DOMAIN a : b[i] = a[j]
    BY <2>1, Zenon DEF ItemsOf
  <2> QED BY <1>1, <2>2
<1>4. /\ \A i, j \in 1 .. m : Before(a[i].text, a[j].text) => i < j
      /\ \A i, j \in 1 .. n : Before(b[i].text, b[j].text) => i < j
  BY <1>1, Zenon DEF InOrder
<1>5. m = n
  <2>1. CASE m = 0
    BY <1>1, <1>3, <2>1
  <2>2. CASE m = 1
    <3>1. n # 0
      BY <1>2, <2>2
    <3>2. ASSUME n = 2 PROVE FALSE
      <4>1. b[1] = a[1] /\ b[2] = a[1]
        BY <1>3, <2>2, <3>2
      <4> QED BY <1>1, <3>2, <4>1
    <3> QED BY <1>1, <2>2, <3>1, <3>2
  <2>3. CASE m = 2
    <3>1. n # 0
      BY <1>2, <2>3
    <3>2. ASSUME n = 1 PROVE FALSE
      <4>1. a[1] = b[1] /\ a[2] = b[1]
        BY <1>2, <2>3, <3>2
      <4> QED BY <1>1, <2>3, <4>1
    <3> QED BY <1>1, <2>3, <3>1, <3>2
  <2> QED BY <1>1, <2>1, <2>2, <2>3
<1>6. \A i \in 1 .. m : a[i] = b[i]
  <2>1. CASE m = 0
    BY <2>1
  <2>2. CASE m = 1
    BY <1>2, <1>5, <2>2
  <2>3. CASE m = 2
    <3>1. (a[1] = b[1] \/ a[1] = b[2]) /\ (a[2] = b[1] \/ a[2] = b[2])
      BY <1>2, <1>5, <2>3
    <3>2. a[1].text # a[2].text
      BY <1>1, <2>3
    <3>3. a[1] # a[2]
      BY <3>2
    <3>4. CASE a[1] = b[2] /\ a[2] = b[1]
      <4>1. Before(a[1].text, a[2].text) \/ Before(a[2].text, a[1].text)
        BY <1>1, <2>3, <3>2, BeforeIs
      <4>2. Before(a[2].text, a[1].text) => 2 < 1
        BY <1>4, <2>3
      <4>3. Before(b[2].text, b[1].text) => 2 < 1
        BY <1>4, <1>5, <2>3
      <4> QED BY <3>4, <4>1, <4>2, <4>3
    <3>5. CASE a[1] = b[1] /\ a[2] = b[2]
      BY <2>3, <3>5
    <3> QED BY <3>1, <3>3, <3>4, <3>5
  <2>4. m = 0 \/ m = 1 \/ m = 2
    <3>1. m \in 0 .. 2
      BY <1>1
    <3> QED BY <3>1
  <2> QED BY <2>1, <2>2, <2>3, <2>4, Zenon
<1> QED BY <1>1, <1>5, <1>6, Zenon

\* An object of n items.
ObjectIs(o, n) ==
    /\ n \in 0 .. 2 /\ o \in [1 .. n -> [key : Keys, value : Scalar]]
    /\ \A i, j \in 1 .. n : i # j => o[i].key # o[j].key

\* The shape of the objects presented.
LEMMA ObjectsAre == ASSUME NEW o \in JsonObjects PROVE \E n : ObjectIs(o, n)
<1>1. PICK n \in 0 .. 2 : o \in [1 .. n -> [key : Keys, value : Scalar]]
  BY Zenon DEF JsonObjects
<1>2. \A i, j \in DOMAIN o : i # j => o[i].key # o[j].key
  BY Zenon DEF JsonObjects
<1>3. DOMAIN o = 1 .. n
  BY <1>1
<1> QED BY <1>1, <1>2, <1>3 DEF ObjectIs

\* The shape of their keys.
LEMMA KeysAre ==
    ASSUME NEW k \in Keys
    PROVE  /\ k = [kind |-> k.kind, text |-> k.text] /\ k.text \in KeyTexts /\ k.kind \in {"str", "int"}
           /\ k.text = "object_id" => k = StrKey("object_id")
BY DEF Keys, StrKey, IntKey, KeyTexts

\* Nothing in it that has no text, and keys of one kind.
Plain(o) == ~(Cardinality(Kinds(o)) > 1 \/ \E i \in DOMAIN o : o[i].value = "NaN")

\* The keys of an object that can be sorted are of one kind.
LEMMA PlainIsOneKind ==
    ASSUME NEW o, NEW n, ObjectIs(o, n), Plain(o)
    PROVE  \A i, j \in 1 .. n : o[i].key.kind = o[j].key.kind
<1> SUFFICES ASSUME NEW i \in 1 .. n, NEW j \in 1 .. n, o[i].key.kind # o[j].key.kind PROVE FALSE
  OBVIOUS
<1>1. DOMAIN o = 1 .. n /\ \A k \in 1 .. n : o[k].key \in Keys
  BY DEF ObjectIs
<1>2. \A k \in 1 .. n : o[k].key.kind \in {"str", "int"}
  BY <1>1, KeysAre
<1>3. Kinds(o) \subseteq {"str", "int"}
  <2> SUFFICES ASSUME NEW x \in Kinds(o) PROVE x \in {"str", "int"}
    OBVIOUS
  <2>1. PICK k \in DOMAIN o : x = o[k].key.kind
    BY Zenon DEF Kinds
  <2> QED BY <1>1, <1>2, <2>1
<1>4. o[i].key.kind \in Kinds(o) /\ o[j].key.kind \in Kinds(o)
  BY <1>1, Zenon DEF Kinds
<1>5. Kinds(o) = {"str", "int"}
  BY <1>2, <1>3, <1>4
<1>6. Cardinality({"str", "int"}) = 2
  <2>1. IsFiniteSet({"str"}) /\ Cardinality({"str"}) = 1
    BY FS_Singleton
  <2>2. Cardinality({"str"} \cup {"int"}) = IF "int" \in {"str"} THEN 1 ELSE 1 + 1
    BY <2>1, FS_AddElement
  <2>3. {"str"} \cup {"int"} = {"str", "int"}
    OBVIOUS
  <2> QED BY <2>2, <2>3
<1> QED BY <1>5, <1>6 DEF Plain

\* The items of a plain object are n items with texts of their own.
LEMMA PlainItems ==
    ASSUME NEW o, NEW n, ObjectIs(o, n), Plain(o)
    PROVE  ItemsAre(ItemTexts(o), n)
<1>1. /\ DOMAIN o = 1 .. n /\ n \in 0 .. 2 /\ (\A k \in 1 .. n : o[k].key \in Keys /\ o[k].value \in Scalar)
      /\ \A i, j \in 1 .. n : i # j => o[i].key # o[j].key
  BY DEF ObjectIs
<1>2. \A i, j \in 1 .. n : o[i].key.kind = o[j].key.kind
  BY PlainIsOneKind
<1>3. ASSUME NEW i \in 1 .. n, NEW j \in 1 .. n, i # j PROVE o[i].key.text # o[j].key.text
  <2>1. /\ o[i].key = [kind |-> o[i].key.kind, text |-> o[i].key.text]
        /\ o[j].key = [kind |-> o[j].key.kind, text |-> o[j].key.text]
    BY <1>1, KeysAre
  <2> QED BY <1>1, <1>2, <1>3, <2>1
<1>4. \A i \in 1 .. n : o[i].key.text \in KeyTexts
  BY <1>1, KeysAre
<1> PICK t : t = ItemTexts(o)
  OBVIOUS
<1>5. t = [i \in 1 .. n |-> [text |-> o[i].key.text, value |-> o[i].value]]
  BY <1>1, Zenon DEF ItemTexts
<1>6. \A i \in 1 .. n : t[i].text = o[i].key.text
  BY <1>5
<1>7. t \in [1 .. n -> [text : KeyTexts, value : Scalar]]
  BY <1>1, <1>4, <1>5
<1>8. \A i, j \in 1 .. n : i # j => t[i].text # t[j].text
  BY <1>3, <1>6
<1> QED BY <1>1, <1>7, <1>8 DEF ItemsAre

\* The ways to arrange items.
Arrangements(o) ==
    {[i \in DOMAIN o |-> ItemTexts(o)[p[i]]] :
        p \in {q \in [DOMAIN o -> DOMAIN o] : \A i, j \in DOMAIN o : i # j => q[i] # q[j]}}

\* An arrangement has the same items, and one is in order.
LEMMA ArrangedIs ==
    ASSUME NEW o, NEW n, ObjectIs(o, n), Plain(o), NEW s \in Arrangements(o)
    PROVE  ItemsAre(s, n) /\ ItemsOf(s) = ItemsOf(ItemTexts(o))
<1> PICK t : t = ItemTexts(o)
  OBVIOUS
<1>1. ItemsAre(t, n)
  BY PlainItems
<1>2. DOMAIN o = 1 .. n /\ n \in 0 .. 2
  BY DEF ObjectIs
<1>3. /\ DOMAIN t = 1 .. n /\ (\A i \in 1 .. n : t[i] \in [text : KeyTexts, value : Scalar])
      /\ \A i, j \in 1 .. n : i # j => t[i].text # t[j].text
  BY <1>1 DEF ItemsAre
<1>4. PICK p \in [1 .. n -> 1 .. n] : (\A i, j \in 1 .. n : i # j => p[i] # p[j]) /\ s = [i \in 1 .. n |-> t[p[i]]]
  <2>1. PICK p \in {q \in [DOMAIN o -> DOMAIN o] : \A i, j \in DOMAIN o : i # j => q[i] # q[j]} :
            s = [i \in DOMAIN o |-> ItemTexts(o)[p[i]]]
    BY Zenon DEF Arrangements
  <2>2. p \in [1 .. n -> 1 .. n] /\ (\A i, j \in 1 .. n : i # j => p[i] # p[j])
    BY <1>2, <2>1
  <2>3. s = [i \in 1 .. n |-> t[p[i]]]
    BY <1>2, <2>1, Zenon
  <2> QED BY <2>2, <2>3
<1>5. DOMAIN s = 1 .. n /\ \A i \in 1 .. n : s[i] = t[p[i]] /\ p[i] \in 1 .. n
  BY <1>4
<1>6. ItemsAre(s, n)
  <2>1. s \in [1 .. n -> [text : KeyTexts, value : Scalar]]
    BY <1>3, <1>4
  <2>2. ASSUME NEW i \in 1 .. n, NEW j \in 1 .. n, i # j PROVE s[i].text # s[j].text
    <3>1. p[i] # p[j]
      BY <1>4, <2>2
    <3> QED BY <1>3, <1>5, <3>1
  <2> QED BY <1>2, <2>1, <2>2 DEF ItemsAre
<1>7. \A k \in 1 .. n : \E i \in 1 .. n : p[i] = k
  <2>1. CASE n = 0
    BY <2>1
  <2>2. CASE n = 1
    BY <1>4, <2>2
  <2>3. CASE n = 2
    <3>1. p[1] \in {1, 2} /\ p[2] \in {1, 2} /\ p[1] # p[2]
      BY <1>4, <2>3
    <3> QED BY <2>3, <3>1
  <2> QED BY <1>2, <2>1, <2>2, <2>3
<1>8. ItemsOf(s) \subseteq ItemsOf(t)
  <2> SUFFICES ASSUME NEW x \in ItemsOf(s) PROVE x \in ItemsOf(t)
    OBVIOUS
  <2>1. PICK i \in 1 .. n : x = s[i]
    BY <1>5, Zenon DEF ItemsOf
  <2>2. x = t[p[i]] /\ p[i] \in DOMAIN t
    BY <1>3, <1>5, <2>1
  <2> QED BY <2>2, Zenon DEF ItemsOf
<1>9. ItemsOf(t) \subseteq ItemsOf(s)
  <2> SUFFICES ASSUME NEW x \in ItemsOf(t) PROVE x \in ItemsOf(s)
    OBVIOUS
  <2>1. PICK k \in 1 .. n : x = t[k]
    BY <1>3, Zenon DEF ItemsOf
  <2>2. PICK i \in 1 .. n : p[i] = k
    BY <1>7
  <2>3. x = s[i] /\ i \in DOMAIN s
    BY <1>5, <2>1, <2>2
  <2> QED BY <2>3, Zenon DEF ItemsOf
<1> QED BY <1>6, <1>8, <1>9

\* Such an object's items can be put in order.
LEMMA ArrangementExists ==
    ASSUME NEW o, NEW n, ObjectIs(o, n), Plain(o)
    PROVE  \E s \in Arrangements(o) : InOrder(s)
<1> PICK t : t = ItemTexts(o)
  OBVIOUS
<1>1. ItemsAre(t, n)
  BY PlainItems
<1>2. DOMAIN o = 1 .. n /\ n \in 0 .. 2
  BY DEF ObjectIs
<1>3. /\ DOMAIN t = 1 .. n /\ t = [i \in 1 .. n |-> t[i]] /\ (\A i \in 1 .. n : t[i].text \in KeyTexts)
      /\ \A i, j \in 1 .. n : i # j => t[i].text # t[j].text
  BY <1>1 DEF ItemsAre
<1>4. ASSUME NEW p \in [1 .. n -> 1 .. n], \A i, j \in 1 .. n : i # j => p[i] # p[j]
      PROVE  [i \in 1 .. n |-> t[p[i]]] \in Arrangements(o)
  BY <1>2, <1>4, Zenon DEF Arrangements
<1>5. CASE \A i, j \in 1 .. n : Before(t[i].text, t[j].text) => i < j
  <2> PICK p : p = [i \in 1 .. n |-> i]
    OBVIOUS
  <2>1. p \in [1 .. n -> 1 .. n] /\ (\A i, j \in 1 .. n : i # j => p[i] # p[j]) /\ \A i \in 1 .. n : p[i] = i
    OBVIOUS
  <2>2. [i \in 1 .. n |-> t[p[i]]] \in Arrangements(o)
    BY <1>4, <2>1
  <2>3. [i \in 1 .. n |-> t[p[i]]] = t
    BY <1>3, <2>1
  <2>4. InOrder(t)
    BY <1>3, <1>5, Zenon DEF InOrder
  <2> QED BY <2>2, <2>3, <2>4
<1>6. CASE ~\A i, j \in 1 .. n : Before(t[i].text, t[j].text) => i < j
  <2>1. PICK k, l \in 1 .. n : Before(t[k].text, t[l].text) /\ ~(k < l)
    BY <1>6
  <2>2. k # l
    BY <2>1, BeforeIs
  <2>3. n = 2 /\ k = 2 /\ l = 1
    BY <1>2, <2>1, <2>2
  <2> PICK p : p = [i \in 1 .. n |-> 3 - i]
    OBVIOUS
  <2>4. p \in [1 .. n -> 1 .. n] /\ (\A i, j \in 1 .. n : i # j => p[i] # p[j]) /\ p[1] = 2 /\ p[2] = 1
    BY <2>3
  <2> PICK s : s = [i \in 1 .. n |-> t[p[i]]]
    OBVIOUS
  <2>5. s \in Arrangements(o)
    BY <1>4, <2>4
  <2>6. DOMAIN s = 1 .. n /\ s[1] = t[2] /\ s[2] = t[1]
    BY <2>3, <2>4
  <2>7. ~Before(t[1].text, t[2].text) /\ ~Before(t[1].text, t[1].text) /\ ~Before(t[2].text, t[2].text)
    BY <2>1, <2>3, BeforeIs
  <2>8. ASSUME NEW i \in 1 .. n, NEW j \in 1 .. n, Before(s[i].text, s[j].text) PROVE i < j
    <3>1. (i = 1 \/ i = 2) /\ (j = 1 \/ j = 2)
      BY <2>3
    <3> QED BY <2>6, <2>7, <2>8, <3>1
  <2>9. InOrder(s)
    BY <2>6, <2>8, Zenon DEF InOrder
  <2> QED BY <2>5, <2>9
<1> QED BY <1>5, <1>6

\* What dumps makes of a plain object: its items, in order.
DumpFacts(b, o, n) == ItemsAre(b, n) /\ InOrder(b) /\ ItemsOf(b) = ItemsOf(ItemTexts(o)) /\ Dumps(o) = {b}

\* So it is written, as the same items in order.
LEMMA DumpIs ==
    ASSUME NEW o, NEW n, ObjectIs(o, n), Plain(o)
    PROVE  \E b : DumpFacts(b, o, n)
<1> PICK b : b = CHOOSE s \in Arrangements(o) : InOrder(s)
  OBVIOUS
<1>1. b \in Arrangements(o) /\ InOrder(b)
  BY ArrangementExists, Zenon
<1>2. ItemsAre(b, n) /\ ItemsOf(b) = ItemsOf(ItemTexts(o))
  BY <1>1, ArrangedIs
<1>3. Dumps(o) = {b}
  BY Zenon DEF Dumps, Plain, Arrangements
<1> QED BY <1>1, <1>2, <1>3, Zenon DEF DumpFacts

\* An object that cannot be sorted is not written.
LEMMA NotPlain == ASSUME NEW o, ~Plain(o) PROVE Dumps(o) = {}
BY Zenon DEF Dumps, Plain

\* What is read back is an object of the same texts.
LoadFacts(l, b, n) == ObjectIs(l, n) /\ Plain(l) /\ ItemTexts(l) = b

\* Reading back what was written gives its items.
LEMMA LoadsIs ==
    ASSUME NEW b, NEW n, ItemsAre(b, n), \A i \in 1 .. n : b[i].value # "NaN"
    PROVE  LoadFacts(Loads(b), b, n)
<1> PICK l : l = Loads(b)
  OBVIOUS
<1>1. /\ n \in 0 .. 2 /\ DOMAIN b = 1 .. n /\ b = [i \in 1 .. n |-> b[i]]
      /\ (\A i \in 1 .. n : b[i] = [text |-> b[i].text, value |-> b[i].value] /\ b[i].text \in KeyTexts /\ b[i].value \in Scalar)
      /\ \A i, j \in 1 .. n : i # j => b[i].text # b[j].text
  BY DEF ItemsAre
<1>2. l = [i \in 1 .. n |-> [key |-> StrKey(b[i].text), value |-> b[i].value]]
  BY <1>1, Zenon DEF Loads
<1>3. DOMAIN l = 1 .. n /\ \A i \in 1 .. n : l[i].key = StrKey(b[i].text) /\ l[i].value = b[i].value
  BY <1>2
<1>4. \A x \in KeyTexts : StrKey(x) \in Keys /\ StrKey(x).text = x /\ StrKey(x).kind = "str"
  BY DEF KeyTexts, Keys, StrKey, IntKey
<1>5. ObjectIs(l, n)
  <2>1. l \in [1 .. n -> [key : Keys, value : Scalar]]
    BY <1>1, <1>2, <1>4
  <2>2. ASSUME NEW i \in 1 .. n, NEW j \in 1 .. n, i # j PROVE l[i].key # l[j].key
    BY <1>1, <1>3, <1>4, <2>2
  <2> QED BY <1>1, <2>1, <2>2 DEF ObjectIs
<1>6. Plain(l)
  <2>1. Kinds(l) \subseteq {"str"}
    <3> SUFFICES ASSUME NEW x \in Kinds(l) PROVE x = "str"
      OBVIOUS
    <3>1. PICK i \in DOMAIN l : x = l[i].key.kind
      BY Zenon DEF Kinds
    <3> QED BY <1>1, <1>3, <1>4, <3>1
  <2>2. IsFiniteSet({"str"}) /\ Cardinality({"str"}) = 1
    BY FS_Singleton
  <2>3. Cardinality(Kinds(l)) \in Nat /\ Cardinality(Kinds(l)) <= 1
    BY <2>1, <2>2, FS_Subset, FS_CardinalityType
  <2>4. ~(Cardinality(Kinds(l)) > 1)
    BY <2>3
  <2>5. ~\E i \in DOMAIN l : l[i].value = "NaN"
    BY <1>3
  <2> QED BY <2>4, <2>5, Zenon DEF Plain
<1>7. ItemTexts(l) = b
  <2> PICK t : t = ItemTexts(l)
    OBVIOUS
  <2>1. t = [i \in 1 .. n |-> [text |-> l[i].key.text, value |-> l[i].value]]
    BY <1>3, Zenon DEF ItemTexts
  <2>2. \A i \in 1 .. n : t[i] = b[i]
    BY <1>1, <1>3, <1>4, <2>1
  <2>3. t = [i \in 1 .. n |-> t[i]]
    BY <2>1
  <2> QED BY <1>1, <2>2, <2>3, Zenon
<1> QED BY <1>5, <1>6, <1>7, Zenon DEF LoadFacts

\* The texts of a plain object hold no value without one, and its own id where it has one.
LEMMA DumpedValues ==
    ASSUME NEW o, NEW n, ObjectIs(o, n), Plain(o), NEW b, DumpFacts(b, o, n)
    PROVE  \A i \in 1 .. n : \E j \in 1 .. n : b[i].text = o[j].key.text /\ b[i].value = o[j].value /\ o[j].value # "NaN"
<1> SUFFICES ASSUME NEW i \in 1 .. n
             PROVE  \E j \in 1 .. n : b[i].text = o[j].key.text /\ b[i].value = o[j].value /\ o[j].value # "NaN"
  OBVIOUS
<1>1. DOMAIN o = 1 .. n
  BY DEF ObjectIs
<1>2. DOMAIN b = 1 .. n
  BY DEF ItemsAre, DumpFacts
<1>3. b[i] \in ItemsOf(ItemTexts(o))
  <2>1. b[i] \in ItemsOf(b)
    BY <1>2, Zenon DEF ItemsOf
  <2> QED BY <2>1, Zenon DEF DumpFacts
<1>4. PICK j \in DOMAIN ItemTexts(o) : b[i] = ItemTexts(o)[j]
  BY <1>3, Zenon DEF ItemsOf
<1>5. j \in DOMAIN o /\ b[i] = [text |-> o[j].key.text, value |-> o[j].value]
  BY <1>4 DEF ItemTexts
<1>6. o[j].value # "NaN"
  BY <1>5, Zenon DEF Plain
<1> QED BY <1>1, <1>5, <1>6

\* The id of what is read back is the id it was read from.
LEMMA IdIsKept ==
    ASSUME NEW o, NEW n, ObjectIs(o, n), NEW b \in ObjectId(o)
    PROVE  Dumps(o) = {b} /\ ObjectId(Loads(b)) = {b} /\ Dumps(Loads(b)) = {b} /\ Plain(o)
<1>1. ~CarriesOwnId(o) /\ b \in Dumps(o)
  BY Zenon DEF ObjectId
<1>2. Plain(o)
  BY <1>1, NotPlain
<1>3. PICK d : DumpFacts(d, o, n)
  BY <1>2, DumpIs
<1>4. d = b /\ DumpFacts(b, o, n)
  BY <1>1, <1>3 DEF DumpFacts
<1>5. ItemsAre(b, n) /\ InOrder(b) /\ Dumps(o) = {b}
  BY <1>4, Zenon DEF DumpFacts
<1>6. \A i \in 1 .. n : \E j \in 1 .. n : b[i].text = o[j].key.text /\ b[i].value = o[j].value /\ o[j].value # "NaN"
  BY <1>2, <1>4, DumpedValues
<1> PICK l : l = Loads(b)
  OBVIOUS
<1>7. ObjectIs(l, n) /\ Plain(l) /\ ItemTexts(l) = b
  <2>1. \A i \in 1 .. n : b[i].value # "NaN"
    BY <1>6
  <2> QED BY <1>5, <2>1, LoadsIs, Zenon DEF LoadFacts
<1>8. PICK c : DumpFacts(c, l, n)
  BY <1>7, DumpIs
<1>9. ItemsAre(c, n) /\ InOrder(c) /\ ItemsOf(c) = ItemsOf(b) /\ Dumps(l) = {c}
  BY <1>7, <1>8, Zenon DEF DumpFacts
<1>10. c = b
  BY <1>5, <1>9, OrderIsOne
<1>11. ~CarriesOwnId(l)
  <2> SUFFICES ASSUME CarriesOwnId(l) PROVE FALSE
    OBVIOUS
  <2>1. PICK i \in DOMAIN l : l[i].key = StrKey("object_id")
    BY Zenon DEF CarriesOwnId
  <2>2. DOMAIN l = 1 .. n
    BY <1>7 DEF ObjectIs
  <2>3. b[i].text = l[i].key.text
    BY <1>7, <2>2 DEF ItemTexts
  <2>4. b[i].text = "object_id"
    BY <2>1, <2>3 DEF StrKey
  <2>5. PICK j \in 1 .. n : b[i].text = o[j].key.text /\ o[j].value # "NaN"
    BY <1>6, <2>2
  <2>6. o[j].key \in Keys /\ j \in DOMAIN o
    BY DEF ObjectIs
  <2>7. o[j].key = StrKey("object_id")
    BY <2>4, <2>5, <2>6, KeysAre
  <2> QED BY <1>1, <2>5, <2>6, <2>7, Zenon DEF CarriesOwnId
<1>12. ObjectId(l) = Dumps(l)
  BY <1>11, Zenon DEF ObjectId
<1> QED BY <1>2, <1>5, <1>9, <1>10, <1>12, Zenon

\* What an object's texts say.
TextContent(o) == {<<o[i].key.text, o[i].value>> : i \in DOMAIN o}

\* The items an object's texts stand for, by position.
LEMMA ContentHas == ASSUME NEW o, NEW x PROVE x \in TextContent(o) <=> \E i \in DOMAIN o : x = <<o[i].key.text, o[i].value>>
BY Zenon DEF TextContent

\* The items of an object, by position.
LEMMA ItemsHave ==
    ASSUME NEW o, NEW x
    PROVE  x \in ItemsOf(ItemTexts(o)) <=> \E i \in DOMAIN o : x = [text |-> o[i].key.text, value |-> o[i].value]
<1> PICK t : t = ItemTexts(o)
  OBVIOUS
<1>1. DOMAIN t = DOMAIN o /\ \A i \in DOMAIN o : t[i] = [text |-> o[i].key.text, value |-> o[i].value]
  BY DEF ItemTexts
<1>2. x \in ItemsOf(t) <=> \E i \in DOMAIN t : x = t[i]
  BY Zenon DEF ItemsOf
<1>3. ASSUME x \in ItemsOf(t) PROVE \E i \in DOMAIN o : x = [text |-> o[i].key.text, value |-> o[i].value]
  <2>1. PICK i \in DOMAIN t : x = t[i]
    BY <1>2, <1>3
  <2>2. i \in DOMAIN o /\ x = [text |-> o[i].key.text, value |-> o[i].value]
    BY <1>1, <2>1, Zenon
  <2> QED BY <2>2, Zenon
<1>4. ASSUME NEW i \in DOMAIN o, x = [text |-> o[i].key.text, value |-> o[i].value] PROVE x \in ItemsOf(t)
  <2>1. i \in DOMAIN t /\ x = t[i]
    BY <1>1, <1>4, Zenon
  <2> QED BY <1>2, <2>1, Zenon
<1> QED BY <1>3, <1>4, Zenon

\* Two objects' texts compare as their items do.
LEMMA ContentIs ==
    ASSUME NEW a, NEW b
    PROVE  TextContent(a) \subseteq TextContent(b) <=> ItemsOf(ItemTexts(a)) \subseteq ItemsOf(ItemTexts(b))
<1>1. \A z \in TextContent(b) : \E j \in DOMAIN b : z = <<b[j].key.text, b[j].value>>
  BY ContentHas, Zenon
<1>2. \A z \in ItemsOf(ItemTexts(b)) : \E j \in DOMAIN b : z = [text |-> b[j].key.text, value |-> b[j].value]
  BY ItemsHave, Zenon
<1>3. ASSUME TextContent(a) \subseteq TextContent(b), NEW x \in ItemsOf(ItemTexts(a)) PROVE x \in ItemsOf(ItemTexts(b))
  <2>1. PICK i \in DOMAIN a : x = [text |-> a[i].key.text, value |-> a[i].value]
    BY ItemsHave, Zenon
  <2> PICK y : y = <<a[i].key.text, a[i].value>>
    OBVIOUS
  <2>2. y \in TextContent(a)
    BY ContentHas, Zenon
  <2>3. y \in TextContent(b)
    BY <1>3, <2>2
  <2>4. PICK j \in DOMAIN b : y = <<b[j].key.text, b[j].value>>
    BY <1>1, <2>3
  <2>5. a[i].key.text = b[j].key.text /\ a[i].value = b[j].value
    BY <2>4
  <2>6. x = [text |-> b[j].key.text, value |-> b[j].value]
    BY <2>1, <2>5, Zenon
  <2> QED BY <2>6, ItemsHave, Zenon
<1>4. ASSUME ItemsOf(ItemTexts(a)) \subseteq ItemsOf(ItemTexts(b)), NEW x \in TextContent(a) PROVE x \in TextContent(b)
  <2>1. PICK i \in DOMAIN a : x = <<a[i].key.text, a[i].value>>
    BY ContentHas, Zenon
  <2> PICK y : y = [text |-> a[i].key.text, value |-> a[i].value]
    OBVIOUS
  <2>2. y \in ItemsOf(ItemTexts(a))
    BY ItemsHave, Zenon
  <2>3. y \in ItemsOf(ItemTexts(b))
    BY <1>4, <2>2
  <2>4. PICK j \in DOMAIN b : y = [text |-> b[j].key.text, value |-> b[j].value]
    BY <1>2, <2>3
  <2>5. a[i].key.text = b[j].key.text /\ a[i].value = b[j].value
    BY <2>4
  <2>6. x = <<b[j].key.text, b[j].value>>
    BY <2>1, <2>5, Zenon
  <2> QED BY <2>6, ContentHas, Zenon
<1> QED BY <1>3, <1>4, Zenon

\* One id is one set of texts.
LEMMA OneIdOneText ==
    ASSUME NEW a, NEW m, ObjectIs(a, m), NEW b, NEW n, ObjectIs(b, n), ObjectId(a) # {}, ObjectId(b) # {}
    PROVE  ObjectId(a) = ObjectId(b) <=> TextContent(a) = TextContent(b)
<1>1. PICK x : x \in ObjectId(a)
  OBVIOUS
<1>2. PICK y : y \in ObjectId(b)
  OBVIOUS
<1>3. Dumps(a) = {x} /\ Plain(a) /\ Dumps(b) = {y} /\ Plain(b)
  BY <1>1, <1>2, IdIsKept
<1>4. PICK c : DumpFacts(c, a, m)
  BY <1>3, DumpIs
<1>5. PICK d : DumpFacts(d, b, n)
  BY <1>3, DumpIs
<1>6. c = x /\ d = y
  BY <1>3, <1>4, <1>5 DEF DumpFacts
<1>7. /\ ItemsAre(x, m) /\ InOrder(x) /\ ItemsOf(x) = ItemsOf(ItemTexts(a))
      /\ ItemsAre(y, n) /\ InOrder(y) /\ ItemsOf(y) = ItemsOf(ItemTexts(b))
  BY <1>4, <1>5, <1>6, Zenon DEF DumpFacts
<1>8. ObjectId(a) = {x} /\ ObjectId(b) = {y}
  BY <1>1, <1>2, <1>3, Zenon DEF ObjectId
<1>9. TextContent(a) = TextContent(b) <=> ItemsOf(x) = ItemsOf(y)
  BY <1>7, ContentIs
<1>10. ItemsOf(x) = ItemsOf(y) => x = y
  BY <1>7, OrderIsOne
<1> QED BY <1>8, <1>9, <1>10

\* An object's content, by position.
LEMMA KeyedContentHas ==
    ASSUME NEW o, NEW x PROVE x \in Content(o) <=> \E i \in DOMAIN o : x = <<o[i].key, o[i].value>>
BY Zenon DEF Content

\* What one object's content holds, the texts of another of that content hold.
LEMMA ContentGivesText ==
    ASSUME NEW a, NEW b, Content(a) = Content(b) PROVE TextContent(a) \subseteq TextContent(b)
<1> SUFFICES ASSUME NEW x \in TextContent(a) PROVE x \in TextContent(b)
  OBVIOUS
<1>1. PICK i \in DOMAIN a : x = <<a[i].key.text, a[i].value>>
  BY ContentHas, Zenon
<1> PICK y : y = <<a[i].key, a[i].value>>
  OBVIOUS
<1>0. \A z \in Content(b) : \E j \in DOMAIN b : z = <<b[j].key, b[j].value>>
  BY KeyedContentHas, Zenon
<1>2. y \in Content(b)
  BY KeyedContentHas, Zenon
<1>3. PICK j \in DOMAIN b : y = <<b[j].key, b[j].value>>
  BY <1>0, <1>2
<1>4. a[i].key = b[j].key /\ a[i].value = b[j].value
  BY <1>3
<1>5. x = <<b[j].key.text, b[j].value>>
  BY <1>1, <1>4, Zenon
<1> QED BY <1>5, ContentHas, Zenon

\* A key that is a string is its text.
LEMMA StringKey == ASSUME NEW k \in Keys, k.kind = "str" PROVE k = StrKey(k.text)
BY DEF Keys, StrKey, IntKey

\* Among objects keyed by strings the texts tell the content.
LEMMA TextGivesContent ==
    ASSUME NEW a, NEW m, ObjectIs(a, m), NEW b, NEW n, ObjectIs(b, n),
           Kinds(a) \cup Kinds(b) \subseteq {"str"}, TextContent(a) = TextContent(b)
    PROVE  Content(a) \subseteq Content(b)
<1> SUFFICES ASSUME NEW x \in Content(a) PROVE x \in Content(b)
  OBVIOUS
<1>1. PICK i \in DOMAIN a : x = <<a[i].key, a[i].value>>
  BY KeyedContentHas, Zenon
<1> PICK y : y = <<a[i].key.text, a[i].value>>
  OBVIOUS
<1>0. \A z \in TextContent(b) : \E j \in DOMAIN b : z = <<b[j].key.text, b[j].value>>
  BY ContentHas, Zenon
<1>2. y \in TextContent(b)
  BY ContentHas, Zenon
<1>3. PICK j \in DOMAIN b : y = <<b[j].key.text, b[j].value>>
  BY <1>0, <1>2
<1>4. a[i].key.text = b[j].key.text /\ a[i].value = b[j].value
  BY <1>3
<1>5. a[i].key.kind \in Kinds(a) /\ b[j].key.kind \in Kinds(b)
  BY Zenon DEF Kinds
<1>6. a[i].key.kind = "str" /\ b[j].key.kind = "str"
  BY <1>5
<1>7. a[i].key \in Keys /\ b[j].key \in Keys
  BY DEF ObjectIs
<1>8. a[i].key = b[j].key
  BY <1>4, <1>6, <1>7, StringKey
<1>9. x = <<b[j].key, b[j].value>>
  BY <1>1, <1>4, <1>8, Zenon
<1> QED BY <1>9, KeyedContentHas, Zenon

\* The comparison as identify leaves it.
JsonInv ==
    subject = "json" =>
        /\ st = [a |-> st.a, b |-> st.b, valid |-> st.valid, ids |-> st.ids]
        /\ st.a \in JsonObjects /\ st.b \in JsonObjects
        /\ st.ids = {} \/ (/\ st.ids = {<<ObjectId(st.a), ObjectId(st.b)>>}
                           /\ st.valid = {o \in {st.a, st.b} : Validate(o) # {}})

\* The initial states satisfy the JSON identity invariant.
LEMMA JsonInits == ASSUME JsonInit PROVE JsonInv
<1>1. PICK a, b \in JsonObjects : st = [a |-> a, b |-> b, valid |-> {}, ids |-> {}]
  BY Zenon DEF JsonInit
<1>2. st.a = a /\ st.b = b /\ st.valid = {} /\ st.ids = {}
  BY <1>1
<1> QED BY <1>1, <1>2, Zenon DEF JsonInv

\* Every step of such a call keeps the JSON identity invariant.
LEMMA JsonSteps == ASSUME JsonInv, subject = "json", JsonIdentify PROVE JsonInv'
<1>1. st = [a |-> st.a, b |-> st.b, valid |-> st.valid, ids |-> st.ids] /\ st.a \in JsonObjects /\ st.b \in JsonObjects
  BY Zenon DEF JsonInv
<1> PICK v : v = {o \in {st.a, st.b} : Validate(o) # {}}
  OBVIOUS
<1> PICK i : i = {<<ObjectId(st.a), ObjectId(st.b)>>}
  OBVIOUS
<1>2. subject' = "json" /\ st' = [st EXCEPT !.valid = v, !.ids = i]
  BY Zenon DEF JsonIdentify, Step
<1>3. st' = [a |-> st.a, b |-> st.b, valid |-> v, ids |-> i]
  BY <1>1, <1>2
<1>4. st'.a = st.a /\ st'.b = st.b /\ st'.valid = v /\ st'.ids = i
  BY <1>3
<1>5. st'.valid = {o \in {st'.a, st'.b} : Validate(o) # {}}
  BY <1>4, Zenon
<1>6. st'.ids = {<<ObjectId(st'.a), ObjectId(st'.b)>>}
  BY <1>4, Zenon
<1>7. st' = [a |-> st'.a, b |-> st'.b, valid |-> st'.valid, ids |-> st'.ids]
  BY <1>3, <1>4, Zenon
<1>8. st'.a \in JsonObjects /\ st'.b \in JsonObjects
  BY <1>1, <1>4, Zenon
<1> QED BY <1>5, <1>6, <1>7, <1>8, Zenon DEF JsonInv

\* The JSON identity invariant gives the property its calls are checked for.
LEMMA JsonInvHolds == ASSUME JsonInv PROVE SameIdSameContent
<1> SUFFICES ASSUME subject = "json", NEW ids \in st.ids
             PROVE  /\ ids[1] # {} /\ ids[2] # {} =>
                           /\ Content(st.a) = Content(st.b) => ids[1] = ids[2]
                           /\ ids[1] = ids[2] /\ Kinds(st.a) \cup Kinds(st.b) \subseteq {"str"} =>
                                  Content(st.a) = Content(st.b)
                    /\ \A b \in ids[1] : ObjectId(Loads(b)) = {b} /\ st.a \in st.valid
  BY Zenon DEF SameIdSameContent
<1>1. /\ st.a \in JsonObjects /\ st.b \in JsonObjects /\ st.ids = {<<ObjectId(st.a), ObjectId(st.b)>>}
      /\ st.valid = {o \in {st.a, st.b} : Validate(o) # {}}
  BY Zenon DEF JsonInv
<1>2. ids[1] = ObjectId(st.a) /\ ids[2] = ObjectId(st.b)
  BY <1>1
<1>3. PICK m : ObjectIs(st.a, m)
  BY <1>1, ObjectsAre
<1>4. PICK n : ObjectIs(st.b, n)
  BY <1>1, ObjectsAre
<1>5. ids[1] # {} /\ ids[2] # {} => (ids[1] = ids[2] <=> TextContent(st.a) = TextContent(st.b))
  BY <1>2, <1>3, <1>4, OneIdOneText
<1>7. Content(st.a) = Content(st.b) => TextContent(st.a) = TextContent(st.b)
  BY ContentGivesText
<1>8. ASSUME Kinds(st.a) \cup Kinds(st.b) \subseteq {"str"}, TextContent(st.a) = TextContent(st.b)
      PROVE  Content(st.a) = Content(st.b)
  <2>1. Kinds(st.b) \cup Kinds(st.a) \subseteq {"str"}
    BY <1>8
  <2>2. Content(st.a) \subseteq Content(st.b)
    BY <1>3, <1>4, <1>8, TextGivesContent, Zenon
  <2>3. Content(st.b) \subseteq Content(st.a)
    BY <1>3, <1>4, <1>8, <2>1, TextGivesContent, Zenon
  <2> QED BY <2>2, <2>3
<1>6. ASSUME NEW b \in ids[1] PROVE ObjectId(Loads(b)) = {b} /\ st.a \in st.valid
  <2>1. Dumps(st.a) = {b} /\ ObjectId(Loads(b)) = {b} /\ Dumps(Loads(b)) = {b}
    BY <1>2, <1>3, <1>6, IdIsKept
  <2>2. b \in Validate(st.a)
    BY <2>1, Zenon DEF Validate
  <2>3. Validate(st.a) # {}
    BY <2>2
  <2> QED BY <1>1, <2>1, <2>3, Zenon
<1> QED BY <1>5, <1>6, <1>7, <1>8
-----------------------------------------------------------------------------
(***************************************************************************)
(* Contracts: all of them.                                                 *)
(***************************************************************************)
ContractsInv == SchemaInv /\ PortableInv /\ StampInv /\ DecimalInv /\ JsonInv

\* One kind of contract is looked at in one run.
LEMMA ContractsOne ==
    ASSUME \/ subject = "schema" /\ SchemaInv
           \/ subject = "path" /\ PortableInv
           \/ subject = "timestamp" /\ StampInv
           \/ subject = "decimal" /\ DecimalInv
           \/ subject = "json" /\ JsonInv
    PROVE  ContractsInv
<1>1. CASE subject = "schema" /\ SchemaInv
  BY <1>1 DEF ContractsInv, PortableInv, StampInv, DecimalInv, JsonInv
<1>2. CASE subject = "path" /\ PortableInv
  BY <1>2 DEF ContractsInv, SchemaInv, StampInv, DecimalInv, JsonInv
<1>3. CASE subject = "timestamp" /\ StampInv
  BY <1>3 DEF ContractsInv, SchemaInv, PortableInv, DecimalInv, JsonInv
<1>4. CASE subject = "decimal" /\ DecimalInv
  BY <1>4 DEF ContractsInv, SchemaInv, PortableInv, StampInv, JsonInv
<1>5. CASE subject = "json" /\ JsonInv
  BY <1>5 DEF ContractsInv, SchemaInv, PortableInv, StampInv, DecimalInv
<1> QED BY <1>1, <1>2, <1>3, <1>4, <1>5

\* The same of the next state.
LEMMA ContractsOneNext ==
    ASSUME \/ subject' = "schema" /\ SchemaInv'
           \/ subject' = "path" /\ PortableInv'
           \/ subject' = "timestamp" /\ StampInv'
           \/ subject' = "decimal" /\ DecimalInv'
           \/ subject' = "json" /\ JsonInv'
    PROVE  ContractsInv'
<1>1. CASE subject' = "schema" /\ SchemaInv'
  BY <1>1 DEF ContractsInv, PortableInv, StampInv, DecimalInv, JsonInv
<1>2. CASE subject' = "path" /\ PortableInv'
  BY <1>2 DEF ContractsInv, SchemaInv, StampInv, DecimalInv, JsonInv
<1>3. CASE subject' = "timestamp" /\ StampInv'
  BY <1>3 DEF ContractsInv, SchemaInv, PortableInv, DecimalInv, JsonInv
<1>4. CASE subject' = "decimal" /\ DecimalInv'
  BY <1>4 DEF ContractsInv, SchemaInv, PortableInv, StampInv, JsonInv
<1>5. CASE subject' = "json" /\ JsonInv'
  BY <1>5 DEF ContractsInv, SchemaInv, PortableInv, StampInv, DecimalInv
<1> QED BY <1>1, <1>2, <1>3, <1>4, <1>5

\* The invariant holds at first, every call keeps it, and so does a step of nobody.
LEMMA ContractsInits == ContractsInit => ContractsInv
<1>1. CASE JsonInit
  BY <1>1, JsonInits, ContractsOne DEF JsonInit
<1>2. CASE DecimalInit
  BY <1>2, DecimalInits, ContractsOne DEF DecimalInit
<1>3. CASE StampInit
  BY <1>3, StampInits, ContractsOne DEF StampInit
<1>4. CASE PathInit
  BY <1>4, PathInits, ContractsOne DEF PathInit
<1>5. CASE SchemaInit
  BY <1>5, SchemaInits, ContractsOne DEF SchemaInit
<1> QED BY <1>1, <1>2, <1>3, <1>4, <1>5 DEF ContractsInit

\* Every step of such a call keeps the contracts invariant.
LEMMA ContractsSteps == ContractsInv /\ ContractsNext => ContractsInv'
<1> SUFFICES ASSUME ContractsInv, ContractsNext PROVE ContractsInv'
  OBVIOUS
<1>1. SchemaInv /\ PortableInv /\ StampInv /\ DecimalInv /\ JsonInv
  BY DEF ContractsInv
<1>2. CASE subject = "json" /\ JsonIdentify
  <2>1. subject' = "json"
    BY <1>2, Zenon DEF JsonIdentify, Step
  <2> QED BY <1>1, <1>2, <2>1, JsonSteps, ContractsOneNext
<1>3. CASE subject = "decimal" /\ DecimalToStr
  <2>1. subject' = "decimal"
    BY <1>3, Zenon DEF DecimalToStr, Step
  <2> QED BY <1>1, <1>3, <2>1, DecimalSteps, ContractsOneNext
<1>4. CASE subject = "timestamp" /\ NormalizeTimestamp
  <2>1. subject' = "timestamp"
    BY <1>4, Zenon DEF NormalizeTimestamp, Step
  <2> QED BY <1>1, <1>4, <2>1, StampSteps, ContractsOneNext
<1>5. CASE subject = "path" /\ ValidatePortablePath
  <2>1. subject' = "path"
    BY <1>5, Zenon DEF ValidatePortablePath, Step
  <2> QED BY <1>1, <1>5, <2>1, PathSteps, ContractsOneNext
<1>6. CASE subject = "schema" /\ (ReplaceSchemaFile \/ SchemaValidate)
  <2>1. subject' = "schema"
    BY <1>6, Zenon DEF ReplaceSchemaFile, SchemaValidate, Step
  <2> QED BY <1>1, <1>6, <2>1, SchemaSteps, ContractsOneNext
<1> QED BY <1>2, <1>3, <1>4, <1>5, <1>6, Zenon DEF ContractsNext

\* A step that leaves the state alone keeps the contracts invariant.
LEMMA ContractsUnmoved == ContractsInv /\ UNCHANGED frame => ContractsInv'
<1> SUFFICES ASSUME ContractsInv, UNCHANGED frame PROVE ContractsInv'
  OBVIOUS
<1>0. subject' = subject /\ st' = st
  BY DEF frame
<1>1. SchemaInv /\ PortableInv /\ StampInv /\ DecimalInv /\ JsonInv
  BY DEF ContractsInv
<1>2. SchemaInv'
  BY <1>0, <1>1 DEF SchemaInv
<1>3. PortableInv'
  BY <1>0, <1>1 DEF PortableInv
<1>4. StampInv'
  BY <1>0, <1>1 DEF StampInv
<1>5. DecimalInv'
  BY <1>0, <1>1 DEF DecimalInv
<1>6. JsonInv'
  BY <1>0, <1>1 DEF JsonInv
<1> QED BY <1>2, <1>3, <1>4, <1>5, <1>6 DEF ContractsInv

\* The invariant gives what the contracts promise.
LEMMA ContractsInvHolds == ContractsInv => EncodingFaithful
BY SchemaInvHolds, PortableInvHolds, StampInvHolds, DecimalInvHolds, JsonInvHolds DEF ContractsInv, EncodingFaithful
=============================================================================
