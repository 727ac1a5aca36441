------------------------------ MODULE Semantic ------------------------------
(***************************************************************************)
(* The semantic layer: MathIR trees and their limits, the projection of a  *)
(* tree to a backend with its transformation receipt, claims, and the      *)
(* evidence assessments whose axes move from update to update.  Ids are    *)
(* digests of content; an update names its predecessor among its parents,  *)
(* so no two assessments of a lineage have one content, and an id is       *)
(* modelled by the number of the update.                                   *)
(***************************************************************************)
EXTENDS Procedures, Integers, Sequences, FiniteSets, FiniteSetsExt

CONSTANTS
    MaxUpdates,   \* bound: updates of one lineage
    MaxDepth,     \* MAX_DEPTH of a tree
    MaxNodes,     \* MAX_NODES of a tree
    TreeNodes     \* bound: nodes of the trees that are tried

ASSUME SemanticAssumption == {MaxUpdates, MaxDepth, MaxNodes, TreeNodes} \subseteq Nat \ {0}
-----------------------------------------------------------------------------
(***************************************************************************)
(* Evidence assessments.  Axes without a rule of their own are left out.   *)
(***************************************************************************)
AxisEnums ==
    [exercise_level |-> {"none", "import_probe", "actual_compute"},
     engine_execution |-> {"not_run", "failed", "completed"},
     scientific_check |-> {"unchecked", "checked", "contradicted"},
     formal_check |-> {"not_applicable", "unchecked", "checked", "proven"},
     statistical_support |-> {"none", "strong"},
     algorithmic |-> {"none", "reproduced"},
     independent |-> {"none", "replicated"},
     integration_authority |-> {"none", "proposal_only", "admitted_a2"}]
Axes == DOMAIN AxisEnums

DEFAULT_AXES ==
    [exercise_level |-> "none", engine_execution |-> "not_run", scientific_check |-> "unchecked",
     formal_check |-> "not_applicable", statistical_support |-> "none", algorithmic |-> "none",
     independent |-> "none", integration_authority |-> "none"]

\* Ladders; a value outside its axis's ladder has index 0 here.
AxisOrder ==
    [exercise_level |-> <<"none", "import_probe", "runtime_probe", "actual_compute">>,
     engine_execution |-> <<"not_run", "failed", "completed">>,
     scientific_check |-> <<"unchecked", "checked">>,
     formal_check |-> <<"unchecked", "checked", "proven">>,
     statistical_support |-> <<"none", "weak", "moderate", "strong">>]
AxisIndex(axis, value) ==
    IF axis \notin DOMAIN AxisOrder THEN 0
    ELSE LET at == {i \in DOMAIN AxisOrder[axis] : AxisOrder[axis][i] = value}
         IN  IF at = {} THEN 0 ELSE Max(at)

\* _enforce_orthogonality, of the axes an assessment would have.
Orthogonal(axes) ==
    /\ ~(axes.exercise_level = "import_probe" /\ axes.engine_execution = "completed")
    /\ ~(axes.engine_execution = "failed" /\ axes.scientific_check = "checked")
    /\ axes.integration_authority # "admitted_a2"

\* _enforce_delta_orthogonality, of the axes one update moves.
DeltaOrthogonal(moved) ==
    /\ ~("formal_check" \in moved /\ "statistical_support" \in moved)
    /\ ~({"algorithmic", "independent"} \subseteq moved)

\* Wrong variant: a move down is measured from the default, not from where the axis is.
MonotonicFromFloor(axis, old, new, reason) ==
    reason \/ AxisIndex(axis, new) >= AxisIndex(axis, DEFAULT_AXES[axis])

\* _enforce_monotonic_transition: down only with a reason; a move to or from a
\* value outside the ladder is free.
Monotonic(axis, old, new, reason) ==
    LET o == AxisIndex(axis, old)
        n == AxisIndex(axis, new)
    IN  o = 0 \/ n = 0 \/ n >= o \/ reason

\* Deltas that move one axis or two.
Deltas == UNION {[{a, b} -> UNION {AxisEnums[x] : x \in {a, b}}] : a, b \in Axes}
WellFormed(delta) == \A a \in DOMAIN delta : delta[a] \in AxisEnums[a]

Moved(axes, delta) == [a \in Axes |-> IF a \in DOMAIN delta THEN delta[a] ELSE axes[a]]

UpdateVerdict(axes, delta, reason) ==
    IF /\ DeltaOrthogonal(DOMAIN delta)
       /\ \A a \in DOMAIN delta : Monotonic(a, axes[a], delta[a], reason)
       /\ Orthogonal(Moved(axes, delta))
    THEN "ok" ELSE "CONTRACT_INVALID"

\* An assessment with the evidence that moved it; `high' remembers the highest
\* index each axis has had, `excused' the axes that left their ladder or moved
\* down with a reason.
LineageInit ==
    /\ subject = "lineage"
    /\ st = [axes |-> DEFAULT_AXES, refs |-> {}, parents |-> {}, id |-> 0, refused |-> FALSE,
             high |-> [a \in Axes |-> AxisIndex(a, DEFAULT_AXES[a])], excused |-> {}]

\* update_assessment: the new assessment has the prior one's evidence and
\* parents, the new evidence and the prior id.
UpdateAssessment(delta, reason) ==
    /\ subject = "lineage" /\ st.id < MaxUpdates /\ ~st.refused
    /\ IF UpdateVerdict(st.axes, delta, reason) = "ok"
       THEN LET index(a) == AxisIndex(a, delta[a])
            IN  Step("lineage", [st EXCEPT
                    !.axes = Moved(@, delta), !.refs = @ \cup {st.id + 1},
                    !.parents = @ \cup {st.id}, !.id = @ + 1,
                    !.high = [a \in Axes |-> IF a \in DOMAIN delta /\ index(a) > st.high[a]
                                             THEN index(a) ELSE st.high[a]],
                    !.excused = @ \cup {a \in DOMAIN delta : index(a) = 0 \/ reason}])
       ELSE Step("lineage", [st EXCEPT !.refused = TRUE])
-----------------------------------------------------------------------------
(***************************************************************************)
(* MathIR: nodes in the order of the walk, each with its depth and kind.   *)
(***************************************************************************)
NodeKinds == {"application", "const", "var", "unknown_op", "malformed"}

\* Depths of a preorder walk: the root is at 1, a node is at most one deeper
\* than the node before it, and only an application has children.
Trees ==
    {t \in UNION {[1 .. n -> [depth : 1 .. TreeNodes, kind : NodeKinds]] : n \in 1 .. TreeNodes} :
        /\ t[1].depth = 1
        /\ \A i \in 2 .. Len(t) : /\ t[i].depth \in 2 .. t[i - 1].depth + 1
                                  /\ t[i].depth > t[i - 1].depth => t[i - 1].kind = "application"}

\* _validate_node: depth, then count, then shape, then the operator.
NodeVerdict(node, count) ==
    IF node.depth > MaxDepth \/ count > MaxNodes THEN "limit"
    ELSE IF node.kind = "malformed" THEN "CONTRACT_INVALID"
    ELSE IF node.kind = "unknown_op" THEN "IR_UNSUPPORTED" ELSE "ok"

TreeInit == subject = "ir" /\ \E t \in Trees : st = [tree |-> t, count |-> 0, answer |-> "none"]

ValidateNode ==
    /\ subject = "ir" /\ st.answer = "none" /\ st.count < Len(st.tree)
    /\ LET v == NodeVerdict(st.tree[st.count + 1], st.count + 1)
       IN  Step("ir", [st EXCEPT !.count = @ + 1, !.answer =
               IF v # "ok" THEN v ELSE IF st.count + 1 = Len(st.tree) THEN "ok" ELSE "none"])
-----------------------------------------------------------------------------
(***************************************************************************)
(* Projection.  Operators a1 and a2 share a content dictionary, a* is its  *)
(* wildcard.                                                               *)
(***************************************************************************)
Ops       == {"a1", "a2", "b1"}
Features  == Ops \cup {"a*"}
Wildcard(op) == IF op \in {"a1", "a2"} THEN "a*" ELSE "b*"
Behaviors == {"reject", "approximate", "drop"}

\* validate_profile: no operator is both supported and declared unsupported;
\* a wildcard may cover supported ones.
ProfileValid(p) == \A f \in DOMAIN p.unsupported : f \notin p.supported

\* The behaviour declared for the operator itself goes before the wildcard's.
BehaviorForOp(op, p) ==
    IF op \in DOMAIN p.unsupported THEN p.unsupported[op]
    ELSE IF Wildcard(op) \in DOMAIN p.unsupported THEN p.unsupported[Wildcard(op)]
    ELSE "undeclared"

\* _plan_projection: supported operators first; what is left is refused or
\* named as dropped with an assumption.
PlanProjection(ops, p) ==
    IF \E op \in ops \ p.supported : BehaviorForOp(op, p) \in {"undeclared", "reject"} THEN {}
    ELSE {ops \ p.supported}

\* record_transformation: lossless means nothing assumed and nothing dropped.
TransformVerdict(class, dropped) ==
    IF class = "LOSSLESS" /\ dropped # {} THEN "CONTRACT_INVALID" ELSE "ok"
ConversionClass(dropped) == IF dropped = {} THEN "LOSSLESS" ELSE "LOSSY_EXPLICIT"

\* record_detected_loss: a detected loss names what was lost.
DetectedLossVerdict(dropped) == IF dropped = {} THEN "CONTRACT_INVALID" ELSE "ok"

ProjectInit ==
    /\ subject = "project"
    /\ \E ops \in SUBSET Ops, supported \in SUBSET Ops, fs \in SUBSET Features :
          \E u \in [fs -> Behaviors] :
              st = [ops |-> ops, profile |-> [supported |-> supported, unsupported |-> u],
                    receipt |-> {}, answer |-> "none"]

ProjectToBackend ==
    /\ subject = "project" /\ st.answer = "none"
    /\ LET plan == PlanProjection(st.ops, st.profile)
       IN  Step("project", [st EXCEPT
               !.answer = IF ~ProfileValid(st.profile) THEN "CONTRACT_INVALID"
                          ELSE IF plan = {} THEN "IR_UNSUPPORTED" ELSE "ok",
               !.receipt = IF ~ProfileValid(st.profile) THEN {}
                           ELSE {[class |-> ConversionClass(d), dropped |-> d] : d \in
                                 {x \in plan : TransformVerdict(ConversionClass(x), x) = "ok"}}])

\* A detector reports on the projection afterwards.
RecordDetectedLoss(dropped) ==
    /\ subject = "project" /\ st.answer = "ok" /\ DetectedLossVerdict(dropped) = "ok"
    /\ Step("project", [st EXCEPT !.answer = "detected", !.receipt =
           @ \cup {[class |-> "LOSSY_IMPLICIT_DETECTED", dropped |-> dropped]}])
-----------------------------------------------------------------------------
(***************************************************************************)
(* Claims and the receipts of a run.                                       *)
(***************************************************************************)
ClaimDocs == [class : {"established_law_reference", "candidate_hypothesis"},
              status : {"proposed", "supported"}, source : {"literature", "experiment"},
              support : BOOLEAN]
IdOf(doc) == doc

\* validate: an established law needs literature and support, a supported
\* hypothesis needs support, and an id that is present is the digest of the rest.
ClaimVerdict(doc, ids) ==
    IF \/ doc.class = "established_law_reference" /\ ~(doc.source = "literature" /\ doc.support)
       \/ doc.class = "candidate_hypothesis" /\ doc.status = "supported" /\ ~doc.support
       \/ \E id \in ids : id # IdOf(doc)
    THEN "CONTRACT_INVALID" ELSE "ok"

ClaimInit ==
    /\ subject = "claim"
    /\ \E d \in ClaimDocs : st = [doc |-> d, ids |-> {}, answer |-> "none"]

\* claim_id: the id is computed over the claim without it, after validation.
MintClaim ==
    /\ subject = "claim" /\ st.answer = "none" /\ st.ids = {}
    /\ ClaimVerdict(st.doc, st.ids) = "ok"
    /\ Step("claim", [st EXCEPT !.ids = {IdOf(st.doc)}])

\* Somebody edits a claim that may already carry its id.
EditClaim(d) ==
    subject = "claim" /\ st.answer = "none" /\ d # st.doc /\ Step("claim", [st EXCEPT !.doc = d])

ValidateClaim ==
    /\ subject = "claim" /\ st.answer = "none"
    /\ Step("claim", [st EXCEPT !.answer = ClaimVerdict(st.doc, st.ids)])

\* Engine receipt, validation receipt and run receipt of one run.
EngineVerdict(r) ==
    IF r.level = "import_probe" /\ r.outputs THEN "CONTRACT_INVALID" ELSE "ok"
ValidationVerdict(r) ==
    IF r.formal = "proven" /\ ~r.certificate THEN "CONTRACT_INVALID" ELSE "ok"

ReceiptsInit ==
    /\ subject = "receipts"
    /\ \E level \in {"none", "import_probe", "runtime_probe", "actual_compute"}, out \in BOOLEAN :
          st = [engine |-> [level |-> level, outputs |-> out], validation |-> {},
                phase |-> "engine"]

BuildEngineReceipt ==
    /\ subject = "receipts" /\ st.phase = "engine"
    /\ Step("receipts", [st EXCEPT !.phase = IF EngineVerdict(st.engine) = "ok"
                                             THEN "validation" ELSE "refused"])

BuildValidationReceipt(formal, certificate) ==
    /\ subject = "receipts" /\ st.phase = "validation"
    /\ LET r == [formal |-> formal, certificate |-> certificate]
       IN  Step("receipts", [st EXCEPT
               !.validation = IF ValidationVerdict(r) = "ok" THEN {r} ELSE {},
               !.phase = IF ValidationVerdict(r) = "ok" THEN "run" ELSE "refused"])

\* The run receipt takes any terminal status, with or without a validation.
BuildRunReceipt ==
    /\ subject = "receipts" /\ st.phase \in {"validation", "run"}
    /\ Step("receipts", [st EXCEPT !.phase = "done"])

SemanticInit == LineageInit \/ TreeInit \/ ProjectInit \/ ClaimInit \/ ReceiptsInit
SemanticNext ==
    \/ /\ subject = "lineage"
       /\ \E d \in {x \in Deltas : WellFormed(x)}, r \in BOOLEAN : UpdateAssessment(d, r)
    \/ ValidateNode
    \/ ProjectToBackend \/ \E d \in SUBSET Ops : RecordDetectedLoss(d)
    \/ /\ subject = "claim"
       /\ MintClaim \/ ValidateClaim \/ \E d \in ClaimDocs : EditClaim(d)
    \/ BuildEngineReceipt \/ BuildRunReceipt
    \/ \E f \in {"checked", "proven"}, c \in BOOLEAN : BuildValidationReceipt(f, c)
-----------------------------------------------------------------------------
(* Properties *)

\* However many updates a lineage has seen, its axes never combine a probe with
\* a completed computation or a failed run with a passed check, and never hold
\* an authority nobody can grant.
StandingOrthogonal ==
    subject = "lineage" =>
        /\ ~(st.axes.exercise_level = "import_probe" /\ st.axes.engine_execution = "completed")
        /\ ~(st.axes.engine_execution = "failed" /\ st.axes.scientific_check = "checked")
        /\ st.axes.integration_authority \in {"none", "proposal_only"}

\* An axis that has kept to its ladder and was never moved with a reason stands
\* as high as it ever did: several updates together lose nothing quietly.
NoQuietLoss ==
    subject = "lineage" =>
        \A a \in Axes \ st.excused : AxisIndex(a, st.axes[a]) >= st.high[a]

\* Every assessment names all its ancestors and the evidence of every update
\* that led to it.
LineageComplete ==
    subject = "lineage" => st.parents = 0 .. st.id - 1 /\ st.refs = 1 .. st.id

\* A tree is accepted only if all its nodes are inside the limits and built of
\* known operators, and no tree, however large, is walked further than one node
\* past the limit.
IrSound ==
    subject = "ir" =>
        /\ st.count <= MaxNodes + 1
        /\ (st.answer = "ok") => /\ Len(st.tree) <= MaxNodes
                                 /\ \A i \in DOMAIN st.tree :
                                       /\ st.tree[i].depth <= MaxDepth
                                       /\ st.tree[i].kind \in {"application", "const", "var"}

\* A projection called lossless uses supported operators only; any other names
\* everything that is lost, and an operator nobody declared is never dropped.
NoSilentLoss ==
    subject = "project" =>
        \A r \in {x \in st.receipt : x.class # "LOSSY_IMPLICIT_DETECTED"} :
            /\ r.dropped = st.ops \ st.profile.supported
            /\ (r.class = "LOSSLESS") = (r.dropped = {})
            /\ \A op \in r.dropped : BehaviorForOp(op, st.profile) \in {"approximate", "drop"}

\* A claim that carries an id is accepted only with the content the id was
\* computed from, whatever happened to it in between.
ClaimTamperEvident ==
    (subject = "claim" /\ st.answer = "ok") =>
        /\ \A id \in st.ids : id = st.doc
        /\ st.doc.class = "established_law_reference" => st.doc.support

\* No update, projection or edit changes what a document means unseen.
MeaningKept ==
    /\ StandingOrthogonal
    /\ NoQuietLoss
    /\ LineageComplete
    /\ IrSound
    /\ NoSilentLoss
    /\ ClaimTamperEvident
=============================================================================
