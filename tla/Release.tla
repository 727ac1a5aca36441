------------------------------ MODULE Release ------------------------------
(***************************************************************************)
(* What may be released: the capability truth ledger, which probes every   *)
(* component and its stage receipt; the release gate over a ledger; and    *)
(* the final acceptance receipt, which reads the ledger, the gate and the  *)
(* receipts on disk one after the other while the stages' own tools may    *)
(* rewrite them.                                                           *)
(***************************************************************************)
EXTENDS Procedures, Integers, Sequences, FiniteSets

CONSTANTS MaxRewrites   \* changes of the world during one evaluation

ASSUME ReleaseAssumption == MaxRewrites \in Nat
-----------------------------------------------------------------------------
(***************************************************************************)
(* Stage receipts.  A receipt is the set of its defects: the requirements  *)
(* of its stage that it does not meet ("missing" for an absent file).  The *)
(* sets name one requirement per statement of the stage's validator that   *)
(* raises.                                                                 *)
(***************************************************************************)
StageFacts == {"missing", "schema", "stage_pass", "closure", "internal_waits", "active_packs",
               "failing_check"}

A09Facts == StageFacts \cup
    {"kernel_check", "valid_checked", "invalid_rejected", "valid_pins", "invalid_pins",
     "mathlib_checked", "mathlib_used", "mathlib_axioms", "mathlib_pins", "corpus_traversed",
     "corpus_pins", "corpus_statements", "corpus_pass"}

A10Facts == StageFacts \cup
    {"pin_manifest", "prover_id", "theorem_label", "formal_check", "authority", "probe_returncode",
     "equivalence_claims", "wait_contours", "manifest_count", "manifest_equivalence"}

A11Facts == StageFacts \cup
    {"source_policy", "result_count", "endpoints", "query_receipts", "live_not_cached",
     "replay_cached", "response_hash", "records", "graph_sources", "graph_waits", "quarantine",
     "raw_corpus"}

A12Facts == StageFacts \cup
    {"activation", "active_ids", "replaced_ids", "authority", "pack_receipts", "pack_active",
     "pack_authority", "envelope", "candidate", "backend_versions", "julia_version",
     "public_benchmark", "no_promotion"}

A13Facts == StageFacts \cup
    {"activation", "active_ids", "replaced_ids", "authority", "workloads", "workload_active",
     "workload_authority", "envelope", "dataset", "backend_versions", "topology", "bayesian",
     "causal", "optimization", "diagnostics"}

A14Facts == StageFacts \cup
    {"replaced_packs", "activation", "active_ids", "authority", "workloads", "workload_active",
     "bitwise_claim", "workload_authority", "envelope", "backend_versions", "solver", "units",
     "tolerance", "trace", "cross_language", "diagnostics"}

\* What can be wrong with the receipt of a stage.
ReceiptFacts == [A09 |-> A09Facts, A10 |-> A10Facts, A11 |-> A11Facts,
                 A12 |-> A12Facts, A13 |-> A13Facts, A14 |-> A14Facts]

\* _validated_aNN_receipt with its helpers: the first requirement not met raises.
ValidatedA09(defects) == defects \cap A09Facts = {}
ValidatedA10(defects) == defects \cap A10Facts = {}
ValidatedA11(defects) == defects \cap A11Facts = {}
ValidatedA12(defects) == defects \cap A12Facts = {}
ValidatedA13(defects) == defects \cap A13Facts = {}
ValidatedA14(defects) == defects \cap A14Facts = {}

\* _stage_receipt_probe: the validator of the stage; other stages have none.
Validated(stage, defects) ==
    \/ stage = "A09" /\ ValidatedA09(defects)
    \/ stage = "A10" /\ ValidatedA10(defects)
    \/ stage = "A11" /\ ValidatedA11(defects)
    \/ stage = "A12" /\ ValidatedA12(defects)
    \/ stage = "A13" /\ ValidatedA13(defects)
    \/ stage = "A14" /\ ValidatedA14(defects)
-----------------------------------------------------------------------------
(***************************************************************************)
(* The ledger's components: how each is probed, what it waits for when the *)
(* probe fails, and whether its smoke is run (current_v101_active).        *)
(***************************************************************************)
Component(kind, stage, wait, smoked) ==
    [kind |-> kind, stage |-> stage, wait |-> wait, smoked |-> smoked]

ImportedComponents ==
    [numpy |-> Component("python_import", "v1.0.1", "WAIT_CAPABILITY", TRUE),
     flint |-> Component("python_import", "A07", "WAIT_LICENSE", TRUE)]

NativeComponents ==
    [gap |-> Component("native_executable", "A08", "WAIT_TOOLCHAIN", TRUE)]

ReceiptComponents ==
    [lean     |-> Component("stage_receipt", "A09", "WAIT_TOOLCHAIN", TRUE),
     rocq     |-> Component("stage_receipt", "A10", "WAIT_TOOLCHAIN", TRUE),
     openalex |-> Component("stage_receipt", "A11", "WAIT_CAPABILITY", TRUE),
     pysr     |-> Component("stage_receipt", "A12", "WAIT_CAPABILITY", TRUE),
     ripser   |-> Component("stage_receipt", "A13", "WAIT_CAPABILITY", TRUE),
     diffrax  |-> Component("stage_receipt", "A14", "WAIT_CAPABILITY", TRUE)]

ProtectedComponents ==
    [petsc   |-> Component("remote_compute_target", "A15", "WAIT_COMPUTE_NODE", FALSE),
     signer  |-> Component("production_key_receipt", "A04", "WAIT_AUTHORITY", FALSE),
     sandbox |-> Component("linux_isolation", "A05", "WAIT_COMPUTE_TARGET", FALSE),
     t7      |-> Component("physical_volume", "A02", "WAIT_T7_BINDING", FALSE)]

COMPONENTS ==
    [c \in DOMAIN ImportedComponents \cup DOMAIN NativeComponents \cup DOMAIN ReceiptComponents
               \cup DOMAIN ProtectedComponents |->
        CASE c \in DOMAIN ImportedComponents  -> ImportedComponents[c]
          [] c \in DOMAIN NativeComponents    -> NativeComponents[c]
          [] c \in DOMAIN ReceiptComponents   -> ReceiptComponents[c]
          [] c \in DOMAIN ProtectedComponents -> ProtectedComponents[c]]

\* What the world holds for a component.  A module or program is absent, gives
\* wrong answers, or works; python-flint also needs its licence receipt; a
\* receipt has its defects, two at most; the key receipt proves a binding or not.
Worlds(c) ==
    LET k == COMPONENTS[c].kind
    IN  IF k = "stage_receipt"
        THEN {{}} \cup {{x, y} : x, y \in ReceiptFacts[COMPONENTS[c].stage]}
        ELSE CASE c = "flint"                  -> {"absent", "wrong", "unlicensed", "works"}
               [] k = "python_import"          -> {"absent", "wrong", "works"}
               [] k = "native_executable"      -> {"absent", "wrong", "works"}
               [] k = "production_key_receipt" -> {"absent", "wrong", "works"}
               [] OTHER                        -> {"protected"}

\* The probe alone: _python_probe, _executable_probe, _stage_receipt_probe and
\* _production_key_receipt_probe.
Probed(c, world) ==
    LET k == COMPONENTS[c].kind
    IN  CASE k = "stage_receipt"                           -> Validated(COMPONENTS[c].stage, world)
          [] k \in {"python_import", "native_executable"} -> world # "absent"
          [] k = "production_key_receipt"                  -> world = "works"
          [] OTHER                                         -> FALSE

\* The smoke: a closed-form cross-check, or the receipt read and validated again.
SmokePasses(c, world) ==
    IF COMPONENTS[c].kind = "stage_receipt" THEN Validated(COMPONENTS[c].stage, world)
                                            ELSE world = "works"

EvidenceAxis(kind) ==
    CASE kind = "stage_receipt"          -> "hash_bound_stage_receipt_and_scientific_smoke"
      [] kind = "production_key_receipt" -> "production_native_evidence"
      [] OTHER                           -> "nonfixture_executable_probe_and_scientific_smoke"

\* Wrong variant: a failing smoke is not noticed.
EntryIgnoringSmoke(c, ok, smoked) ==
    [id |-> c, installed |-> ok, smoke |-> ok, crosschecked |-> ok,
     state |-> IF ok THEN "ACTIVE" ELSE COMPONENTS[c].wait,
     axis  |-> IF ok THEN EvidenceAxis(COMPONENTS[c].kind) ELSE "missing_or_protected_capability"]

\* _probe: the ledger's entry, from what the probe and the smoke found.
LedgerEntry(c, ok, smoked) ==
    LET k            == COMPONENTS[c]
        key          == k.kind = "production_key_receipt"
        smoke        == ok /\ (key \/ (k.smoked /\ smoked))
        crosschecked == smoke /\ (k.smoked \/ key)
        active       == ok /\ crosschecked
    IN  [id |-> c, installed |-> ok, smoke |-> smoke, crosschecked |-> crosschecked,
         state |-> IF active THEN "ACTIVE" ELSE IF ok THEN "EXECUTABLE_PROBED" ELSE k.wait,
         axis  |-> IF active THEN EvidenceAxis(k.kind)
                   ELSE IF ok THEN "executable_probe_only" ELSE "missing_or_protected_capability"]
-----------------------------------------------------------------------------
(***************************************************************************)
(* Probing one component: the receipt is read by the probe, which names it *)
(* in the entry, and again by the smoke.                                   *)
(***************************************************************************)
TruthInit ==
    /\ subject = "truth"
    /\ \E c \in DOMAIN COMPONENTS : \E w \in Worlds(c) :
           st = [c |-> c, world |-> w, rewrites |-> 0, named |-> {}, smoked |-> {}, entry |-> {}]

\* What can change between the two reads: a receipt or a program on disk, but
\* not a module once it is imported.
Rewritable(c, world) ==
    CASE COMPONENTS[c].kind = "stage_receipt" -> {w \in Worlds(c) : Cardinality(w) <= 1}
      [] COMPONENTS[c].kind = "python_import" -> IF world \in {"unlicensed", "works"} /\ c = "flint"
                                                 THEN {"unlicensed", "works"} ELSE {}
      [] OTHER                                -> Worlds(c)

Rewrite ==
    /\ st.rewrites < MaxRewrites /\ st.entry = {}
    /\ \E w \in Rewritable(st.c, st.world) :
           Step("truth", [st EXCEPT !.world = w, !.rewrites = @ + 1])

Probe ==
    /\ st.named = {}
    /\ Step("truth", [st EXCEPT !.named = {[world |-> st.world, ok |-> Probed(st.c, st.world)]}])

\* The smoke runs at once in the code, with the file's next read; its failure
\* is caught and leaves the component probed.
SmokeAndEnter ==
    \E n \in st.named :
        /\ st.entry = {}
        /\ Step("truth", [st EXCEPT !.smoked = {st.world},
                                    !.entry  = {LedgerEntry(st.c, n.ok,
                                                    n.ok /\ SmokePasses(st.c, st.world))}])

TruthNext == subject = "truth" /\ (Rewrite \/ Probe \/ SmokeAndEnter)
-----------------------------------------------------------------------------
(***************************************************************************)
(* The release gate.                                                       *)
(***************************************************************************)
NONPRODUCTION == {"fixture_only", "policy_only", "executable_probe_only"}

\* _component_blockers, for one mandatory component.
ComponentBlockers(e) ==
    IF e.state # "ACTIVE"
    THEN {IF e.id = "flint" /\ e.state = "WAIT_LICENSE" THEN <<"WAIT_LICENSE", e.id>>
                                                        ELSE <<"NOT_ACTIVE", e.id, e.state>>}
    ELSE (IF e.axis \in NONPRODUCTION THEN {<<"NONPRODUCTION_EVIDENCE", e.id>>} ELSE {})
         \cup {<<"ACTIVE_WITHOUT", f, e.id>> :
                   f \in {x \in {"installed", "smoke", "crosschecked"} : ~e[x]}}

\* _candidate_surface_blockers
SurfaceBlockers(candidate) ==
    (IF candidate.signer = "ed25519_native" THEN {} ELSE {<<"PRODUCTION_SIGNER_NOT_NATIVE">>})
    \cup (IF candidate.sandbox = "enforced_t2_t3" THEN {} ELSE {<<"SANDBOX_NOT_ENFORCED">>})
    \cup (IF candidate.t7 = "ACTIVE" THEN {} ELSE {<<"T7_NOT_ACTIVE">>})

\* evaluate_release_candidate
EvaluateRelease(candidate, ledger) ==
    LET blockers == SurfaceBlockers(candidate) \cup UNION {ComponentBlockers(e) : e \in ledger}
    IN  [verdict  |-> IF ~candidate.done THEN "NOT_A_DONE_CANDIDATE"
                      ELSE IF blockers = {} THEN "PASS" ELSE "REJECT",
         blockers |-> blockers]
-----------------------------------------------------------------------------
(***************************************************************************)
(* Final acceptance.  The key receipt is read for the ledger and again for *)
(* the index of activation attempts; st.world holds the files.             *)
(***************************************************************************)
KeyReceipts == {"absent", "active", "active_unproved", "blocked_with_waits", "blocked_no_waits"}
T7Attempts == {"absent", "partial", "active"}
StageReceipts ==
    [result : {"PASS", "FAIL"}, closure : {"none", "open", "closed"}, authority : BOOLEAN,
     checks : {"none", "empty", "pass", "fail"}]

\* Where the commit may be named: by the caller, the environment, the checkout.
HeadSources ==
    {[explicit |-> e, env |-> v, local |-> l, main |-> m] :
        e, v \in {"none", "malformed", "a"}, l, m \in {"none", "b"}}

\* Either the evidence varies, or the stage receipt and the git heads do.
VariedApart(key, t7, flint, receipt, present, heads) ==
    \/ present /\ receipt.result = "PASS" /\ receipt.closure = "none"
       /\ ~receipt.authority /\ receipt.checks = "none"
    \/ key = "active" /\ t7 = "partial" /\ flint = "works"
       /\ heads.explicit = "a" /\ heads.env = "none" /\ heads.local = "b"

AcceptanceInit ==
    /\ subject = "acceptance"
    /\ \E key \in KeyReceipts, t7 \in T7Attempts, flint \in {"absent", "unlicensed", "works"},
          receipt \in StageReceipts, present \in BOOLEAN, heads \in HeadSources :
           /\ VariedApart(key, t7, flint, receipt, present, heads)
           /\ st = [world |-> [key |-> key, t7 |-> t7, flint |-> flint, receipt |-> receipt,
                               present |-> present],
                    heads |-> heads, rewrites |-> 0, ledger |-> {}, decision |-> {},
                    attempts |-> {}, accepted |-> {}, receipt |-> {}]

\* The A04 tool binds or loses the production key meanwhile.
RewriteKey ==
    /\ st.rewrites < MaxRewrites /\ st.receipt = {}
    /\ \E k \in KeyReceipts :
           Step("acceptance", [st EXCEPT !.world.key = k, !.rewrites = @ + 1])

\* build_truth_ledger, for the components acceptance tells apart.
BuildLedger ==
    /\ st.ledger = {}
    /\ LET key == IF st.world.key = "active" THEN "works" ELSE "wrong"
       IN  Step("acceptance", [st EXCEPT !.ledger =
               {LedgerEntry("signer", Probed("signer", key), FALSE),
                LedgerEntry("flint", Probed("flint", st.world.flint),
                            SmokePasses("flint", st.world.flint)),
                LedgerEntry("t7", FALSE, FALSE)}])

SignerActive(ledger) == \E e \in ledger : e.id = "signer" /\ e.state = "ACTIVE"

EvaluateCandidate ==
    /\ st.ledger # {} /\ st.decision = {}
    /\ Step("acceptance", [st EXCEPT !.decision =
           {EvaluateRelease([done |-> TRUE, sandbox |-> "t0_t1", t7 |-> "WAIT_T7_BINDING",
                             signer |-> IF SignerActive(st.ledger) THEN "ed25519_native"
                                        ELSE "WAIT_AUTHORITY"], st.ledger)}])

\* _is_stage_receipt_accepted
StageAccepted(r) ==
    \/ r.result = "PASS"
    \/ r.closure = "closed" /\ ~r.authority /\ r.checks \in {"none", "pass"}

\* _stage_receipt_index
IndexStages ==
    /\ st.decision # {} /\ st.accepted = {}
    /\ Step("acceptance",
            [st EXCEPT !.accepted = {st.world.present /\ StageAccepted(st.world.receipt)}])

\* _activation_attempt_receipt_index
IndexAttempts ==
    /\ st.accepted # {} /\ st.attempts = {}
    /\ Step("acceptance", [st EXCEPT !.attempts =
           {[a04    |-> st.world.key, a02 |-> st.world.t7,
             passed |-> /\ st.world.key \notin {"absent", "blocked_no_waits"}
                        /\ st.world.t7 # "absent"]}])

\* resolve_a22_head_provenance: a malformed head is passed over.
Known(h) == h \notin {"none", "malformed"}
SourceHead(h) ==
    IF Known(h.explicit) THEN h.explicit ELSE IF Known(h.env) THEN h.env
    ELSE IF h.local # "none" THEN h.local ELSE "UNKNOWN"
AcceptedHead(h) == IF h.main # "none" THEN h.main ELSE SourceHead(h)

\* _mandatory_nonactive_components
MandatoryWaits(ledger) == {e \in ledger : e.state # "ACTIVE"}

\* _mandatory_waits_are_release_blockers
WaitsBlock(ledger, blockers) ==
    \A e \in MandatoryWaits(ledger) :
        \/ <<"NOT_ACTIVE", e.id, e.state>> \in blockers
        \/ e.state = "WAIT_LICENSE" /\ <<"WAIT_LICENSE", e.id>> \in blockers

\* _remaining_external_waits: the fixed ones, and the signer's.
RemainingWaits(ledger) ==
    {"A02", "A05", "A09", "A15", "A21"} \cup (IF SignerActive(ledger) THEN {} ELSE {"A04"})

\* _activation_attempts_preserve_release_blockers
AttemptsPreserve(attempts, blockers) ==
    /\ attempts.passed
    /\ <<"T7_NOT_ACTIVE">> \in blockers /\ attempts.a02 = "partial"
    /\ \/ <<"PRODUCTION_SIGNER_NOT_NATIVE">> \in blockers
       \/ attempts.a04 \in {"active", "active_unproved"}

\* The checks A22-01 .. A22-07 and the receipt.  The decision packet and the
\* closeout (A22-04, A22-05) are built blocked whatever was found.
CloseAcceptance ==
    \E d \in st.decision, a \in st.attempts, stages \in st.accepted :
        /\ st.receipt = {}
        /\ LET checks == [stages   |-> stages,
                          waits    |-> WaitsBlock(st.ledger, d.blockers),
                          rejected |-> d.verdict = "REJECT",
                          heads    |-> SourceHead(st.heads) # "UNKNOWN"
                                       /\ AcceptedHead(st.heads) # "UNKNOWN",
                          attempts |-> AttemptsPreserve(a, d.blockers)]
           IN  Step("acceptance", [st EXCEPT !.receipt =
                   {[result |-> IF \A k \in DOMAIN checks : checks[k] THEN "PASS" ELSE "FAIL",
                     checks |-> checks, waits |-> RemainingWaits(st.ledger),
                     head |-> AcceptedHead(st.heads)]}])

AcceptanceNext ==
    /\ subject = "acceptance"
    /\ RewriteKey \/ BuildLedger \/ EvaluateCandidate \/ IndexStages \/ IndexAttempts
       \/ CloseAcceptance

ReleaseInit == TruthInit \/ AcceptanceInit
ReleaseNext == TruthNext \/ AcceptanceNext
-----------------------------------------------------------------------------
(***************************************************************************)
(* Properties.                                                             *)
(***************************************************************************)
\* No component is entered as ACTIVE on a receipt, a module or a program that
\* was found wanting: both reads were sound, although the file or the tool may
\* change between the probe and the smoke (_probe).
ActiveIsEvidenced ==
    subject = "truth" =>
        \A e \in st.entry, n \in st.named, s \in st.smoked :
            e.state = "ACTIVE" => /\ Probed(st.c, n.world)
                                  /\ COMPONENTS[st.c].smoked => SmokePasses(st.c, s)

\* The ledger and the gate agree: an entry the ledger calls ACTIVE raises no
\* blocker of its own, and every other one does (_probe, _component_blockers).
LedgerMeetsGate ==
    subject = "truth" =>
        \A e \in st.entry : ComponentBlockers(e) = {} <=> e.state = "ACTIVE"

\* Every mandatory component that is not ACTIVE is among the blockers the
\* acceptance receipt reports, licence waits included (check A22-02).
WaitsAlwaysBlock ==
    subject = "acceptance" => \A r \in st.receipt : r.checks.waits

\* A passing acceptance receipt that records an unfinished key binding lists
\* the signer among what is still awaited, although the key's receipt is read
\* twice and may be rewritten in between (check A22-07).
SignerWaitNotDropped ==
    subject = "acceptance" =>
        \A r \in st.receipt, a \in st.attempts :
            r.result = "PASS" /\ a.a04 \notin {"active", "active_unproved"} => "A04" \in r.waits

\* The ledger claims what the evidence files carry, and every wait shows.
ReleaseEvidenced ==
    /\ ActiveIsEvidenced
    /\ LedgerMeetsGate
    /\ WaitsAlwaysBlock
    /\ SignerWaitNotDropped
=============================================================================
