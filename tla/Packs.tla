-------------------------------- MODULE Packs --------------------------------
(***************************************************************************)
(* Science packs.  A pack is built from a work directory or unpacked from  *)
(* an archive, climbs the admission pipeline stage by stage, is assessed   *)
(* by governance against its evidence and the revocation registry, is      *)
(* copied into a staging directory, and is dispatched by the scheduler     *)
(* only while its recorded status is ACTIVE.  Environment profiles order   *)
(* their dependency graph and are assessed in the same way.                *)
(***************************************************************************)
EXTENDS Procedures, Integers, Sequences, FiniteSets

CONSTANTS
    Curators,    \* callers that hold an admission state of the pack
    Files,       \* file contents a tree is made of
    MaxDrifts,   \* bound: changes of the pack root under a materialisation
    MaxMembers,  \* bound: members of an archive
    DepIds       \* dependency ids 1..N a profile declares; 0 is undeclared

ASSUME PacksAssumption ==
    /\ MaxDrifts \in Nat /\ MaxMembers \in Nat
    /\ DepIds \subseteq Nat \ {0} /\ IsFiniteSet(DepIds)
-----------------------------------------------------------------------------
(***************************************************************************)
(* Licences and manifests.                                                 *)
(***************************************************************************)

\* What the allowlist and the incompatible prefixes make of an SPDX id.
LicenseClasses == {"allowed", "incompatible", "unknown"}

LicenseVerdict(spdx) ==
    CASE spdx = "allowed"      -> "ok"
      [] spdx = "incompatible" -> "LICENSE_INCOMPATIBLE"
      [] spdx = "unknown"      -> "LICENSE_UNKNOWN"

\* build_manifest: the checks of a whole manifest, in the order they are made.
ManifestVerdict(v) ==
    IF ~v.shape \/ v.platforms = {} THEN "CONTRACT_INVALID"
    ELSE IF LicenseVerdict(v.license) # "ok" THEN LicenseVerdict(v.license)
    ELSE IF \/ ~v.probes \subseteq {v.entrypoints[i] : i \in DOMAIN v.entrypoints}
            \/ v.canonical_writes # 0 \/ v.grants_authority
         THEN "CONTRACT_INVALID"
    ELSE "ok"

\* The probes a specification without any gets: first and second entrypoint.
DefaultProbes(e) == {e[1], e[IF Len(e) > 1 THEN 2 ELSE 1]}

\* build_pack: the builder's own checks, then those of the manifest it made.
\* Its lock is the digest of lock.json, or the empty digest without one.
BuiltManifest(spec, lockFile, tree) ==
    [shape |-> spec.shape, platforms |-> spec.platforms, license |-> spec.license,
     entrypoints |-> spec.entrypoints,
     probes |-> IF spec.probes = {} THEN DefaultProbes(spec.entrypoints) ELSE spec.probes,
     canonical_writes |-> 0, grants_authority |-> FALSE,
     lock |-> IF lockFile THEN "lock" ELSE "empty", tree |-> tree]

BuildVerdict(spec) ==
    IF ~spec.shape THEN "CONTRACT_INVALID"
    ELSE IF LicenseVerdict(spec.license) # "ok" THEN LicenseVerdict(spec.license)
    ELSE IF spec.platforms = {} \/ spec.entrypoints = <<>> THEN "CONTRACT_INVALID"
    ELSE ManifestVerdict(BuiltManifest(spec, FALSE, {}))

\* check_manifest_platform: os and architecture agree; an ABI counts only when
\* both sides name one.
PlatformFits(spec, host) ==
    /\ spec.os = host.os /\ spec.arch = host.arch
    /\ spec.abi = "any" \/ host.abi = "any" \/ spec.abi = host.abi
-----------------------------------------------------------------------------
(***************************************************************************)
(* Admission: an immutable state that advance copies with one more receipt *)
(* or refuses; every caller keeps the states it was given.                 *)
(***************************************************************************)

STAGES == <<"DISCOVERED", "SOURCE_VERIFIED", "LICENSE_CLEARED", "LOCKED", "BUILT",
            "BYTE_VERIFIED", "RUNTIME_PROBED", "ACTUAL_COMPUTE_PROBED",
            "EXPERIMENTAL_ACCEPTED">>
StageIndex(s) == CHOOSE i \in DOMAIN STAGES : STAGES[i] = s
CurrentStage(chain) == STAGES[Len(chain) + 1]

GateReason ==
    [SOURCE_VERIFIED |-> "UPSTREAM_SOURCE_UNVERIFIED", LOCKED |-> "DEPENDENCY_LOCK_DRIFT",
     BUILT |-> "PACK_INTEGRITY_FAILURE", BYTE_VERIFIED |-> "PACK_INTEGRITY_FAILURE",
     RUNTIME_PROBED |-> "ACTUAL_COMPUTE_FAILED",
     ACTUAL_COMPUTE_PROBED |-> "ACTUAL_COMPUTE_FAILED"]

\* Evidence is of the kind of some stage and says what it found.
Evidence == [kind : {STAGES[i] : i \in DOMAIN STAGES}, found : {"good", "bad"}]
            \cup [kind : {"LICENSE_CLEARED"}, found : LicenseClasses]

GateAnswer(stage, ev) ==
    IF ev.kind # stage THEN "CONTRACT_INVALID"
    ELSE CASE stage = "EXPERIMENTAL_ACCEPTED" -> "ok"
           [] stage = "LICENSE_CLEARED" ->
                IF ev.found \in {"incompatible", "unknown"} THEN LicenseVerdict(ev.found)
                ELSE IF ev.found = "allowed" THEN "ok" ELSE "CONTRACT_INVALID"
           [] OTHER -> IF ev.found = "good" THEN "ok" ELSE GateReason[stage]

\* advance: the answer, "ok" where a receipt is appended, "same" where the
\* receipt of the current stage is handed out again.
AdvanceAnswer(chain, stage, ev) ==
    LET cur == Len(chain) + 1
        tgt == StageIndex(stage)
    IN  IF tgt = cur THEN IF chain = <<>> THEN "CONTRACT_INVALID" ELSE "same"
        ELSE IF tgt < cur THEN "CONTRACT_INVALID"
        ELSE IF STAGES[cur] = "RUNTIME_PROBED" /\ stage = "EXPERIMENTAL_ACCEPTED"
             THEN "PACK_PROBE_ONLY"
        ELSE IF tgt # cur + 1 THEN "CONTRACT_INVALID"
        ELSE GateAnswer(stage, ev)

\* The receipt's id is a digest of everything in it, so it is its own id.
Receipt(c, chain, stage, ev) ==
    [by |-> c, from |-> CurrentStage(chain), stage |-> stage, evidence |-> ev]

Advance(c, stage, ev) ==
    LET answer == AdvanceAnswer(st.chain[c], stage, ev)
    IN  Step("admission",
             [st EXCEPT !.chain[c] = IF answer = "ok"
                                     THEN Append(@, Receipt(c, @, stage, ev)) ELSE @,
                        !.answer = answer])
-----------------------------------------------------------------------------
(***************************************************************************)
(* Governance: the status of a pack, from evidence its curators collected  *)
(* and the revocation registry of the moment.                              *)
(***************************************************************************)

ScanPassed(scan) == scan.critical <= scan.maxCritical /\ scan.high <= scan.maxHigh

\* _status_for: the first gate that fails names the status.
StatusFor(license, e, revoked) ==
    IF "pack" \in revoked \/ e.deps \cap revoked # {} THEN "REVOKED"
    ELSE IF license # "allowed" THEN "WAIT_LICENSE"
    ELSE IF ~e.sbom THEN "WAIT_SBOM"
    ELSE IF ~e.lock THEN "WAIT_LOCK"
    ELSE IF e.scan = {} THEN "WAIT_VULNERABILITY_SCAN"
    ELSE IF \E s \in e.scan : ~ScanPassed(s) THEN "WAIT_VULNERABILITY_SCAN"
    ELSE IF Cardinality(e.ids) # Len(STAGES) - 1 THEN "WAIT_ADMISSION_RECEIPT"
    ELSE "ACTIVE"

ReceiptsOf(chain) == {chain[i] : i \in DOMAIN chain}

\* A digest that is the id of no receipt, or of one of another pack.
Foreign(n) == [digest |-> n]

\* The receipt ids governance may be handed: distinct digests, and nothing else is
\* checked.  They may be a chain's, several chains', or either made up to eight.
IdSets ==
    LET real == {ReceiptsOf(st.chain[c]) : c \in Curators}
                \cup {UNION {ReceiptsOf(st.chain[c]) : c \in Curators}}
    IN  real \cup {R \cup {Foreign(n) : n \in 1 .. Len(STAGES) - 1 - Cardinality(R)} : R \in real}

Assess(license, e) ==
    Step("admission",
         [st EXCEPT !.record = [status |-> StatusFor(license, e, st.revoked), ids |-> e.ids,
                                license |-> license, evidence |-> [e EXCEPT !.ids = {}],
                                revoked |-> st.revoked],
                    !.answer = "assessed"])

\* build_pack_governance_receipt refuses an ACTIVE record with too few receipts.
GovernanceReceipt ==
    /\ st.record.status # "none"
    /\ Step("admission",
            [st EXCEPT !.answer = IF /\ st.record.status = "ACTIVE"
                                     /\ Cardinality(st.record.ids) # Len(STAGES) - 1
                                  THEN "CONTRACT_INVALID" ELSE "receipt"])

\* A new revocation registry names one more pack or dependency.
Revoke(x) ==
    /\ x \notin st.revoked
    /\ Step("admission", [st EXCEPT !.revoked = @ \cup {x}, !.answer = "revoked"])

\* _pack_wait_detail: the scheduler looks at the status table it was handed,
\* which holds the recorded status, or no entry yet.
DispatchPack(listed) ==
    LET status == IF listed THEN st.record.status ELSE "none"
    IN  Step("admission", [st EXCEPT !.answer = IF status = "ACTIVE" THEN "ran" ELSE "wait"])
-----------------------------------------------------------------------------
(***************************************************************************)
(* Archives.  A member has a place (inside the destination, at a declared  *)
(* entrypoint, behind a link that is in the destination already, escaping  *)
(* it, or naming nothing), a type and mode bits.                           *)
(***************************************************************************)
Member == [place : {"inside", "entry", "linked", "escape", "absolute", "empty"},
           type : {"file", "dir", "link", "device"}, mode : {"plain", "exec", "suid"}]
Archive == UNION {[1..n -> Member] : n \in 0..MaxMembers}

\* _check_archive_mode
ModeRejected(m) == m.mode = "suid" \/ (m.mode = "exec" /\ m.place # "entry")

\* _extract_tar_member checks the mode of directories too ...
TarMemberRejected(m) ==
    \/ m.place \in {"escape", "absolute", "empty"}
    \/ m.type \in {"link", "device"}
    \/ ModeRejected(m)

\* ... the zip loop only that of files.
ZipMemberRejected(m) ==
    \/ m.place \in {"escape", "absolute", "empty"}
    \/ m.type \in {"link", "device"}
    \/ m.type = "file" /\ ModeRejected(m)

Rejected(format, m) == IF format = "tar" THEN TarMemberRejected(m) ELSE ZipMemberRejected(m)

\* Whatever the mode in the archive was, a fixed one is written.
NormalMode(m) == IF m.type = "dir" \/ m.place = "entry" THEN "exec" ELSE "plain"

\* _is_within_dest finds a file that went through a link, once it is written.
EscapedFile(e) == e.place = "linked" /\ e.type = "file"

\* One member: refused, or written with its normalised mode.  A file is looked at
\* again where it ended up; a directory is not.  A refusal ends the extraction and
\* leaves what was written where it is.
ExtractMember ==
    /\ st.answer = "open" /\ st.next <= Len(st.members)
    /\ LET m     == st.members[st.next]
           entry == [place |-> m.place, type |-> m.type, mode |-> NormalMode(m), nr |-> st.next]
       IN  Step("archive",
                IF Rejected(st.format, m) THEN [st EXCEPT !.answer = "PACK_INTEGRITY_FAILURE"]
                ELSE IF EscapedFile(m)
                THEN [st EXCEPT !.dest = @ \cup {entry}, !.answer = "PACK_INTEGRITY_FAILURE"]
                ELSE [st EXCEPT !.next = @ + 1, !.dest = @ \cup {entry}])

ExtractReport ==
    /\ st.answer = "open" /\ st.next > Len(st.members)
    /\ Step("archive", [st EXCEPT !.answer = "report"])
-----------------------------------------------------------------------------
(***************************************************************************)
(* Materialisation.  A tree holds regular files and links to files; its    *)
(* hash sees the regular ones only, while copying follows the links.       *)
(***************************************************************************)
Tree == [regular : SUBSET Files, linked : SUBSET Files]

TreeHash(t) == t.regular
CopyOf(t) == [regular |-> t.regular \cup t.linked, linked |-> {}]
NoTree == [regular |-> {}, linked |-> {}]

\* materialize, up to the copy: no immutable root, and the manifest's hash.
CheckRoot ==
    /\ st.step = "check"
    /\ Step("staging",
            [st EXCEPT !.step = IF st.immutable \/ TreeHash(st.root) # st.manifest
                                THEN "failed" ELSE "copy"])

\* The staging directory is removed and written afresh.
CopyTree ==
    /\ st.step = "copy"
    /\ Step("staging", [st EXCEPT !.step = "verify", !.staged = CopyOf(st.root)])

\* Wrong variant: the copy is not hashed again.
VerifyCopyTrusting ==
    /\ st.step = "verify"
    /\ Step("staging", [st EXCEPT !.step = "receipt"])

VerifyCopy ==
    /\ st.step = "verify"
    /\ Step("staging",
            [st EXCEPT !.step = IF TreeHash(st.staged) = st.manifest THEN "receipt"
                                ELSE "failed"])

\* The pack root is an ordinary directory that others may write to.
Drift(t) ==
    /\ st.drifts < MaxDrifts
    /\ Step("staging", [st EXCEPT !.root = t, !.drifts = @ + 1])
-----------------------------------------------------------------------------
(***************************************************************************)
(* Environment profiles: a depth-first walk orders the dependency graph,   *)
(* and the first class of defect found in it names the status.             *)
(***************************************************************************)
Least(S) == CHOOSE x \in S : \A y \in S : x <= y
OnStack(d) == \E i \in DOMAIN st.stack : st.stack[i].dep = d
Frame(d) == [dep |-> d, todo |-> st.graph[d]]
Top == st.stack[Len(st.stack)]

\* The outer loop takes the least dependency the walk has not seen.
VisitRoot ==
    LET left == DepIds \ st.visited
    IN  /\ st.answer = "open" /\ st.stack = <<>>
        /\ Step("environment",
                IF left = {} THEN [st EXCEPT !.answer = "ordered"]
                ELSE [st EXCEPT !.stack = <<Frame(Least(left))>>])

\* visit, for the next child of the dependency on top of the stack.
VisitChild ==
    /\ st.answer = "open" /\ st.stack # <<>> /\ Top.todo # {}
    /\ LET child  == Least(Top.todo)
           popped == [st EXCEPT !.stack[Len(st.stack)].todo = @ \ {child}]
       IN  Step("environment",
                IF child \in st.visited THEN popped
                ELSE IF OnStack(child) \/ child \notin DepIds
                THEN [st EXCEPT !.answer = "dependency_dag_invalid"]
                ELSE [popped EXCEPT !.stack = Append(@, Frame(child))])

\* A dependency whose children are done joins the order.
VisitDone ==
    /\ st.answer = "open" /\ st.stack # <<>> /\ Top.todo = {}
    /\ Step("environment",
            [st EXCEPT !.stack = SubSeq(@, 1, Len(@) - 1), !.visited = @ \cup {Top.dep},
                       !.ordered = Append(@, Top.dep)])

EnvironmentStatusIncompatibleOk(license, revoked) ==
    IF revoked # {} THEN "REVOKED"
    ELSE IF \E d \in DepIds : license[d] = "unknown" THEN "WAIT_LICENSE"
    ELSE "ACTIVE"

\* _status_for of a profile: revoked before unknown before incompatible.
EnvironmentStatus(license, revoked) ==
    IF revoked # {} THEN "REVOKED"
    ELSE IF \E d \in DepIds : license[d] = "unknown" THEN "WAIT_LICENSE"
    ELSE IF \E d \in DepIds : license[d] = "incompatible" THEN "WAIT_LICENSE"
    ELSE "ACTIVE"

ProfileStatus(license, revoked) ==
    /\ st.answer = "ordered"
    /\ Step("environment",
            [st EXCEPT !.answer = EnvironmentStatus(license, revoked),
                       !.fault = revoked # {} \/ \E d \in DepIds : license[d] # "allowed"])
-----------------------------------------------------------------------------
(***************************************************************************)
(* The first-wave (P1) policy and the P0 and SciML inventories.            *)
(***************************************************************************)
P1_REQUIREMENTS == {"unique_capability", "concrete_hypothesis", "license_closure",
                    "platform_build", "resource_measurement", "actual_compute_adapter",
                    "independent_scientific_role", "removal_rollback_path"}
VerdictRank ==
    [ADMIT_TO_PIPELINE |-> 0, WAIT_RESOURCE |-> 1, WAIT_CAPABILITY |-> 2,
     WAIT_LICENSE |-> 3, REJECT_CONTRACT |-> 4]

RequirementVerdict(r) ==
    CASE r = "license_closure"       -> "WAIT_LICENSE"
      [] r = "resource_measurement"  -> "WAIT_RESOURCE"
      [] r = "removal_rollback_path" -> "REJECT_CONTRACT"
      [] OTHER                       -> "WAIT_CAPABILITY"

\* evaluate_p1_candidate: the strictest verdict a missing requirement forces.
P1Verdict(evidence, required) ==
    LET missing == required \ evidence
        forced  == {RequirementVerdict(r) : r \in missing}
    IN  IF missing = {} THEN "ADMIT_TO_PIPELINE"
        ELSE CHOOSE v \in forced : \A w \in forced : VerdictRank[v] >= VerdictRank[w]

EvaluateP1 ==
    /\ st.verdict = "none"
    /\ Step("p1", [st EXCEPT !.verdict = P1Verdict(st.evidence, st.required)])

\* What is importable, or on the path, can only lower a declared status.
AssessP0(declared, missing) ==
    IF declared = "ACTIVE" /\ missing THEN "WAIT_CAPABILITY" ELSE declared
AssessSciml(declared, missing) == IF missing THEN "WAIT_CAPABILITY" ELSE declared

AssessInventory(missing) ==
    /\ st.answer = "none"
    /\ Step("inventory", [st EXCEPT !.missing = missing,
                                    !.answer = IF st.kind = "p0" THEN AssessP0(st.declared, missing)
                                               ELSE AssessSciml(st.declared, missing)])

\* build_cross_language_fixture_receipt: two receipts, a positive tolerance,
\* and no claim of bitwise identity across languages or solver families.
FixtureAnswer(receipts, abs, rel, bitwise) ==
    IF \/ Len(receipts) < 2 \/ abs < 0 \/ rel < 0 \/ (abs = 0 /\ rel = 0)
       \/ bitwise /\ \E i, j \in DOMAIN receipts : receipts[i] # receipts[j]
    THEN "CONTRACT_INVALID" ELSE "receipt"

Runtimes == [language : {"julia", "python"}, family : {"ode", "dae"}]

CompareFixtures(abs, rel, bitwise) ==
    /\ st.answer = "none"
    /\ Step("fixture", [st EXCEPT !.bitwise = bitwise,
                                  !.answer = FixtureAnswer(st.receipts, abs, rel, bitwise)])

Platforms == [os : {"linux", "macos"}, arch : {"x86_64", "arm64"}, abi : {"any", "x", "y"}]

CheckPlatform(host) ==
    /\ st.answer = "none"
    /\ Step("platform",
            [st EXCEPT !.host = host,
                       !.answer = IF \E p \in st.platforms : PlatformFits(p, host)
                                  THEN "ok" ELSE "PLATFORM_UNSUPPORTED"])
-----------------------------------------------------------------------------
Specs == [shape : BOOLEAN, platforms : {{}, {"p"}}, license : LicenseClasses,
          entrypoints : {<<>>, <<"a">>, <<"a", "b">>}, probes : {{}, {"a"}, {"a", "b"}}]

BuildPack(lockFile) ==
    /\ st.answer = "none"
    /\ Step("build", [st EXCEPT !.answer = BuildVerdict(st.spec),
                                !.manifest = IF BuildVerdict(st.spec) = "ok"
                                             THEN BuiltManifest(st.spec, lockFile, {})
                                             ELSE @])

\* load_pack_inventory reads the manifest back and validates it again.
LoadInventory ==
    /\ st.answer = "ok"
    /\ Step("build", [st EXCEPT !.answer = IF ManifestVerdict(st.manifest) = "ok"
                                           THEN "loaded" ELSE "refused"])

NoManifest == [shape |-> FALSE]
NoRecord == [status |-> "none", ids |-> {}]
AllowedProfiles == {P1_REQUIREMENTS} \cup {P1_REQUIREMENTS \ {r} : r \in P1_REQUIREMENTS}

PacksInit ==
    \/ /\ subject = "admission"
       /\ st = [chain |-> [c \in Curators |-> <<>>], record |-> NoRecord, revoked |-> {},
                answer |-> "none"]
    \/ /\ subject = "archive"
       /\ \E f \in {"tar", "zip"}, m \in Archive :
            st = [format |-> f, members |-> m, next |-> 1, dest |-> {}, answer |-> "open"]
    \/ /\ subject = "staging"
       /\ \E t, s \in Tree, h \in SUBSET Files, i \in BOOLEAN :
            st = [root |-> t, manifest |-> h, immutable |-> i, staged |-> s, step |-> "check",
                  drifts |-> 0]
    \/ /\ subject = "environment"
       /\ \E g \in [DepIds -> SUBSET (DepIds \cup {0})] :
            st = [graph |-> g, stack |-> <<>>, visited |-> {}, ordered |-> <<>>,
                  answer |-> "open", fault |-> FALSE]
    \/ /\ subject = "p1"
       /\ \E e \in SUBSET P1_REQUIREMENTS, r \in AllowedProfiles :
            st = [evidence |-> e, required |-> r, verdict |-> "none"]
    \/ /\ subject = "build"
       /\ \E s \in Specs : st = [spec |-> s, answer |-> "none", manifest |-> NoManifest]
    \/ /\ subject = "inventory"
       /\ \E k \in {"p0", "sciml"}, d \in {"ACTIVE", "DEGRADED", "WAIT_CAPABILITY"} :
            st = [kind |-> k, declared |-> d, missing |-> FALSE, answer |-> "none"]
    \/ /\ subject = "fixture"
       /\ \E n \in 1..2 : \E r \in [1..n -> Runtimes] :
            st = [receipts |-> r, bitwise |-> FALSE, answer |-> "none"]
    \/ /\ subject = "platform"
       /\ \E p, q \in Platforms : st = [platforms |-> {p, q}, host |-> p, answer |-> "none"]

\* Complete governance evidence, and its flaws one at a time.
Scan(critical, high) == [critical |-> critical, high |-> high, maxCritical |-> 0, maxHigh |-> 1]
Complete(ids, deps) ==
    [sbom |-> TRUE, lock |-> TRUE, deps |-> deps, ids |-> ids, scan |-> {Scan(0, 1)}]
WithFlaws(e) ==
    {e, [e EXCEPT !.sbom = FALSE], [e EXCEPT !.lock = FALSE], [e EXCEPT !.scan = {}],
     [e EXCEPT !.scan = {Scan(1, 0)}], [e EXCEPT !.scan = {Scan(0, 2)}]}
EvidenceFor(deps) ==
    (UNION {WithFlaws(Complete(ReceiptsOf(st.chain[c]), deps)) : c \in Curators})
    \cup {Complete(i, deps) : i \in IdSets}
GovernanceEvidence == EvidenceFor({}) \cup EvidenceFor({"dep"})

PacksNext ==
    \/ subject = "admission" /\
       \/ \E c \in Curators, stage \in {STAGES[i] : i \in DOMAIN STAGES} :
            \E ev \in {e \in Evidence : e.kind \in {stage, "BUILT"}} : Advance(c, stage, ev)
       \/ \E l \in LicenseClasses, e \in GovernanceEvidence : Assess(l, e)
       \/ GovernanceReceipt
       \/ \E x \in {"pack", "dep"} : Revoke(x)
       \/ \E listed \in BOOLEAN : DispatchPack(listed)
    \/ subject = "archive" /\ (ExtractMember \/ ExtractReport)
    \/ subject = "staging" /\
       (CheckRoot \/ CopyTree \/ VerifyCopy \/ \E t \in Tree : Drift(t))
    \/ subject = "environment" /\
       \/ VisitRoot \/ VisitChild \/ VisitDone
       \/ \E l \in [DepIds -> LicenseClasses], r \in SUBSET DepIds : ProfileStatus(l, r)
    \/ subject = "p1" /\ EvaluateP1
    \/ subject = "build" /\ (LoadInventory \/ \E lockFile \in BOOLEAN : BuildPack(lockFile))
    \/ subject = "inventory" /\ \E missing \in BOOLEAN : AssessInventory(missing)
    \/ subject = "fixture" /\
       \E abs, rel \in -1..1, bitwise \in BOOLEAN : CompareFixtures(abs, rel, bitwise)
    \/ subject = "platform" /\ \E host \in Platforms : CheckPlatform(host)

-----------------------------------------------------------------------------
(* Properties *)

\* However often stages are retried, repeated, skipped or offered the wrong
\* evidence, a chain holds each stage once, in order, with evidence of the
\* stage's own kind that found what the stage is for.
ChainSound ==
    subject = "admission" =>
        \A c \in Curators : \A i \in DOMAIN st.chain[c] :
            LET r == st.chain[c][i]
            IN  /\ r.from = STAGES[i] /\ r.stage = STAGES[i + 1]
                /\ r.evidence.kind = r.stage
                /\ r.stage # "EXPERIMENTAL_ACCEPTED" => r.evidence.found \in {"good", "allowed"}

\* An ACTIVE record rests on eight distinct receipt ids, an allowed licence, a
\* bill of materials, a lock and a scan below its thresholds, with nothing revoked
\* when it was made; and where the eight are receipts of one chain they are one of
\* every admission stage (_status_for).  Governance counts the ids and looks none
\* of them up: any eight digests will do, where the admission document asks for
\* the full chain.
ActiveIsVetted ==
    (subject = "admission" /\ st.record.status = "ACTIVE") =>
        /\ Cardinality(st.record.ids) = Len(STAGES) - 1
        /\ \A c \in Curators : st.record.ids \subseteq ReceiptsOf(st.chain[c]) =>
               {r.stage : r \in st.record.ids} = {STAGES[i] : i \in DOMAIN STAGES} \ {"DISCOVERED"}
        /\ st.record.license = "allowed"
        /\ st.record.evidence.sbom /\ st.record.evidence.lock
        /\ \E s \in st.record.evidence.scan : s.critical <= s.maxCritical /\ s.high <= s.maxHigh
        /\ st.record.revoked \cap ({"pack"} \cup st.record.evidence.deps) = {}

\* What an extraction leaves behind is a plain file or a directory, executable only
\* where declared; a report has every member, a rejection exactly those before the
\* rejected one; and a file that a link took out of the destination is the last
\* thing written and always reported as a failure (_extract_tar_member,
\* _extract_zip).  A directory behind such a link is made and nobody looks.
ExtractionSound ==
    subject = "archive" =>
        /\ \A e \in st.dest :
               /\ e.place \in {"inside", "entry", "linked"} /\ e.type \in {"file", "dir"}
               /\ e.mode = "exec" => (e.type = "dir" \/ e.place = "entry")
               /\ EscapedFile(e) \/ e.nr = st.next =>
                      EscapedFile(e) /\ e.nr = st.next /\ st.answer = "PACK_INTEGRITY_FAILURE"
        /\ {e.nr : e \in st.dest} \ {st.next} = 1 .. (st.next - 1)
        /\ st.answer = "report" => st.next = Len(st.members) + 1
        /\ st.answer = "PACK_INTEGRITY_FAILURE" =>
             LET m == st.members[st.next]
             IN  m.mode # "plain" \/ m.type \in {"link", "device"}
                 \/ m.place \in {"linked", "escape", "absolute", "empty"}

\* A materialisation receipt means that the staged copy is the manifest's tree,
\* whatever happened to the pack root between its hash and the copy, and that
\* no link of the root became a file of the copy unseen.
StagedIsManifest ==
    (subject = "staging" /\ st.step = "receipt") =>
        st.staged.regular = st.manifest /\ st.staged.linked = {} /\ ~st.immutable

\* The dependency graph has a cycle, or a dependency nobody declared.
BadGraph(g) ==
    \/ \E d \in DepIds : 0 \in g[d]
    \/ \E S \in (SUBSET DepIds) \ {{}} : \A d \in S : g[d] \cap S # {}

\* The walk orders exactly the graphs that can be ordered, every dependency
\* once and after all it depends on, and an ACTIVE profile has no flaw.
EnvironmentSound ==
    subject = "environment" =>
        /\ st.answer = "dependency_dag_invalid" => BadGraph(st.graph)
        /\ st.answer \notin {"open", "dependency_dag_invalid"} =>
             /\ ~BadGraph(st.graph)
             /\ Len(st.ordered) = Cardinality(DepIds) /\ st.visited = DepIds
             /\ \A i \in DOMAIN st.ordered :
                  st.graph[st.ordered[i]] \subseteq {st.ordered[j] : j \in 1..(i - 1)}
        /\ st.answer = "ACTIVE" => ~st.fault

\* A candidate is admitted only with all the policy requires, and more evidence
\* never earns a stricter verdict.
P1Monotone ==
    (subject = "p1" /\ st.verdict # "none") =>
        /\ st.verdict = "ADMIT_TO_PIPELINE" <=> st.required \subseteq st.evidence
        /\ \A r \in P1_REQUIREMENTS :
             VerdictRank[P1Verdict(st.evidence \cup {r}, st.required)] <= VerdictRank[st.verdict]

\* What the builder builds, the inventory loads again.
BuildRoundTrip == subject = "build" => st.answer # "refused"

\* Nothing is ACTIVE that was not declared so or whose runtime is missing, no
\* bitwise identity is claimed across languages or solvers, and a platform is
\* accepted only for a declared os and architecture.
NoUnearnedClaim ==
    /\ (subject = "inventory" /\ st.answer = "ACTIVE") => st.declared = "ACTIVE" /\ ~st.missing
    /\ (subject = "fixture" /\ st.answer = "receipt" /\ st.bitwise) =>
         /\ Cardinality({st.receipts[i].language : i \in DOMAIN st.receipts}) = 1
         /\ Cardinality({st.receipts[i].family : i \in DOMAIN st.receipts}) = 1
    /\ (subject = "platform" /\ st.answer = "ok") =>
         \E p \in st.platforms : p.os = st.host.os /\ p.arch = st.host.arch

\* No pack, archive, staging copy, profile or claim is accepted unvetted.
PacksVetted ==
    /\ ChainSound
    /\ ActiveIsVetted
    /\ ExtractionSound
    /\ StagedIsManifest
    /\ EnvironmentSound
    /\ P1Monotone
    /\ BuildRoundTrip
    /\ NoUnearnedClaim
=============================================================================
