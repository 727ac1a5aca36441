------------------------------ MODULE Surfaces ------------------------------
(***************************************************************************)
(* What surrounds the runner and the store: the conformance harness with   *)
(* its credential canary, the evidence portal's build, and the pilot's     *)
(* private overlay.                                                        *)
(***************************************************************************)
EXTENDS Procedures, Integers, Sequences, FiniteSets

CONSTANTS
    ConformanceFloor,   \* CONFORMANCE_FLOOR, scaled down
    MaxBuilds,          \* portal builds into one directory
    MaxFileChanges      \* changes to the overlay's files during one resolution

ASSUME SurfacesAssumption == {ConformanceFloor, MaxBuilds, MaxFileChanges} \subseteq Nat
-----------------------------------------------------------------------------
(***************************************************************************)
(* adversarial.conformance_sequence.  The runner is the one of Execution;  *)
(* here a run may end in any way, a receipt where none may be included.    *)
(***************************************************************************)
HarnessCases ==
    [expected : {"rejected", "resource_limit", "timeout", "no_receipt"}, control : BOOLEAN,
     known : BOOLEAN]
RunEnds ==
    [status : {"completed", "failed", "timeout", "resource_limit"}, receipt : BOOLEAN,
     limit_reason : BOOLEAN]

\* What a run may leave behind: a child, whose command line names the child module,
\* and a helper that it started, whose command line does not.
Leftovers == {"child", "helper"}

\* Up to two cases.
CaseLists ==
    {<<>>} \cup {<<c>> : c \in HarnessCases} \cup {<<c, d>> : c, d \in HarnessCases}

HarnessInit ==
    /\ subject = "harness"
    /\ \E cases \in CaseLists, platform \in {"linux", "other"} :
           st = [cases |-> cases, platform |-> platform, i |-> 0, holds |-> TRUE, ran |-> {},
                 torn |-> FALSE, alive |-> {}, swept |-> FALSE, survivors |-> {}]

GoldenTurn == st.i % 2 = 0 \/ st.cases = <<>>

\* The golden half of conformance_sequence.
GoldenRun ==
    /\ subject = "harness" /\ st.i < ConformanceFloor /\ GoldenTurn
    /\ \E ok \in BOOLEAN, left \in SUBSET Leftovers :
           Step("harness", [st EXCEPT !.i = @ + 1, !.holds = @ /\ ok, !.alive = @ \cup left])

\* The case of turn i, cycling; Python's % takes the turn before the first to the
\* last case.
CaseOfTurn(i) == ((i \div 2 - 1) % Len(st.cases)) + 1

\* _outcome_matches_expected
OutcomeMatches(case, end) ==
    /\ end.status # "completed" => ~end.receipt
    /\ CASE case.expected = "rejected"       -> FALSE
         [] case.expected = "timeout"        -> end.status = "timeout" /\ ~end.receipt
         [] case.expected = "resource_limit" -> /\ end.status \in {"resource_limit", "timeout"}
                                                /\ end.limit_reason /\ ~end.receipt
         [] OTHER                            -> case.control \/ ~end.receipt

\* _run_rejected_case: only the registry is asked.
RejectedCase(c) ==
    Step("harness", [st EXCEPT !.i = @ + 1, !.ran = @ \cup {c},
                                !.holds = @ /\ ~st.cases[c].known])

\* _run_spawned_case
SpawnedCase(c) ==
    \E end \in RunEnds, left \in SUBSET Leftovers :
        Step("harness", [st EXCEPT !.i = @ + 1, !.ran = @ \cup {c}, !.alive = @ \cup left,
                            !.holds = @ /\ OutcomeMatches(st.cases[c], end),
                            !.torn = @ \/ (end.receipt /\ end.status # "completed")])

\* run_case, in the other half of conformance_sequence.
CaseRun ==
    /\ subject = "harness" /\ st.i < ConformanceFloor /\ ~GoldenTurn
    /\ LET c == CaseOfTurn(st.i)
       IN  IF st.cases[c].expected = "rejected" THEN RejectedCase(c) ELSE SpawnedCase(c)

\* _sweep_procfs finds every process whose command line has the marker; _sweep_ps
\* looks for it in the comm column, where it seldom is, and finds nothing when ps
\* fails.
SweepFinds(found) ==
    /\ found \subseteq st.alive \cap {"child"}
    /\ st.platform = "linux" => found = st.alive \cap {"child"}

\* orphan_sweep, after the last run.
OrphanSweep ==
    /\ subject = "harness" /\ st.i = ConformanceFloor /\ ~st.swept
    /\ \E found \in SUBSET Leftovers :
           /\ SweepFinds(found)
           /\ Step("harness", [st EXCEPT !.swept = TRUE, !.survivors = found])

\* A sequence that reports receipt-last and no survivor really had no run that
\* left a receipt without completing, whatever the cases expected, and on Linux left
\* no child; a survivor it reports is one; and every case ran when there are no more
\* than half as many as runs.  Of helpers, and off Linux of children, a clean report
\* says nothing (conformance_sequence, _outcome_matches_expected, orphan_sweep).
ConformanceIsHonest ==
    subject = "harness" /\ st.swept =>
        /\ st.holds /\ st.survivors = {} =>
               ~st.torn /\ (st.platform = "linux" => "child" \notin st.alive)
        /\ st.survivors \subseteq st.alive
        /\ Len(st.cases) <= ConformanceFloor \div 2 => st.ran = DOMAIN st.cases
-----------------------------------------------------------------------------
(***************************************************************************)
(* adversarial.credential_canary_check: the canary is in the parent's      *)
(* environment while the probe runs.                                       *)
(***************************************************************************)
CanaryInit ==
    /\ subject = "canary"
    /\ \E leaks \in BOOLEAN :
           st = [leaks |-> leaks, pc |-> "set", environ |-> FALSE, in_dict |-> FALSE,
                 booted |-> FALSE, saw |-> TRUE, raised |-> FALSE, passed |-> FALSE]

\* The canary is set; build_child_env must leave it out.
SetCanary ==
    /\ subject = "canary" /\ st.pc = "set"
    /\ Step("canary", [st EXCEPT !.pc = "run", !.environ = TRUE, !.in_dict = st.leaks])

\* What the probe's answer says; no answer counts as a leak.
ChildSaw(end, output) == end = "completed" /\ output => st.leaks

\* run_adapter("envprobe.v1", ...), which may raise; the finally clauses remove
\* the scratch directory and the canary.
RunCanaryProbe ==
    /\ subject = "canary" /\ st.pc = "run"
    /\ \E end \in {"completed", "failed", "raises"}, output \in BOOLEAN :
           Step("canary", [st EXCEPT !.pc = "done", !.environ = FALSE,
               !.raised = (end = "raises"), !.booted = (end = "completed"),
               !.saw = ChildSaw(end, output),
               !.passed = /\ end = "completed" /\ ~st.in_dict
                          /\ ~ChildSaw(end, output)])

\* The check passes only when a child really answered that it did not see the
\* canary, and the canary is out of the parent's environment however it ends
\* (credential_canary_check).
CanaryIsAnswered ==
    subject = "canary" =>
        /\ st.passed => st.booted /\ ~st.saw /\ ~st.leaks
        /\ st.pc = "done" => ~st.environ
-----------------------------------------------------------------------------
(***************************************************************************)
(* portal.build_portal, several times into one directory.  A page is       *)
(* written under a file name that several ids may share.                   *)
(***************************************************************************)
ObjectIds == {"a/1", "a_1", "b"}
\* _safe_filename
SafeFilename(id) == IF id \in {"a/1", "a_1"} THEN "obj_a_1" ELSE "obj_b"
PortalClasses == {"synthetic", "private", "leaky", "synthetic_leaky"}

PortalInit ==
    /\ subject = "portal"
    /\ \E corpus \in [ObjectIds -> PortalClasses] :
           st = [corpus |-> corpus, disk |-> {}, builds |-> 0, report |-> {}]

\* Wrong variant: what is marked synthetic is not searched.
LeaksUnlessSynthetic(id) == st.corpus[id] = "leaky"
\* _detect_leak and _is_public_synthetic
Leaks(id) == st.corpus[id] \in {"leaky", "synthetic_leaky"}
PublicSynthetic(id) == st.corpus[id] \in {"synthetic", "synthetic_leaky"}

\* The loop of build_portal.
AcceptedInPortal(mode, id) == mode = "private_local" \/ (PublicSynthetic(id) /\ ~Leaks(id))

\* The pages that gather what all accepted objects say.
GatheringPages == {"index", "lineage", "evidence", "resources", "interfaces"}

\* _render_site: a page per object and the gathering pages.  The order of the
\* accepted objects is that of their files, which says nothing of their ids; of two
\* with one file name the later page stays.
PagesOf(ids, later) ==
    {[file |-> SafeFilename(id), of |-> {id}] : id \in
        {i \in ids : later \in ids /\ SafeFilename(i) = SafeFilename(later) => i = later}}
    \cup {[file |-> f, of |-> ids] : f \in GatheringPages}

\* build_portal: nothing is rendered by a public build that met a leak, and
\* nothing is ever removed from the directory.
BuildPortal ==
    /\ subject = "portal" /\ st.builds < MaxBuilds
    /\ \E mode \in {"private_local", "public_demo"}, later \in {"a/1", "a_1"} :
       LET accepted == {id \in ObjectIds : AcceptedInPortal(mode, id)}
           leak == mode = "public_demo" /\ \E id \in ObjectIds : Leaks(id)
           pages == IF leak THEN {} ELSE PagesOf(accepted, later)
           files == {p.file : p \in pages}
       IN  Step("portal", [st EXCEPT !.builds = @ + 1,
               !.disk = {p \in @ : p.file \notin files} \cup pages,
               !.report = {[mode |-> mode, success |-> ~leak, pages |-> files,
                            accepted |-> accepted]}])

\* The corpus is edited between builds.
EditCorpus ==
    /\ subject = "portal" /\ st.builds < MaxBuilds
    /\ \E id \in ObjectIds, c \in PortalClasses :
           Step("portal", [st EXCEPT !.corpus[id] = c, !.report = {}])

\* Every page a public build reports is on disk and shows only objects that are
\* synthetic and free of leaks, even where an earlier private build wrote a page
\* under the same name; a build that met a leak reports failure and no page
\* (build_portal, _safe_filename).
PublicPagesAreClean ==
    subject = "portal" =>
        \A r \in st.report :
            /\ r.mode = "public_demo" =>
                   /\ \A f \in r.pages : \A p \in st.disk :
                          p.file = f => \A id \in p.of : st.corpus[id] = "synthetic"
                   /\ (\E id \in ObjectIds : st.corpus[id] \in {"leaky", "synthetic_leaky"}) =>
                          ~r.success /\ r.pages = {}
            /\ r.pages \subseteq {p.file : p \in st.disk}
            /\ r.success =>
                   {SafeFilename(id) : id \in r.accepted} \cup GatheringPages \subseteq r.pages
-----------------------------------------------------------------------------
(***************************************************************************)
(* overlay.resolve_overlay, with files that may change while it looks.     *)
(***************************************************************************)
OverlayFiles == {"absent", "object", "array", "not_json", "not_utf8"}

OverlayInit ==
    /\ subject = "overlay"
    /\ \E config, store \in {"unset", "blank", "set"}, file \in OverlayFiles, dir \in BOOLEAN :
           st = [vars |-> [config |-> config, store |-> store], file |-> file, dir |-> dir,
                 pc |-> "vars", saw |-> {}, error |-> "none", missing |-> {}, changes |-> 0]

\* _required_from_env, for both variables.
MissingVars == {v \in {"config", "store"} : st.vars[v] # "set"}

OverlayFail(e) == Step("overlay", [st EXCEPT !.pc = "done", !.error = e])

ReadVars ==
    /\ subject = "overlay" /\ st.pc = "vars"
    /\ IF MissingVars # {}
       THEN Step("overlay", [st EXCEPT !.pc = "done", !.error = "WAIT_ENVIRONMENT",
                                       !.missing = MissingVars])
       ELSE Step("overlay", [st EXCEPT !.pc = "paths"])

\* The store directory, then the config file, by name.
CheckPaths ==
    /\ subject = "overlay" /\ st.pc = "paths"
    /\ IF st.dir /\ st.file # "absent" THEN Step("overlay", [st EXCEPT !.pc = "read"])
       ELSE OverlayFail("CONTRACT_INVALID")

\* read_text: a file that is gone by now is refused; bytes that do not decode
\* raise something other than OverlayError.
ReadConfig ==
    /\ subject = "overlay" /\ st.pc = "read"
    /\ CASE st.file = "absent"   -> OverlayFail("CONTRACT_INVALID")
         [] st.file = "not_utf8" -> OverlayFail("UnicodeDecodeError")
         [] OTHER                -> Step("overlay", [st EXCEPT !.pc = "parse", !.saw = {st.file}])

ParseConfig ==
    /\ subject = "overlay" /\ st.pc = "parse"
    /\ IF st.saw = {"object"} THEN Step("overlay", [st EXCEPT !.pc = "resolved"])
       ELSE OverlayFail("CONTRACT_INVALID")

\* The operator replaces or removes a file meanwhile.
ChangeFile ==
    /\ subject = "overlay" /\ st.pc \in {"paths", "read", "parse"} /\ st.changes < MaxFileChanges
    /\ \E f \in OverlayFiles, d \in BOOLEAN :
           Step("overlay", [st EXCEPT !.file = f, !.dir = d, !.changes = @ + 1])

\* An overlay is resolved only from two variables that are set and a config that
\* was an object when it was read; a wait names every variable that is missing and
\* is never the answer to a bad file (resolve_overlay).
OverlayIsWhole ==
    subject = "overlay" =>
        /\ st.pc = "resolved" => st.saw = {"object"} /\ st.error = "none"
        /\ st.error = "WAIT_ENVIRONMENT" <=> \E v \in st.missing : TRUE
        /\ st.pc # "vars" => st.missing = {v \in DOMAIN st.vars : st.vars[v] # "set"}
-----------------------------------------------------------------------------
SurfacesInit == HarnessInit \/ CanaryInit \/ PortalInit \/ OverlayInit
SurfacesNext ==
    \/ GoldenRun \/ CaseRun \/ OrphanSweep
    \/ SetCanary \/ RunCanaryProbe
    \/ BuildPortal \/ EditCorpus
    \/ ReadVars \/ CheckPaths \/ ReadConfig \/ ParseConfig \/ ChangeFile

\* A harness verdict, a public page and a loaded overlay are what they claim.
SurfacesHonest ==
    /\ ConformanceIsHonest
    /\ CanaryIsAnswered
    /\ PublicPagesAreClean
    /\ OverlayIsWhole
=============================================================================
