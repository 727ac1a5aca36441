------------------------------ MODULE Autonomy ------------------------------
(***************************************************************************)
(* What keeps autonomous work inside its bounds: the resume rules that     *)
(* decide, from what is observed of a work package, how to go on after an  *)
(* interruption; the write-scope check; the policy validator; and the leak *)
(* guard over a diff.                                                      *)
(***************************************************************************)
EXTENDS Procedures, Integers, Sequences, FiniteSets

CONSTANTS
    MaxPathParts,   \* parts of a written or owned path
    MaxWpSteps      \* events of a work package before it is resumed

ASSUME AutonomyAssumption == MaxPathParts \in Nat /\ MaxWpSteps \in Nat
-----------------------------------------------------------------------------
(***************************************************************************)
(* Resuming a work package.  st.wp is its true state, changed by the work  *)
(* and by others; st.observed is the snapshot a resuming agent took, whose *)
(* fields may be missing; st.decision the answer.                          *)
(***************************************************************************)
Wps == [outputs : {"none", "recorded", "verified", "drifted"}, commit : BOOLEAN,
        pr : {"none", "open", "merged"}, checks : {"unknown", "passed", "failed"},
        changed : BOOLEAN, external : BOOLEAN, dirty : BOOLEAN]

ResumeInit ==
    /\ subject = "resume"
    /\ st = [wp |-> [outputs |-> "none", commit |-> FALSE, pr |-> "none", checks |-> "unknown",
                     changed |-> FALSE, external |-> FALSE, dirty |-> FALSE],
             steps |-> 0, observed |-> {}, decision |-> {}]

\* The work goes on, is interrupted anywhere, and others interfere.
Becomes(wp, new) ==
    \/ new = [wp EXCEPT !.outputs = "recorded", !.dirty = TRUE]
    \/ wp.outputs # "none" /\ \E o \in {"verified", "drifted"} : new = [wp EXCEPT !.outputs = o]
    \/ wp.outputs # "none" /\ new = [wp EXCEPT !.commit = TRUE, !.dirty = FALSE,
                                               !.checks = "unknown"]
    \/ wp.commit /\ wp.pr = "none" /\ new = [wp EXCEPT !.pr = "open"]
    \/ wp.commit /\ \E c \in {"passed", "failed"} : new = [wp EXCEPT !.checks = c]
    \/ wp.pr = "open" /\ new = [wp EXCEPT !.pr = "merged"]
    \/ new = [wp EXCEPT !.changed = TRUE]
    \/ new = [wp EXCEPT !.external = TRUE]

WpEvent ==
    /\ st.steps < MaxWpSteps
    /\ \E new \in Wps : /\ Becomes(st.wp, new)
                        /\ Step("resume", [st EXCEPT !.wp = new, !.steps = @ + 1])

\* _parse_observed: a field that is not reported reads as absent or false,
\* except the checks, which read as passed.
ParseObserved(wp, reported) ==
    [verified |-> "outputs" \in reported /\ wp.outputs = "verified",
     commit   |-> "commit" \in reported /\ wp.commit,
     pr       |-> IF "pr" \in reported THEN wp.pr ELSE "none",
     changed  |-> "changed" \in reported /\ wp.changed,
     external |-> "external" \in reported /\ wp.external,
     checks   |-> ~("checks" \in reported /\ wp.checks = "failed"),
     dirty    |-> "dirty" \in reported /\ wp.dirty]

\* What the observer reports: everything, or everything but one field.
Observe(reported) ==
    Step("resume", [st EXCEPT !.observed = {ParseObserved(st.wp, reported)}])

OBSERVED_FIELDS == {"outputs", "commit", "pr", "changed", "external", "checks", "dirty"}

\* Each rule's predicate and decision, in the order they are tried.
RESUME_RULES == <<"external", "dirty", "inputs_changed", "outputs_verified",
                  "merged_checks_failing", "merged_checks_passing", "commit_checks_failing",
                  "commit_checks_passing", "pr_open">>

RuleHolds(rule, o) ==
    CASE rule = "external"              -> o.external
      [] rule = "dirty"                 -> o.dirty
      [] rule = "inputs_changed"        -> o.changed
      [] rule = "outputs_verified"      -> o.verified
      [] rule = "merged_checks_failing" -> o.pr = "merged" /\ ~o.checks
      [] rule = "merged_checks_passing" -> o.pr = "merged" /\ o.checks
      [] rule = "commit_checks_failing" -> o.commit /\ ~o.checks
      [] rule = "commit_checks_passing" -> o.commit /\ o.checks
      [] rule = "pr_open"               -> o.pr = "open"

RuleDecision ==
    [external |-> "STOP_EXTERNAL", dirty |-> "STOP_DRIFT", inputs_changed |-> "RERUN",
     outputs_verified |-> "NOOP_VERIFIED", merged_checks_failing |-> "STOP_DRIFT",
     merged_checks_passing |-> "RECONCILE_MERGED", commit_checks_failing |-> "UPDATE_PR",
     commit_checks_passing |-> "REUSE_COMMIT", pr_open |-> "UPDATE_PR"]

Holding(o) == {i \in DOMAIN RESUME_RULES : RuleHolds(RESUME_RULES[i], o)}

\* Wrong variant: the last rule that holds decides.
ReconcileLastRule(o) ==
    IF Holding(o) = {} THEN "RERUN"
    ELSE RuleDecision[RESUME_RULES[CHOOSE i \in Holding(o) : \A j \in Holding(o) : j <= i]]

\* reconcile: the first rule that holds decides; none is a rerun.
Reconcile(o) ==
    IF Holding(o) = {} THEN "RERUN"
    ELSE RuleDecision[RESUME_RULES[CHOOSE i \in Holding(o) : \A j \in Holding(o) : i <= j]]

PermitsMerge(decision) == decision = "RECONCILE_MERGED"

\* The decision is taken on the snapshot, whatever happened since.
Decide ==
    \E o \in st.observed :
        Step("resume", [st EXCEPT !.decision = {[on |-> o, is |-> Reconcile(o)]}])

ResumeNext ==
    \/ WpEvent \/ Decide
    \/ \E f \in OBSERVED_FIELDS \cup {"none"} : Observe(OBSERVED_FIELDS \ {f})
-----------------------------------------------------------------------------
(***************************************************************************)
(* The write scope.  A path is its form and its parts.                     *)
(***************************************************************************)
Parts == UNION {[1 .. n -> {"a", "b", ".", ".."}] : n \in 0 .. MaxPathParts}
Paths == [form : {"relative", "absolute", "backslash"}, parts : Parts]

\* _normalize: what it refuses, and the path with its "." parts removed.
NormalizeRefuses(p) ==
    p.parts = <<>> \/ p.form # "relative" \/ \E i \in DOMAIN p.parts : p.parts[i] = ".."
KeepPart(kept, part) == IF part = "." THEN kept ELSE Append(kept, part)
Normalized(p) ==
    LET kept[i \in 0 .. Len(p.parts)] == IF i = 0 THEN <<>> ELSE KeepPart(kept[i - 1], p.parts[i])
    IN  kept[Len(p.parts)]

\* _is_within: the anchor itself or a longer path that begins with its parts.
IsWithin(candidate, anchor) ==
    Len(candidate) >= Len(anchor) /\ SubSeq(candidate, 1, Len(anchor)) = anchor

CheckWrite(path, owned) ==
    IF (\E o \in owned : NormalizeRefuses(o)) \/ NormalizeRefuses(path) THEN "ScopeViolation"
    ELSE IF \E o \in owned : IsWithin(Normalized(path), Normalized(o)) THEN "ok"
    ELSE "ScopeViolation"

ScopeInit ==
    /\ subject = "scope"
    /\ \E p \in Paths, o \in [form : {"relative"}, parts : Parts] :
          st = [path |-> p, owned |-> {o}, answer |-> {}]
CheckScope == Step("scope", [st EXCEPT !.answer = {CheckWrite(st.path, st.owned)}])

\* Where a relative path leads from the repository's root, part by part: "." stays,
\* ".." goes up, and going up from the root leaves it.
Onward(here, part) ==
    CASE here = <<"outside">> -> here
      [] part = "." -> here
      [] part = ".." -> IF here = <<>> THEN <<"outside">> ELSE SubSeq(here, 1, Len(here) - 1)
      [] OTHER -> Append(here, part)
LeadsTo(parts) ==
    LET to[i \in 0 .. Len(parts)] == IF i = 0 THEN <<>> ELSE Onward(to[i - 1], parts[i])
    IN  to[Len(parts)]
-----------------------------------------------------------------------------
(***************************************************************************)
(* The policy.  A value is its JSON type and its token.                    *)
(***************************************************************************)
DENIED == {"canonical_runtime_mutation", "deployment_allowed", "external_pr_auto_merge",
           "secret_use_in_public_ci", "self_hosted_runner_allowed", "t7_execution_allowed",
           "vps_expansion_allowed"}
FREE   == {"auto_commit", "auto_merge_owned_pr", "auto_open_pr", "auto_push", "auto_repair_ci",
           "public_repo"}

\* _EXPECTED: type and allowed tokens of every key.
Expected(key) ==
    CASE key \in DENIED -> [type |-> "bool", allowed |-> {"false"}]
      [] key \in FREE -> [type |-> "bool", allowed |-> {"true", "false"}]
      [] key = "decision_policy" -> [type |-> "str", allowed |-> {"MATURE_ENGINEERING_V1"}]
      [] key = "max_parallel_implementation_lanes" ->
            [type |-> "int", allowed |-> {"4", "5", "6", "7", "8"}]
      [] key = "max_scientific_execution_wip" -> [type |-> "int", allowed |-> {"1"}]
      [] key = "merge_method" -> [type |-> "str", allowed |-> {"squash"}]
      [] key = "mode" -> [type |-> "str", allowed |-> {"noninteractive_within_scope"}]
      [] key = "schema_version" -> [type |-> "str", allowed |-> {"v1", "v2", "v3"}]

POLICY_KEYS == DENIED \cup FREE \cup
    {"decision_policy", "max_parallel_implementation_lanes", "max_scientific_execution_wip",
     "merge_method", "mode", "schema_version"}

KeyVerdict(policy, key) ==
    policy[key].type = Expected(key).type /\ policy[key].token \in Expected(key).allowed

\* _validate_policy_dict: exactly the keys, each of its type and allowed value;
\* a v1 policy has four lanes.
AutonomyVerdict(policy) ==
    IF /\ DOMAIN policy = POLICY_KEYS
       /\ \A k \in POLICY_KEYS : KeyVerdict(policy, k)
       /\ (policy["schema_version"].token = "v1" =>
              policy["max_parallel_implementation_lanes"].token = "4")
    THEN "ok" ELSE "PolicyError"

SomeToken(key) == CHOOSE t \in Expected(key).allowed : TRUE
GoodPolicy(version, lanes) ==
    [k \in POLICY_KEYS |->
        [type |-> Expected(k).type,
         token |-> IF k = "schema_version" THEN version
                   ELSE IF k = "max_parallel_implementation_lanes" THEN lanes
                   ELSE SomeToken(k)]]

\* Policies a file may hold: a good one with one value, or its type, replaced, a
\* key dropped, or a key added.
Values == [type : {"bool", "int", "str"}, token : {"true", "false", "1", "5"}]
Without(p, d) == [k \in POLICY_KEYS \ {d} |-> p[k]]
WithOther(p) == [k \in POLICY_KEYS \cup {"other"} |->
                    IF k = "other" THEN [type |-> "bool", token |-> "true"] ELSE p[k]]
Variants(p) ==
    {p, WithOther(p)} \cup {Without(p, d) : d \in POLICY_KEYS}
        \cup UNION {{[p EXCEPT ![k] = v] : v \in Values} : k \in POLICY_KEYS}

PolicyInit ==
    /\ subject = "policy"
    /\ \E v \in {"v1", "v2", "v3"}, l \in {"4", "5", "8"} :
          \E p \in Variants(GoodPolicy(v, l)) : st = [policy |-> p, answer |-> {}]
LoadPolicy == Step("policy", [st EXCEPT !.answer = {AutonomyVerdict(st.policy)}])
-----------------------------------------------------------------------------
(***************************************************************************)
(* The leak guard.  A line is its length and the matched spans in it; the  *)
(* shortest secret a pattern matches is a bare private-key header.         *)
(***************************************************************************)
SNIPPET_CONTEXT_CHARS == 12
SNIPPET_KEEP_CHARS    == 4
SECRET_MIN_LEN        == 17   \* BEGIN PRIVATE KEY; the token patterns match 19 or more

\* _sanitize_snippet: the positions of the line that a finding's excerpt shows,
\* before its overall cap.
SnippetShows(line, s) ==
    {i \in 1 .. line.len :
        \/ i \in s.from - SNIPPET_CONTEXT_CHARS .. s.from - 1
        \/ i \in s.from .. s.from + SNIPPET_KEEP_CHARS - 1 /\ i <= s.to
        \/ i \in s.to + 1 .. s.to + SNIPPET_CONTEXT_CHARS}

\* A line with two matches, a gap apart; paths are short, secrets are not.
Line(o, a, g, b, t) ==
    [len |-> o + a + g + b + t,
     spans |-> {[from |-> o + 1, to |-> o + a], [from |-> o + a + g + 1, to |-> o + a + g + b]}]

LeakInit ==
    /\ subject = "leak"
    /\ \E o \in {0, 3}, a \in {7, 17, 20, 64}, g \in {0, 1, 5}, b \in {7, 17, 20}, t \in {0, 2} :
          \E d \in BOOLEAN : st = [line |-> Line(o, a, g, b, t), decodable |-> d, findings |-> {}]

\* scan_bytes, scan_diff: one finding per match of every pattern on every line;
\* bytes that are not text are a finding of their own.
ScanDiff ==
    Step("leak", [st EXCEPT !.findings =
        IF st.decodable
        THEN {[reason |-> "PUBLIC_LEAK_DETECTED", shows |-> SnippetShows(st.line, s)] :
                 s \in st.line.spans}
        ELSE {[reason |-> "SECRET_SCAN_FAILED", shows |-> {}]}])
-----------------------------------------------------------------------------
AutonomyInit == ResumeInit \/ ScopeInit \/ PolicyInit \/ LeakInit
AutonomyNext ==
    \/ subject = "resume" /\ ResumeNext
    \/ subject = "scope" /\ CheckScope
    \/ subject = "policy" /\ LoadPolicy
    \/ subject = "leak" /\ ScanDiff
-----------------------------------------------------------------------------
\* A resumed agent never builds on, and never merges, what the snapshot showed
\* to be foreign, dirty, outdated or failing: whatever else was observed, a
\* foreign commit or a dirty tree stops it, changed inputs rerun the work, and
\* failing checks neither reuse a commit nor permit a merge.
ResumeNeverBuildsOnDrift ==
    subject = "resume" =>
        \A d \in st.decision :
            /\ (d.on.external => d.is = "STOP_EXTERNAL")
            /\ (d.on.dirty /\ ~d.on.external => d.is = "STOP_DRIFT")
            /\ (d.on.changed => d.is \in {"STOP_EXTERNAL", "STOP_DRIFT", "RERUN"})
            /\ (~d.on.checks => d.is # "REUSE_COMMIT" /\ ~PermitsMerge(d.is))

\* An accepted write leads to a place inside an owned directory, however the
\* path is spelled: no ".." leaves it, and a sibling that shares the directory's
\* name as a prefix is not inside.
WriteStaysInScope ==
    subject = "scope" =>
        (st.answer = {"ok"} =>
            /\ st.path.form = "relative"
            /\ \E o \in st.owned :
                  /\ LeadsTo(st.path.parts) # <<"outside">>
                  /\ IsWithin(LeadsTo(st.path.parts), LeadsTo(o.parts)))

\* A policy the loader accepts switches every protected power off with the JSON
\* boolean false, has no power the validator does not know, and at most eight
\* lanes: four under v1.  Versions 2 and 3 have one range in the code, 4 to 8,
\* where the comment on the versions gives v2 the range 4 to 6; the narrower
\* one is not enforced and not claimed here (_validate_policy_dict).
PolicyGrantsNothing ==
    subject = "policy" =>
        (st.answer = {"ok"} =>
            /\ DOMAIN st.policy = POLICY_KEYS
            /\ \A k \in DENIED : st.policy[k] = [type |-> "bool", token |-> "false"]
            /\ st.policy["max_parallel_implementation_lanes"] \in
                  [type : {"int"}, token : IF st.policy["schema_version"].token = "v1" THEN {"4"}
                                           ELSE {"4", "5", "6", "7", "8"}])

\* No finding's excerpt shows a whole secret of the line, its own or a
\* neighbour's: the context on either side is shorter than the shortest secret.
SecretNeverWhole ==
    subject = "leak" =>
        \A f \in st.findings, s \in st.line.spans :
            s.to - s.from + 1 >= SECRET_MIN_LEN => ~(s.from .. s.to \subseteq f.shows)

\* An agent goes on, writes and shows no more than it was granted.
AgentWithinGrant ==
    /\ ResumeNeverBuildsOnDrift
    /\ WriteStaysInScope
    /\ PolicyGrantsNothing
    /\ SecretNeverWhole
=============================================================================
