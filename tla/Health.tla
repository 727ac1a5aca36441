------------------------------- MODULE Health -------------------------------
(***************************************************************************)
(* Liveness pulses and the federation status built from them, the bounded  *)
(* restore drill that copies artifacts into an empty store, and the        *)
(* disaster-recovery drill that injects faults into fresh stores under one *)
(* drill root.  A pulse is dated by its publisher's clock; the drills may  *)
(* be killed between any two steps and started again.                      *)
(***************************************************************************)
EXTENDS Procedures, Integers, Sequences, FiniteSets

CONSTANTS
    MaxTime,        \* last tick of the monitor's clock
    MaxSkew,        \* how far ahead of it a publisher's clock may run
    MaxAge,         \* max_age_seconds of the assessments
    RestoreIds,     \* artifact ids a restore drill may be asked for
    MaxDrills       \* drills started under one root

ASSUME HealthAssumption ==
    /\ MaxTime \in Nat /\ MaxSkew \in Nat /\ MaxAge \in Nat /\ MaxDrills \in Nat
    /\ IsFiniteSet(RestoreIds)
-----------------------------------------------------------------------------
(***************************************************************************)
(* Pulses.  st: the monitor's clock, the head it expects, the published    *)
(* pulse (at most one, the newest) with the true time it was made, and the *)
(* last assessment with its projection.                                    *)
(***************************************************************************)
PulseStatus == {"GREEN", "YELLOW", "RED"}
Heads == {"h1", "h2"}

PulseInit ==
    /\ subject = "pulse"
    /\ st = [now |-> 0, head |-> "h1", pulse |-> {}, cell |-> {}]

\* build_srf_pulse: the publisher stamps the pulse with its own clock.
PublishPulse(status, head, skew) ==
    Step("pulse", [st EXCEPT !.pulse = {[status |-> status, head |-> head, made |-> st.now,
                                        observed |-> st.now + skew]}])

\* Time passes and the expected head moves on, whoever publishes.
Tick     == st.now < MaxTime /\ Step("pulse", [st EXCEPT !.now = @ + 1])
MoveHead == st.head = "h1" /\ Step("pulse", [st EXCEPT !.head = "h2"])

\* assess_pulse: another head, or an age over the limit, is a wait; a pulse
\* dated in the future has a negative age and passes.
AssessPulse(p, head, now) ==
    IF p.head # head THEN [status |-> "WAIT", reason |-> "cross_head_pulse"]
    ELSE IF now - p.observed > MaxAge THEN [status |-> "WAIT", reason |-> "stale_pulse"]
    ELSE [status |-> p.status, reason |-> "fresh"]

\* project_cell: a waiting or red SRF cell projects WAIT_SRF, another cell its
\* own status.
ProjectCell(native, isSrf) == IF isSrf /\ native \in {"WAIT", "RED"} THEN "WAIT_SRF" ELSE native

\* The monitor assesses the newest pulse and enters the cell into the status.
AssessAndProject(isSrf) ==
    \E p \in st.pulse :
        LET a == AssessPulse(p, st.head, st.now)
        IN  Step("pulse", [st EXCEPT !.cell = {[srf |-> isSrf, of |-> p, head |-> st.head,
                                                at |-> st.now, native |-> a.status,
                                                projection |-> ProjectCell(a.status, isSrf)]}])

PulseNext ==
    \/ \E s \in PulseStatus, h \in Heads, k \in 0 .. MaxSkew : PublishPulse(s, h, k)
    \/ Tick \/ MoveHead
    \/ \E b \in BOOLEAN : AssessAndProject(b)
-----------------------------------------------------------------------------
(***************************************************************************)
(* The restore drill.  st: what the source holds of each id (intact,       *)
(* corrupt or absent), the target's objects, the ids asked for, the ids    *)
(* still to copy while a drill is under way, and the receipts issued.      *)
(***************************************************************************)
RestoreInit ==
    /\ subject = "restore"
    /\ \E source \in [RestoreIds -> {"intact", "corrupt", "absent"}] :
          st = [source |-> source, target |-> {}, asked |-> {}, todo |-> {}, busy |-> FALSE,
                drills |-> 0, receipts |-> {}]

\* The drill starts only on an empty target; the ids are deduplicated.
StartRestore(ids) ==
    /\ ~st.busy /\ st.drills < MaxDrills /\ ids # {} /\ st.target = {}
    /\ Step("restore", [st EXCEPT !.asked = ids, !.todo = ids, !.busy = TRUE,
                                  !.drills = @ + 1])

\* get, put, has: one artifact after the other, in the order the caller gave.
CopyArtifact(a) ==
    /\ st.busy /\ a \in st.todo /\ st.source[a] = "intact"
    /\ Step("restore", [st EXCEPT !.target = @ \cup {a}, !.todo = @ \ {a}])

\* A corrupt or missing source artifact raises; a kill does the same without a
\* word.  What was copied stays in the target.
RestoreFails(a) ==
    /\ st.busy /\ a \in st.todo /\ st.source[a] # "intact"
    /\ Step("restore", [st EXCEPT !.busy = FALSE, !.todo = {}])
RestoreKilled ==
    /\ st.busy
    /\ Step("restore", [st EXCEPT !.busy = FALSE, !.todo = {}])

FinishRestore ==
    /\ st.busy /\ st.todo = {}
    /\ Step("restore", [st EXCEPT !.busy = FALSE,
                                  !.receipts = @ \cup {[ids |-> st.asked, held |-> st.target]}])

\* The source's bytes may rot between drills and under one.
SourceRots(a) ==
    /\ st.source[a] = "intact"
    /\ Step("restore", [st EXCEPT !.source[a] = "corrupt"])

RestoreNext ==
    \/ \E ids \in SUBSET RestoreIds : StartRestore(ids)
    \/ RestoreKilled \/ FinishRestore
    \/ \E a \in RestoreIds : CopyArtifact(a) \/ RestoreFails(a) \/ SourceRots(a)
-----------------------------------------------------------------------------
(***************************************************************************)
(* The disaster-recovery drill.  Its steps run in this order under one     *)
(* drill root and leave their traces there: the restored chain refuses to  *)
(* be restored again, and the crashed request, once terminal, cannot be    *)
(* submitted again.                                                        *)
(***************************************************************************)
DRILL_STEPS == <<"unique_chain_restore", "rebuildable_from_locks", "executor_crash",
                 "corrupt_objects", "revoked_packs", "stale_keys", "lost_indexes">>

\* What each step asks of the part of the system it attacks.
RebuildableChecks   == {"lock_files_present"}
ExecutorCrashChecks == {"dispatch_interrupted", "one_recovered", "rerun_completed", "one_terminal"}
CorruptObjectChecks == {"get_rejects", "fsck_names_it"}
RevokedPackChecks   == {"governance_revokes"}
LostIndexChecks     == {"fsck_misses_descriptor", "object_readable"}

\* The stale and the cross-head pulse the drill makes up must both be waits.
StaleKeysCaught ==
    LET p(head, seen) == [status |-> "GREEN", head |-> head, observed |-> seen]
    IN  /\ AssessPulse(p("h1", 0), "h1", MaxAge + 1).status = "WAIT"
        /\ AssessPulse(p("h2", MaxAge + 1), "h1", MaxAge + 1).status = "WAIT"

Answers == RebuildableChecks \cup ExecutorCrashChecks \cup CorruptObjectChecks
              \cup RevokedPackChecks \cup LostIndexChecks

CheckPasses(step, answers) ==
    CASE step = "unique_chain_restore"   -> TRUE
      [] step = "rebuildable_from_locks" -> RebuildableChecks \subseteq answers
      [] step = "executor_crash"         -> ExecutorCrashChecks \subseteq answers
      [] step = "corrupt_objects"        -> CorruptObjectChecks \subseteq answers
      [] step = "revoked_packs"          -> RevokedPackChecks \subseteq answers
      [] step = "stale_keys"             -> StaleKeysCaught
      [] step = "lost_indexes"           -> LostIndexChecks \subseteq answers

DrillInit ==
    /\ subject = "drill"
    /\ \E x, y \in Answers \cup {"none"} :
          st = [answers |-> Answers \ {x, y}, restored |-> FALSE, crashRun |-> "none", at |-> 0,
                checks |-> <<>>, drills |-> 0, receipts |-> <<>>]

StartDrill ==
    /\ st.at = 0 /\ st.drills < MaxDrills
    /\ Step("drill", [st EXCEPT !.at = 1, !.checks = <<>>, !.drills = @ + 1])

\* A step that finds its own traces raises and ends the drill without a receipt.
Traces(step) ==
    \/ step = "unique_chain_restore" /\ st.restored
    \/ step = "executor_crash" /\ st.crashRun # "none"

DrillStep ==
    /\ st.at \in 1 .. Len(DRILL_STEPS) /\ ~Traces(DRILL_STEPS[st.at])
    /\ LET s == DRILL_STEPS[st.at]
           ok == CheckPasses(s, st.answers)
       IN  Step("drill",
                [st EXCEPT !.at = @ + 1, !.checks = Append(@, IF ok THEN "PASS" ELSE "FAIL"),
                           !.restored = @ \/ s = "unique_chain_restore",
                           !.crashRun = IF s # "executor_crash" THEN @
                                        ELSE IF ok THEN "terminal" ELSE "queued"])

DrillRefused ==
    /\ st.at \in 1 .. Len(DRILL_STEPS) /\ Traces(DRILL_STEPS[st.at])
    /\ Step("drill", [st EXCEPT !.at = 0])

\* Killed between two steps, or inside one that has begun to write.
DrillKilled(begun) ==
    /\ st.at > 0
    /\ LET inside(s) == begun /\ st.at <= Len(DRILL_STEPS) /\ DRILL_STEPS[st.at] = s
       IN  Step("drill", [st EXCEPT !.at = 0, !.restored = @ \/ inside("unique_chain_restore"),
                                    !.crashRun = IF inside("executor_crash") THEN "queued" ELSE @])

\* Wrong variant: the last check decides.
DrillResultLast(checks) == checks[Len(checks)]
DrillResult(checks) == IF \A i \in DOMAIN checks : checks[i] = "PASS" THEN "PASS" ELSE "FAIL"

\* run_a21_disaster_recovery_drill's receipt.  The physical target check always
\* passes and the terminal state is the wait for the target.
FinishDrill ==
    /\ st.at = Len(DRILL_STEPS) + 1
    /\ Step("drill", [st EXCEPT !.at = 0, !.receipts =
                         Append(@, [result |-> DrillResult(st.checks), drill |-> st.drills])])

DrillNext ==
    \/ StartDrill \/ DrillStep \/ DrillRefused \/ FinishDrill
    \/ \E b \in BOOLEAN : DrillKilled(b)
-----------------------------------------------------------------------------
HealthInit == PulseInit \/ RestoreInit \/ DrillInit
HealthNext ==
    \/ subject = "pulse" /\ PulseNext
    \/ subject = "restore" /\ RestoreNext
    \/ subject = "drill" /\ DrillNext
-----------------------------------------------------------------------------
\* A cell of the federation status that shows a working SRF rests on a pulse of
\* the expected head no older than the limit plus the publisher's clock error:
\* a publisher that stopped, or another head's pulse, cannot keep a cell green.
LitCellIsRecent ==
    subject = "pulse" =>
        \A c \in st.cell :
            c.projection \in {"GREEN", "YELLOW"} =>
                c.of.head = c.head /\ c.at - c.of.made <= MaxAge + MaxSkew

\* A restore receipt is issued only when the target holds exactly the artifacts
\* the drill was asked for: nothing of an earlier, killed or failed drill is
\* counted as restored by this one.
ReceiptIsThisRestore ==
    subject = "restore" => \A r \in st.receipts : r.held = r.ids

\* One drill root gives at most one receipt, and it says PASS only if every
\* fault the drill injected was answered as it must be: a drill that was
\* killed, or one run twice, cannot pass on the traces of another.
DrillPassIsComplete ==
    subject = "drill" =>
        /\ Len(st.receipts) <= 1
        /\ \A i \in DOMAIN st.receipts :
              st.receipts[i].result = "PASS" => st.answers = Answers

\* A good report of the laboratory's health rests on what was there to see.
HealthWitnessed ==
    /\ LitCellIsRecent
    /\ ReceiptIsThisRestore
    /\ DrillPassIsComplete
=============================================================================
