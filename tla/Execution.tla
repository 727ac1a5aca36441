------------------------------ MODULE Execution ------------------------------
(***************************************************************************)
(* One bounded run, from the policy decision to the sealed run receipt:    *)
(* execution/policy, estimate and platform_probe decide whether it may     *)
(* start; materialize stages its inputs out of the artifact store; runner  *)
(* and sandbox spawn the child in a process group of its own, drain its    *)
(* output through a capped reader, kill the group when the wall time is    *)
(* over and classify what they saw; sealer publishes the evidence and      *)
(* writes the run receipt last.  The adversarial harness runs the same     *)
(* code and judges the outcome.                                            *)
(*                                                                         *)
(* Five actors interleave: the supervisor (the process that called the     *)
(* runner), the leader of the child's group, a helper the leader forked,   *)
(* the reader thread, and the disk under the store.  The supervisor may be *)
(* killed between any two of its steps.                                    *)
(***************************************************************************)
EXTENDS Naturals, FiniteSets

CONSTANTS
    Inputs,       \* digests the run specification names
    PolicyDocs,   \* resource policy documents that may be on disk
    MaxAmount,    \* estimates range over 0..MaxAmount in every resource
    Cap,          \* output_cap_bytes of one stream, in chunks of the reader
    PipeCap,      \* what the pipe holds before a writer blocks
    MaxWrites,    \* bound: chunks the child ever writes
    Platform,     \* "linux" (reads /proc) or "ps" (runs ps)
    MaxRuns,      \* bound: runs started
    MaxCrashes    \* bound: kills of the supervisor

Resource == {"cpu", "rss", "scratch", "wall"}

\* A document with a negative amount, or one that is no number, does not parse
\* and is none of PolicyDocs.
ASSUME ExecutionAssumption ==
    /\ IsFiniteSet(Inputs)
    /\ PolicyDocs # {}
    /\ \A doc \in PolicyDocs : doc.default \in [Resource -> Nat]
                              /\ doc.exception \in [Resource -> Nat]
    /\ MaxAmount \in Nat /\ Cap \in Nat /\ PipeCap \in Nat \ {0}
    /\ MaxWrites \in Nat /\ MaxRuns \in Nat /\ MaxCrashes \in Nat
    /\ Platform \in {"linux", "ps"}

VARIABLES
    pc,         \* where the supervisor is
    policy,     \* the loaded policy
    run,        \* number, adapter, validator of the run at hand, and the
                \* environment gate its child inherited
    gate,       \* SRL_RUNNER_TEST_ADAPTERS is "1" in the supervisor
    store,      \* state of every input object in the artifact store
    todo,       \* inputs still to be staged
    staged,     \* inputs in the staging directory
    group,      \* live members of the child's process group
    rc,         \* how the leader ended
    outFile,    \* the file the child writes its result to
    bulky,      \* the scratch tree holds more than its cap
    detached,   \* the helper closed the output stream it inherited
    wrote,      \* chunks the group wrote to its output stream
    pipe,       \* chunks in the pipe
    reader,     \* the capped reader: chunks kept, truncated, still reading
    timedOut,   \* the wall time was over before the leader ended
    outcome,    \* the RunOutcome, with what was alive when it was made
    published,  \* objects the sealer put into the store
    receipts,   \* run receipts in the receipt directory
    judged,     \* the harness's verdict on the outcome
    crashes

vars == <<pc, policy, run, gate, store, todo, staged, group, rc, outFile, bulky,
          detached, wrote, pipe, reader, timedOut, outcome, published, receipts, judged,
          crashes>>
child == <<group, rc, outFile, bulky, detached, wrote, pipe, reader>>
disk  == <<store, todo, staged>>
proofs == <<published, receipts>>

Statuses == {"completed", "failed", "timeout", "resource_limit", "policy_violation"}
NoOutcome == [status |-> "none", output |-> FALSE, receipt |-> FALSE, alive |-> {},
              clean |-> FALSE]
FreshReader == [kept |-> 0, truncated |-> FALSE, on |-> TRUE]
-----------------------------------------------------------------------------
(***************************************************************************)
(* The policy decision.                                                    *)
(***************************************************************************)

\* The absolute caps of the exception envelope: every resource but scratch,
\* which the exception may not widen beyond the default at all.
ExceptionCap == [cpu |-> 2, rss |-> 2, wall |-> 3]

Within(estimate, envelope) == \A r \in Resource : estimate[r] <= envelope[r]

\* A policy document is loaded when its safety constants are zero and its
\* exception envelope stays below the absolute caps.
ValidPolicy(doc) ==
    /\ doc.canonical_writes = 0
    /\ ~doc.grants_authority
    /\ \A r \in DOMAIN ExceptionCap : doc.exception[r] <= ExceptionCap[r]
    /\ doc.exception["scratch"] <= doc.default["scratch"]

Admit(estimate, p, use_exception) ==
    IF Within(estimate, p.default) THEN "ADMITTED_DEFAULT"
    ELSE IF use_exception /\ Within(estimate, p.exception) THEN "ADMITTED_EXCEPTION"
    ELSE "WAIT_REMOTE_EXECUTOR"

\* preflight: the observed free disk against the floor of the policy.
DiskFloorMet(free, p) == free >= p.required_free_disk

LoadPolicy(doc) ==
    /\ pc = "boot"
    /\ pc' = IF ValidPolicy(doc) THEN "idle" ELSE "refused"
    /\ policy' = IF ValidPolicy(doc) THEN doc ELSE policy
    /\ UNCHANGED <<run, gate, disk, child, timedOut, outcome, proofs, judged, crashes>>

\* An estimate beyond the default envelope in a resource where no policy may
\* let it: scratch, or any other beyond its absolute cap.
Widened(estimate, p) ==
    \E r \in Resource : /\ estimate[r] > p.default[r]
                       /\ (r = "scratch" \/ estimate[r] > ExceptionCap[r])

\* The supervisor takes a run up, or parks it.
AdmitRun(estimate, use_exception, free, adapter, validator) ==
    /\ pc = "idle" /\ run.number < MaxRuns
    /\ pc' = IF /\ Admit(estimate, policy, use_exception) # "WAIT_REMOTE_EXECUTOR"
                /\ DiskFloorMet(free, policy)
             THEN "admitted" ELSE "wait"
    /\ run' = [number |-> run.number + 1, adapter |-> adapter,
               validator |-> validator, childGate |-> FALSE,
               widened |-> pc' = "admitted" /\ Widened(estimate, policy)]
    /\ outcome' = NoOutcome /\ judged' = "none"
    /\ UNCHANGED <<policy, gate, disk, child, timedOut, proofs, crashes>>
-----------------------------------------------------------------------------
(***************************************************************************)
(* Materialisation: every input is resolved, staged read-only and read     *)
(* back; one failure removes the whole staging directory.                  *)
(***************************************************************************)

BeginStaging ==
    /\ pc = "admitted"
    /\ pc' = "staging" /\ todo' = Inputs /\ staged' = {}
    /\ UNCHANGED <<policy, run, gate, store, child, timedOut, outcome, proofs,
                   judged, crashes>>

\* has, then get (which hashes what it reads), then the copy is hashed again:
\* an object that is absent or no longer its digest ends the materialisation.
StageInput(d) ==
    /\ pc = "staging" /\ d \in todo
    /\ IF store[d] = "ok"
       THEN /\ staged' = staged \cup {<<d, "ok">>} /\ todo' = todo \ {d}
            /\ pc' = pc
       ELSE /\ staged' = {} /\ todo' = {} /\ pc' = "aborted"
    /\ UNCHANGED <<policy, run, gate, store, child, timedOut, outcome, proofs,
                   judged, crashes>>

FinishStaging ==
    /\ pc = "staging" /\ todo = {}
    /\ pc' = "ready"
    /\ UNCHANGED <<policy, run, gate, disk, child, timedOut, outcome, proofs,
                   judged, crashes>>

\* External: a byte of a stored input goes bad.
Rot(d) ==
    /\ store[d] = "ok"
    /\ store' = [store EXCEPT ![d] = "rotten"]
    /\ UNCHANGED <<pc, policy, run, gate, todo, staged, child, timedOut, outcome,
                   proofs, judged, crashes>>
-----------------------------------------------------------------------------
(***************************************************************************)
(* The child's process group.                                              *)
(***************************************************************************)

\* The static allowlist, and the test adapters where the gate is set.
Registry(g) == {"echo.v1"} \cup (IF g THEN {"sleeper.v1"} ELSE {})

ChildGate(g) == g

\* get_adapter, the wall and scratch checks, the input file, the limits, the
\* spawn: a limit that cannot be set means that no child ran.
Spawn(limitsSet) ==
    /\ pc = "ready"
    /\ IF run.adapter \notin Registry(gate) \/ policy.default["wall"] = 0
                                            \/ policy.default["scratch"] = 0
       THEN /\ pc' = "aborted"
            /\ UNCHANGED <<run, child, outcome>>
       ELSE IF ~limitsSet
       THEN /\ pc' = "classified"
            /\ outcome' = [NoOutcome EXCEPT !.status = "resource_limit"]
            /\ UNCHANGED <<run, child>>
       ELSE /\ pc' = "waiting"
            /\ run' = [run EXCEPT !.childGate = ChildGate(gate)]
            /\ group' = {"leader"} /\ rc' = "none" /\ outFile' = "none"
            /\ bulky' = FALSE /\ detached' = FALSE /\ wrote' = 0 /\ pipe' = 0 /\ reader' = FreshReader
            /\ UNCHANGED outcome
    /\ timedOut' = FALSE
    /\ UNCHANGED <<policy, gate, disk, proofs, judged, crashes>>

\* The group is followed until the outcome is made or its supervisor is
\* killed; what a survivor does later changes nothing that is modelled here.
ChildGone ==
    /\ group' = {} /\ rc' = "none" /\ outFile' = "none" /\ bulky' = FALSE
    /\ detached' = FALSE /\ wrote' = 0 /\ pipe' = 0 /\ reader' = FreshReader /\ timedOut' = FALSE

supervisor == <<pc, policy, run, gate, disk, timedOut, outcome, proofs, judged, crashes>>

Watched == pc \in {"waiting", "polling", "grace", "joining", "drained"}

\* The live members that hold the writing end of the stream.
Holders == group \ (IF detached THEN {"helper"} ELSE {})

\* A member of the group fills one chunk of the stream it inherited.
GroupWrites ==
    /\ Holders # {} /\ wrote < MaxWrites /\ pipe < PipeCap
    /\ Watched /\ pc # "drained"
    /\ wrote' = wrote + 1 /\ pipe' = pipe + 1
    /\ UNCHANGED <<supervisor, group, rc, outFile, bulky, detached, reader>>

\* The child forks, fills its scratch, and writes its result.
LeaderForks ==
    /\ Watched /\ "leader" \in group /\ "helper" \notin group
    /\ group' = group \cup {"helper"} /\ detached' = FALSE
    /\ UNCHANGED <<supervisor, rc, outFile, bulky, wrote, pipe, reader>>

\* A helper that redirects its output, as a daemon does, lets go of the stream.
HelperDetaches ==
    /\ Watched /\ "helper" \in Holders
    /\ detached' = TRUE
    /\ UNCHANGED <<supervisor, group, rc, outFile, bulky, wrote, pipe, reader>>

LeaderFills ==
    /\ Watched /\ "leader" \in group /\ ~bulky
    /\ bulky' = TRUE
    /\ UNCHANGED <<supervisor, group, rc, outFile, detached, wrote, pipe, reader>>

\* run_handler checks the adapter, the input and the output against their
\* schemas; a write cut short by the file size limit leaves half a file.
LeaderWrites(result) ==
    /\ Watched /\ "leader" \in group /\ outFile = "none"
    /\ run.adapter \in Registry(run.childGate)
    /\ outFile' = result
    /\ UNCHANGED <<supervisor, group, rc, bulky, detached, wrote, pipe, reader>>

\* Exit 0, exit 2 on a contract or handler failure, or killed by a limit.  What
\* the child says of its result is not relied on: a handler may end the process.
LeaderExits(how) ==
    /\ Watched /\ "leader" \in group
    /\ group' = group \ {"leader"} /\ rc' = how
    /\ UNCHANGED <<supervisor, outFile, bulky, detached, wrote, pipe, reader>>

HelperExits ==
    /\ Watched /\ "helper" \in group
    /\ group' = group \ {"helper"}
    /\ UNCHANGED <<supervisor, rc, outFile, bulky, detached, wrote, pipe, reader>>
-----------------------------------------------------------------------------
(***************************************************************************)
(* The supervisor: the capped reader, the watchdog and the classification. *)
(***************************************************************************)

\* One chunk, which read(4096) returns when it is full or the stream has ended:
\* kept while there is room, and the first one beyond the cap ends the reading,
\* so that a writer with more to say blocks on the pipe.
ReaderReads ==
    /\ reader.on /\ pipe > 0
    /\ pc \in {"waiting", "polling", "grace", "joining"}
    /\ pipe' = pipe - 1
    /\ reader' = IF reader.kept >= Cap
                 THEN [reader EXCEPT !.truncated = TRUE, !.on = FALSE]
                 ELSE [reader EXCEPT !.kept = @ + 1]
    /\ UNCHANGED <<supervisor, group, rc, outFile, bulky, detached, wrote>>

WaitReturns ==
    /\ pc = "waiting" /\ "leader" \notin group
    /\ pc' = "joining"
    /\ UNCHANGED <<policy, run, gate, disk, child, timedOut, outcome, proofs,
                   judged, crashes>>

WallExpires ==
    /\ pc = "waiting" /\ "leader" \in group
    /\ pc' = "polling" /\ timedOut' = TRUE
    /\ UNCHANGED <<policy, run, gate, disk, child, outcome, proofs, judged, crashes>>

\* _kill_group: nothing is signalled when the leader has gone in the meantime;
\* otherwise SIGTERM to the group, which any member may ignore.
Terminate(survivors) ==
    /\ pc = "polling"
    /\ IF "leader" \notin group
       THEN pc' = "joining" /\ UNCHANGED <<group, rc>>
       ELSE /\ pc' = "grace" /\ group' = survivors
            /\ rc' = IF "leader" \in survivors THEN rc ELSE "signal"
    /\ UNCHANGED <<policy, run, gate, disk, outFile, bulky, detached, wrote, pipe,
                   reader, timedOut, outcome, proofs, judged, crashes>>

KillNeverAfterGrace ==
    /\ pc = "grace" /\ "leader" \notin group
    /\ pc' = "joining"
    /\ UNCHANGED <<group, rc, policy, run, gate, disk, outFile, bulky, detached, wrote, pipe,
                   reader, timedOut, outcome, proofs, judged, crashes>>

\* After the grace, SIGKILL to the group if the leader is still there; a group
\* whose leader obeyed is not signalled again.
KillAfterGrace ==
    /\ pc = "grace"
    /\ pc' = "joining"
    /\ IF "leader" \in group THEN group' = {} /\ rc' = "signal"
                             ELSE UNCHANGED <<group, rc>>
    /\ UNCHANGED <<policy, run, gate, disk, outFile, bulky, detached, wrote, pipe,
                   reader, timedOut, outcome, proofs, judged, crashes>>

\* The reader ends at the cap, or at the end of the stream, which comes when no
\* live member holds it.  The join has a timeout, but the close behind it has
\* none: it waits for the lock of the buffer, which the reader keeps while it is
\* inside read, so that a silent member which holds the stream stops the
\* supervisor here.
JoinReader ==
    /\ pc = "joining" /\ (~reader.on \/ (pipe = 0 /\ Holders = {}))
    /\ pc' = "drained" /\ reader' = [reader EXCEPT !.on = FALSE]
    /\ UNCHANGED <<policy, run, gate, disk, group, rc, outFile, bulky, detached,
                   wrote, pipe, timedOut, outcome, proofs, judged, crashes>>

OrphanSeen(tableRead) == Platform = "ps" /\ (~tableRead \/ group # {})

\* The order of the checks: orphan, output cap, timeout, scratch cap, exit
\* code, and only then the result the child left, checked once more.
ClassifyTimeoutLast(tableRead) ==
    IF OrphanSeen(tableRead) THEN "policy_violation"
    ELSE IF reader.truncated THEN "resource_limit"
    ELSE IF bulky THEN "resource_limit"
    ELSE IF rc = "ok" /\ outFile = "valid" THEN "completed"
    ELSE IF timedOut THEN "timeout"
    ELSE "failed"

Classify(tableRead) ==
    IF OrphanSeen(tableRead) THEN "policy_violation"
    ELSE IF reader.truncated THEN "resource_limit"
    ELSE IF timedOut THEN "timeout"
    ELSE IF bulky THEN "resource_limit"
    ELSE IF rc = "ok" /\ outFile = "valid" THEN "completed"
    ELSE "failed"

\* What a completed run must have been: the leader ended by itself with exit 0
\* before the wall time, and the group wrote no more than the cap.
CleanRun == rc = "ok" /\ ~timedOut /\ wrote <= Cap

\* Only a completed run has an output, and a receipt in its scratch.
ClassifyRun(tableRead) ==
    /\ pc = "drained"
    /\ pc' = "classified"
    /\ LET status == Classify(tableRead) IN
       outcome' = [status |-> status, output |-> status = "completed",
                   receipt |-> status = "completed", alive |-> group,
                   clean |-> CleanRun]
    /\ ChildGone
    /\ UNCHANGED <<policy, run, gate, disk, proofs, judged, crashes>>
-----------------------------------------------------------------------------
(***************************************************************************)
(* The adversarial harness judges an outcome; the sealer publishes it.     *)
(***************************************************************************)

Expectations == {"rejected", "resource_limit", "timeout", "no_receipt"}

Matches(expected, control, o) ==
    /\ o.status # "completed" => ~o.receipt
    /\ CASE expected = "rejected" -> FALSE
         [] expected = "timeout" -> o.status = "timeout" /\ ~o.receipt
         [] expected = "resource_limit" ->
                o.status \in {"resource_limit", "timeout"} /\ ~o.receipt
         [] expected = "no_receipt" -> control \/ ~o.receipt

JudgeCase(expected, control) ==
    /\ pc = "classified" /\ judged = "none"
    /\ judged' = IF Matches(expected, control, outcome)
                 THEN (IF control THEN "control_matched" ELSE "matched")
                 ELSE "unmatched"
    /\ pc' = "done"
    /\ UNCHANGED <<policy, run, gate, disk, child, timedOut, outcome, proofs, crashes>>

\* The output goes into the store only when a validator was supplied and
\* accepts it; a validator that refuses it leaves no trace.
SealOutput ==
    /\ pc = "classified"
    /\ LET offered == outcome.output /\ run.validator # "none" IN
       /\ pc' = IF offered /\ run.validator = "rejects" THEN "aborted" ELSE "sealing"
       /\ published' = IF offered /\ run.validator = "accepts"
                       THEN published \cup {[run |-> run.number, kind |-> "output"]}
                       ELSE published
    /\ UNCHANGED <<policy, run, gate, disk, child, timedOut, outcome, receipts,
                   judged, crashes>>

SealEngine ==
    /\ pc = "sealing"
    /\ pc' = "evidenced"
    /\ published' = published \cup {[run |-> run.number, kind |-> "engine"]}
    /\ UNCHANGED <<policy, run, gate, disk, child, timedOut, outcome, receipts,
                   judged, crashes>>

\* The store refuses an ingest: the sealing ends without a run receipt.
IngestRefused ==
    /\ pc \in {"classified", "sealing"}
    /\ pc = "classified" => outcome.output /\ run.validator = "accepts"
    /\ pc' = "aborted"
    /\ UNCHANGED <<policy, run, gate, disk, child, timedOut, outcome, proofs,
                   judged, crashes>>

\* The run receipt is a plain write: the file exists before its bytes do.
SealedOutputs ==
    {[run |-> run.number, kind |-> "output"]} \cap published

OpenReceiptEarly ==
    /\ pc \in {"sealing", "evidenced"}
    /\ pc' = "writing"
    /\ receipts' = receipts \cup {[run |-> run.number, status |-> outcome.status,
                                   outputs |-> SealedOutputs, whole |-> FALSE]}
    /\ UNCHANGED <<policy, run, gate, disk, child, timedOut, outcome, published,
                   judged, crashes>>

OpenReceipt ==
    /\ pc = "evidenced"
    /\ pc' = "writing"
    /\ receipts' = receipts \cup {[run |-> run.number, status |-> outcome.status,
                                   outputs |-> SealedOutputs, whole |-> FALSE]}
    /\ UNCHANGED <<policy, run, gate, disk, child, timedOut, outcome, published,
                   judged, crashes>>

FillReceipt ==
    /\ pc = "writing"
    /\ pc' = "done"
    /\ receipts' = {IF r.run = run.number THEN [r EXCEPT !.whole = TRUE] ELSE r :
                      r \in receipts}
    /\ UNCHANGED <<policy, run, gate, disk, child, timedOut, outcome, published,
                   judged, crashes>>
-----------------------------------------------------------------------------
\* Every run has a scratch, a staging directory and a process group of its
\* own; what the last run left in its own is outside the reach of the next.
FreshRun ==
    /\ pc' = "idle"
    /\ todo' = {} /\ staged' = {} /\ ChildGone
    /\ outcome' = NoOutcome /\ judged' = "none"
    /\ UNCHANGED <<policy, run, gate, store, proofs, crashes>>

NextRun ==
    /\ pc \in {"done", "aborted", "wait"} /\ run.number < MaxRuns
    /\ FreshRun

\* A kill of the supervisor ends its threads with it and leaves the staging
\* directory, the published objects and the receipt file as they are.
Crash ==
    /\ pc \notin {"boot", "refused", "idle", "done", "aborted", "wait", "down"}
    /\ crashes < MaxCrashes
    /\ pc' = "down" /\ crashes' = crashes + 1
    /\ ChildGone /\ outcome' = NoOutcome
    /\ UNCHANGED <<policy, run, gate, disk, proofs, judged>>

Restart ==
    /\ pc = "down" /\ run.number < MaxRuns
    /\ FreshRun

NoRun == [number |-> 0, adapter |-> "echo.v1", validator |-> "none",
          childGate |-> FALSE, widened |-> FALSE]

Init ==
    /\ pc = "boot" /\ policy = (CHOOSE d \in PolicyDocs : TRUE) /\ run = NoRun
    /\ gate \in BOOLEAN
    /\ store \in [Inputs -> {"ok", "absent"}] /\ todo = {} /\ staged = {}
    /\ group = {} /\ rc = "none" /\ outFile = "none" /\ bulky = FALSE
    /\ detached = FALSE /\ wrote = 0 /\ pipe = 0 /\ reader = FreshReader /\ timedOut = FALSE
    /\ outcome = NoOutcome /\ published = {} /\ receipts = {}
    /\ judged = "none" /\ crashes = 0

Adapters == {"echo.v1", "sleeper.v1", "unknown.v1"}
Validators == {"none", "accepts", "rejects"}

Estimates == [Resource -> 0..MaxAmount]

\* The supervisor's own steps once a run is admitted; the wall clock is one.
Supervise ==
    \/ BeginStaging \/ FinishStaging
    \/ \E d \in Inputs : StageInput(d)
    \/ \E limitsSet \in BOOLEAN : Spawn(limitsSet)
    \/ WaitReturns \/ WallExpires \/ KillAfterGrace \/ JoinReader
    \/ \E survivors \in SUBSET group : Terminate(survivors)
    \/ \E tableRead \in BOOLEAN : ClassifyRun(tableRead)
    \/ SealOutput \/ SealEngine \/ IngestRefused \/ OpenReceipt \/ FillReceipt
    \/ \E expected \in Expectations, control \in BOOLEAN : JudgeCase(expected, control)

Next ==
    \/ \E doc \in PolicyDocs : LoadPolicy(doc)
    \/ /\ pc = "idle"
       /\ \E estimate \in Estimates, use_exception \in BOOLEAN, free \in 0..1,
             adapter \in Adapters, validator \in Validators :
               AdmitRun(estimate, use_exception, free, adapter, validator)
    \/ Supervise
    \/ ReaderReads
    \/ GroupWrites \/ LeaderForks \/ LeaderFills \/ HelperDetaches \/ HelperExits
    \/ \E result \in {"valid", "bad"} : LeaderWrites(result)
    \/ \E how \in {"ok", "contract", "signal"} : LeaderExits(how)
    \/ \E d \in Inputs : Rot(d)
    \/ NextRun \/ Crash \/ Restart

Spec == Init /\ [][Next]_vars
FairSpec == Spec /\ WF_vars(Supervise) /\ WF_vars(ReaderReads)
-----------------------------------------------------------------------------
(***************************************************************************)
(* Properties.                                                             *)
(***************************************************************************)

TypeOK ==
    /\ pc \in {"boot", "refused", "idle", "admitted", "wait", "staging", "ready",
               "waiting", "polling", "grace", "joining", "drained", "classified",
               "sealing", "evidenced", "writing", "done", "aborted", "down"}
    /\ policy \in PolicyDocs
    /\ run \in [number : 0..MaxRuns, adapter : Adapters, validator : Validators,
               childGate : BOOLEAN, widened : BOOLEAN]
    /\ gate \in BOOLEAN /\ bulky \in BOOLEAN /\ timedOut \in BOOLEAN
    /\ detached \in BOOLEAN
    /\ store \in [Inputs -> {"ok", "absent", "rotten"}]
    /\ todo \subseteq Inputs /\ staged \subseteq Inputs \X {"ok", "rotten"}
    /\ group \subseteq {"leader", "helper"}
    /\ rc \in {"none", "ok", "contract", "signal"}
    /\ outFile \in {"none", "valid", "bad"}
    /\ wrote \in 0..MaxWrites /\ pipe \in 0..PipeCap
    /\ reader \in [kept : 0..Cap, truncated : BOOLEAN, on : BOOLEAN]
    /\ outcome \in [status : Statuses \cup {"none"}, output : BOOLEAN,
                    receipt : BOOLEAN, clean : BOOLEAN,
                    alive : SUBSET {"leader", "helper"}]
    /\ published \subseteq [run : 1..MaxRuns, kind : {"output", "engine"}]
    /\ receipts \subseteq [run : 1..MaxRuns, status : Statuses,
                           outputs : SUBSET published, whole : BOOLEAN]
    /\ judged \in {"none", "matched", "control_matched", "unmatched"}
    /\ crashes \in 0..MaxCrashes

\* A completed run is one whose leader ended by itself with exit 0, before the
\* wall time, having left a valid result, a scratch within its cap, and no
\* more output than the reader's cap: whatever the group does while the
\* supervisor is between its steps (runner._classify, sandbox._CappedReader).
CompletedIsClean ==
    outcome.status = "completed" => outcome.clean

\* The run that survives in the group when the outcome is made is recorded as
\* a policy violation: "A survivor is an ORPHAN_PROCESS_DETECTED hard stop"
\* (sandbox.verify_no_orphan, docs/operations/runner.md).
OrphanIsViolation ==
    outcome.alive # {} => outcome.status = "policy_violation"

\* The staging directory never holds bytes that are not what the run named,
\* although an object may go bad between any two steps (materialize).
StagedIsDeclared ==
    \A s \in staged : s[2] = "ok"

\* A child runs only when every input was staged.
SpawnedIsStaged ==
    pc \in {"waiting", "polling", "grace", "joining", "drained", "sealing", "writing"}
        => todo = {} /\ {s[1] : s \in staged} = Inputs

\* The supervisor and its child agree on the adapters that exist: the gate of
\* the test adapters crosses the sanitised environment.
ChildSharesAllowlist ==
    "leader" \in group /\ pc # "down" => run.adapter \in Registry(run.childGate)

\* No policy document that could be loaded lets a run in beyond the absolute
\* caps, or beyond the default scratch (policy._validate_exception, admit).
NeverWidened ==
    ~run.widened

\* A run receipt, torn or whole, speaks of evidence that is in the store: its
\* engine receipt, and its output whenever a validator accepted it
\* (sealer.seal_run writes the run receipt last).
ReceiptCoversEvidence ==
    \A r \in receipts :
        /\ [run |-> r.run, kind |-> "engine"] \in published
        /\ r.outputs \subseteq published
        /\ [run |-> r.run, kind |-> "output"] \in published => r.outputs # {}

\* A receipt is torn for good only if the supervisor was killed.
TornOnlyByCrash ==
    \A r \in receipts : r.whole \/ crashes > 0 \/ (pc = "writing" /\ r.run = run.number)

\* The harness accepts a case that is not a control only if the run left no
\* receipt, whatever the case expected (adversarial._outcome_matches_expected).
MatchedLeavesNoReceipt ==
    judged = "matched" => ~outcome.receipt

\* A child that hangs, floods its pipe or ignores SIGTERM holds the supervisor
\* up for no longer than the wall time and the graces.  The one thing that can
\* hold it for ever is a live member of the group that keeps the output stream
\* open without a word, after its leader has ended (runner._drain_and_wait).
SupervisorReturns ==
    pc = "waiting" ~> \/ pc \in {"classified", "down"}
                      \/ [](pc = "joining" /\ Holders # {} /\ "leader" \notin group)

\* A run is let in, staged and judged by what the policy, the store and the
\* group of the child really were, however the steps of the two interleave.
OutcomeEarned ==
    /\ TypeOK
    /\ CompletedIsClean
    /\ OrphanIsViolation
    /\ StagedIsDeclared
    /\ SpawnedIsStaged
    /\ ChildSharesAllowlist
    /\ NeverWidened

\* What a receipt says is in the store, whenever the supervisor was killed, and
\* the harness takes no receipt for a refusal.
EvidenceSealed ==
    /\ ReceiptCoversEvidence
    /\ TornOnlyByCrash
    /\ MatchedLeavesNoReceipt
=============================================================================
