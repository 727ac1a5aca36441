--------------------------- MODULE ExecutionProofs ---------------------------
(***************************************************************************)
(* Proofs about the bounded run: for any inputs, policy documents, caps    *)
(* and number of runs and kills.  All but one of the properties hold on    *)
(* every platform; that a survivor is a policy violation needs one whose   *)
(* process table is read with ps.                                          *)
(***************************************************************************)
EXTENDS Execution, TLAPS

Polled == {"waiting", "polling", "grace", "joining"}
Staged == {"ready", "classified", "sealing", "evidenced", "writing", "drained"} \cup Polled
Sealed == {"sealing", "evidenced", "writing"}
Started == {"admitted", "staging"} \cup Staged

\* A policy is in force once the boot is over, and only one that is valid.
PolicyInv == pc \notin {"boot", "refused"} => ValidPolicy(policy)

\* What is staged was verified, and with what is left to stage it is what the
\* run named.
StageInv ==
    /\ StagedIsDeclared
    /\ pc = "staging" => todo \cup {s[1] : s \in staged} = Inputs
    /\ pc \in Staged => todo = {} /\ {s[1] : s \in staged} = Inputs

\* A child is followed while it is watched, with the adapters it was spawned for.
GroupInv ==
    /\ ~Watched => group = {}
    /\ group # {} => run.adapter \in Registry(run.childGate)

\* As long as the reader reads, what was written is what it kept and what is
\* still in the pipe; it stops only at the cap.
StreamInv ==
    /\ pc \in Polled => /\ reader.on <=> ~reader.truncated
                        /\ reader.on => wrote = reader.kept + pipe
    /\ pc = "drained" /\ ~reader.truncated => wrote <= Cap

\* A verdict is the last thing the harness does with a run.
JudgeInv ==
    /\ judged # "none" => pc = "done"
    /\ MatchedLeavesNoReceipt

\* Evidence and receipts are those of the runs so far; those of the run at hand
\* come in the order output, engine, receipt.
SealInv ==
    /\ pc \in Started => run.number > 0
    /\ pc \in Sealed \cup {"classified"} => outcome.status # "none"
    /\ \A e \in published : /\ e.run <= run.number
                            /\ pc \in Started \ Sealed => e.run < run.number
    /\ \A r \in receipts : /\ r.run <= run.number
                           /\ pc \in Started \ {"writing"} => r.run < run.number
    /\ pc \in {"evidenced", "writing"} => [run |-> run.number, kind |-> "engine"] \in published

ExecutionInv ==
    /\ TypeOK /\ PolicyInv /\ StageInv /\ GroupInv /\ StreamInv /\ JudgeInv /\ SealInv
    /\ CompletedIsClean /\ NeverWidened /\ ReceiptCoversEvidence /\ TornOnlyByCrash
-----------------------------------------------------------------------------
\* What the child and the reader do leaves the supervisor where it is.
ChildStep ==
    \/ ReaderReads \/ GroupWrites \/ LeaderForks \/ LeaderFills \/ HelperDetaches \/ HelperExits
    \/ \E result \in {"valid", "bad"} : LeaderWrites(result)
    \/ \E how \in {"ok", "contract", "signal"} : LeaderExits(how)

\* The child never moves the supervisor.
LEMMA ChildApart == ChildStep => UNCHANGED supervisor
  BY DEF ChildStep, ReaderReads, GroupWrites, LeaderForks, LeaderFills, HelperDetaches, HelperExits,
         LeaderWrites, LeaderExits

\* The steps of the supervisor between the spawn and the classification.
WatchStep ==
    \/ WaitReturns \/ WallExpires \/ KillAfterGrace \/ JoinReader
    \/ \E survivors \in SUBSET group : Terminate(survivors)

\* Watching the child touches neither the stage nor the evidence.
LEMMA WatchFrame ==
    WatchStep => UNCHANGED <<policy, run, gate, disk, outcome, proofs, judged, crashes,
                             outFile, bulky, detached, wrote, pipe>>
  BY DEF WatchStep, WaitReturns, WallExpires, KillAfterGrace, JoinReader, Terminate, child

AdmitStep ==
    \E estimate \in Estimates, use_exception \in BOOLEAN, free \in 0..1,
       adapter \in Adapters, validator \in Validators :
         AdmitRun(estimate, use_exception, free, adapter, validator)
StageStep == BeginStaging \/ FinishStaging \/ \E d \in Inputs : StageInput(d)
SpawnStep == \E limitsSet \in BOOLEAN : Spawn(limitsSet)
ClassifyStep == \E tableRead \in BOOLEAN : ClassifyRun(tableRead)
JudgeStep == \E expected \in Expectations, control \in BOOLEAN : JudgeCase(expected, control)
SealStep == SealOutput \/ SealEngine \/ IngestRefused \/ OpenReceipt \/ FillReceipt
Renew == NextRun \/ Restart

\* The phases a step can belong to.
LEMMA Steps ==
    ASSUME [Next]_vars
    PROVE  \/ \E doc \in PolicyDocs : LoadPolicy(doc)
           \/ AdmitStep \/ StageStep \/ SpawnStep \/ ChildStep \/ WatchStep \/ ClassifyStep
           \/ JudgeStep \/ SealStep \/ Renew \/ Crash
           \/ \E d \in Inputs : Rot(d)
           \/ UNCHANGED vars
  BY DEF Next, Supervise, AdmitStep, StageStep, SpawnStep, ChildStep, WatchStep, ClassifyStep,
         JudgeStep, SealStep, Renew
-----------------------------------------------------------------------------
\* The type invariant, a group of variables at a time.
TypeControl ==
    /\ pc \in {"boot", "refused", "idle", "admitted", "wait", "staging", "ready",
               "waiting", "polling", "grace", "joining", "drained", "classified",
               "sealing", "evidenced", "writing", "done", "aborted", "down"}
    /\ policy \in PolicyDocs
    /\ run \in [number : 0..MaxRuns, adapter : Adapters, validator : Validators,
               childGate : BOOLEAN, widened : BOOLEAN]
    /\ gate \in BOOLEAN
    /\ judged \in {"none", "matched", "control_matched", "unmatched"}
    /\ crashes \in 0..MaxCrashes
TypeStaging ==
    /\ store \in [Inputs -> {"ok", "absent", "rotten"}]
    /\ todo \subseteq Inputs /\ staged \subseteq Inputs \X {"ok", "rotten"}
TypeChild ==
    /\ group \subseteq {"leader", "helper"}
    /\ rc \in {"none", "ok", "contract", "signal"}
    /\ outFile \in {"none", "valid", "bad"}
    /\ bulky \in BOOLEAN /\ timedOut \in BOOLEAN /\ detached \in BOOLEAN
TypeStream ==
    /\ wrote \in 0..MaxWrites /\ pipe \in 0..PipeCap
    /\ reader \in [kept : 0..Cap, truncated : BOOLEAN, on : BOOLEAN]
TypeOutcome ==
    outcome \in [status : Statuses \cup {"none"}, output : BOOLEAN, receipt : BOOLEAN,
                 clean : BOOLEAN, alive : SUBSET {"leader", "helper"}]
TypeEvidence ==
    /\ published \subseteq [run : 1..MaxRuns, kind : {"output", "engine"}]
    /\ receipts \subseteq [run : 1..MaxRuns, status : Statuses,
                           outputs : SUBSET published, whole : BOOLEAN]

\* The type invariant is the conjunction of its parts.
LEMMA TypeParts ==
    TypeOK <=> /\ TypeControl /\ TypeStaging /\ TypeChild
               /\ TypeStream /\ TypeOutcome /\ TypeEvidence
  BY DEF TypeOK, TypeControl, TypeStaging, TypeChild, TypeStream, TypeOutcome,
         TypeEvidence

\* Every step keeps the types of policy, gate and control state.
LEMMA ControlStep == ASSUME TypeControl, [Next]_vars PROVE TypeControl'
<1> USE ExecutionAssumption DEF TypeControl
<1>1. CASE \E doc \in PolicyDocs : LoadPolicy(doc)
  BY <1>1 DEF LoadPolicy
<1>2. CASE AdmitStep
  <2>1. PICK estimate \in Estimates, use_exception \in BOOLEAN, free \in 0..1,
             adapter \in Adapters, validator \in Validators :
               AdmitRun(estimate, use_exception, free, adapter, validator)
    BY <1>2 DEF AdmitStep
  <2>2. run.number + 1 \in 0..MaxRuns
    BY <2>1 DEF AdmitRun
  <2>3. (pc' = "admitted" /\ Widened(estimate, policy)) \in BOOLEAN
    OBVIOUS
  <2>4. run' \in [number : 0..MaxRuns, adapter : Adapters, validator : Validators,
                  childGate : BOOLEAN, widened : BOOLEAN]
    BY <2>1, <2>2, <2>3 DEF AdmitRun
  <2> QED BY <2>1, <2>4 DEF AdmitRun
<1>3. CASE StageStep
  BY <1>3 DEF StageStep, BeginStaging, FinishStaging, StageInput
<1>4. CASE SpawnStep
  BY <1>4 DEF SpawnStep, Spawn, ChildGate
<1>5. CASE ChildStep
  BY <1>5, ChildApart DEF supervisor
<1>6. CASE WatchStep
  BY <1>6, WatchFrame DEF WatchStep, WaitReturns, WallExpires, KillAfterGrace, JoinReader, Terminate
<1>7. CASE ClassifyStep
  BY <1>7 DEF ClassifyStep, ClassifyRun
<1>8. CASE JudgeStep
  BY <1>8 DEF JudgeStep, JudgeCase
<1>9. CASE SealStep
  BY <1>9 DEF SealStep, SealOutput, SealEngine, IngestRefused, OpenReceipt, FillReceipt
<1>10. CASE Renew
  BY <1>10 DEF Renew, NextRun, Restart, FreshRun
<1>11. CASE Crash
  BY <1>11 DEF Crash
<1>12. CASE \E d \in Inputs : Rot(d)
  BY <1>12 DEF Rot
<1>13. CASE UNCHANGED vars
  BY <1>13 DEF vars
<1> QED BY <1>1, <1>2, <1>3, <1>4, <1>5, <1>6, <1>7, <1>8, <1>9, <1>10, <1>11, <1>12, <1>13, Steps

\* Every step keeps the types of the staging directory.
LEMMA StagingStep == ASSUME TypeStaging, [Next]_vars PROVE TypeStaging'
<1> USE DEF TypeStaging
<1>1. CASE StageStep
  BY <1>1 DEF StageStep, BeginStaging, FinishStaging, StageInput, disk
<1>2. CASE Renew
  BY <1>2 DEF Renew, NextRun, Restart, FreshRun
<1>3. CASE \E d \in Inputs : Rot(d)
  BY <1>3 DEF Rot
<1>4. \/ StageStep \/ Renew \/ \E d \in Inputs : Rot(d)
      \/ UNCHANGED disk
  <2>1. CASE (\E doc \in PolicyDocs : LoadPolicy(doc)) \/ AdmitStep \/ SpawnStep
    BY <2>1 DEF LoadPolicy, AdmitStep, AdmitRun, SpawnStep, Spawn
  <2>2. CASE ChildStep
    BY <2>2, ChildApart DEF supervisor
  <2>3. CASE WatchStep
    BY <2>3, WatchFrame
  <2>4. CASE ClassifyStep \/ JudgeStep \/ SealStep \/ Crash
    BY <2>4 DEF ClassifyStep, ClassifyRun, JudgeStep, JudgeCase, SealStep, SealOutput, SealEngine,
                IngestRefused, OpenReceipt, FillReceipt, Crash
  <2>5. CASE UNCHANGED vars
    BY <2>5 DEF vars, disk
  <2> QED BY <2>1, <2>2, <2>3, <2>4, <2>5, Steps
<1> QED BY <1>1, <1>2, <1>3, <1>4 DEF disk

\* The bounds of the stream, apart from what is assumed of the policies.
LEMMA Bounds ==
    /\ Cap \in Nat /\ PipeCap \in Nat \ {0} /\ MaxWrites \in Nat
    /\ FreshReader \in [kept : 0..Cap, truncated : BOOLEAN, on : BOOLEAN]
  BY ExecutionAssumption DEF FreshReader

\* Every step keeps the types of the child and of its output stream.
LEMMA ChildTypesStep ==
    ASSUME TypeChild, TypeStream, [Next]_vars
    PROVE  TypeChild' /\ TypeStream'
<1>1. CASE SpawnStep
  <2>1. \/ UNCHANGED child
        \/ /\ group' = {"leader"} /\ rc' = "none" /\ outFile' = "none"
           /\ bulky' = FALSE /\ detached' = FALSE /\ wrote' = 0 /\ pipe' = 0 /\ reader' = FreshReader
    BY <1>1 DEF SpawnStep, Spawn
  <2>2. timedOut' = FALSE
    BY <1>1 DEF SpawnStep, Spawn
  <2>3. TypeStream'
    BY <2>1, Bounds DEF TypeStream, child
  <2> QED BY <2>1, <2>2, <2>3 DEF TypeChild, child
<1>2. CASE ClassifyStep \/ Renew \/ Crash
  <2>1. ChildGone
    BY <1>2 DEF ClassifyStep, ClassifyRun, Renew, NextRun, Restart, FreshRun, Crash
  <2>2. TypeStream'
    BY <2>1, Bounds DEF ChildGone, TypeStream
  <2> QED BY <2>1, <2>2 DEF ChildGone, TypeChild
<1>3. CASE ReaderReads
  <2>1. CASE reader.kept >= Cap
    <3>1. reader' = [kept |-> reader.kept, truncated |-> TRUE, on |-> FALSE]
      BY <1>3, <2>1 DEF ReaderReads, TypeStream
    <3>2. reader.kept \in 0..Cap /\ TRUE \in BOOLEAN /\ FALSE \in BOOLEAN
      BY DEF TypeStream
    <3>3. reader' \in [kept : 0..Cap, truncated : BOOLEAN, on : BOOLEAN]
      BY <3>1, <3>2, Zenon
    <3>4. pipe' \in 0..PipeCap
      BY <1>3, Bounds DEF ReaderReads, TypeStream
    <3> QED BY <1>3, <3>3, <3>4, Zenon DEF ReaderReads, supervisor, TypeChild, TypeStream
  <2>2. CASE ~(reader.kept >= Cap)
    <3>1. reader' = [kept |-> reader.kept + 1, truncated |-> reader.truncated, on |-> reader.on]
      BY <1>3, <2>2 DEF ReaderReads, TypeStream
    <3> QED BY <1>3, <2>2, <3>1, Bounds DEF ReaderReads, supervisor, TypeChild, TypeStream
  <2> QED BY <2>1, <2>2
<1>4. CASE GroupWrites
  BY <1>4, Bounds DEF GroupWrites, supervisor, TypeChild, TypeStream
<1>5. CASE LeaderForks \/ LeaderFills \/ HelperDetaches \/ HelperExits
  BY <1>5 DEF LeaderForks, LeaderFills, HelperDetaches, HelperExits, supervisor, TypeChild, TypeStream
<1>6. CASE \/ \E result \in {"valid", "bad"} : LeaderWrites(result)
           \/ \E how \in {"ok", "contract", "signal"} : LeaderExits(how)
  BY <1>6 DEF LeaderWrites, LeaderExits, supervisor, TypeChild, TypeStream
<1>7. CASE WatchStep
  <2>1. TypeStream'
    BY <1>7 DEF WatchStep, WaitReturns, WallExpires, KillAfterGrace, JoinReader, Terminate,
                TypeStream, child
  <2> QED BY <1>7, <2>1 DEF WatchStep, WaitReturns, WallExpires, KillAfterGrace, JoinReader, Terminate,
                            TypeChild, child
<1>8. CASE UNCHANGED <<child, timedOut>>
  BY <1>8 DEF TypeChild, TypeStream, child
<1>9. CASE (\E doc \in PolicyDocs : LoadPolicy(doc)) \/ AdmitStep \/ StageStep
  BY <1>8, <1>9 DEF LoadPolicy, AdmitStep, AdmitRun, StageStep, BeginStaging, FinishStaging, StageInput
<1>10. CASE JudgeStep \/ SealStep \/ \E d \in Inputs : Rot(d)
  BY <1>8, <1>10 DEF JudgeStep, JudgeCase, SealStep, SealOutput, SealEngine, IngestRefused, OpenReceipt,
                     FillReceipt, Rot
<1>11. CASE UNCHANGED vars
  BY <1>8, <1>11 DEF vars, child
<1>12. ChildStep => \/ ReaderReads \/ GroupWrites \/ LeaderForks \/ LeaderFills \/ HelperDetaches \/ HelperExits
                   \/ \E result \in {"valid", "bad"} : LeaderWrites(result)
                   \/ \E how \in {"ok", "contract", "signal"} : LeaderExits(how)
  BY DEF ChildStep
<1> QED BY <1>1, <1>2, <1>3, <1>4, <1>5, <1>6, <1>7, <1>9, <1>10, <1>11, <1>12, Steps

\* The outcome is made by the classification, or by a spawn whose limits could not
\* be set.
LEMMA OutcomeStep ==
    ASSUME TypeChild, [Next]_vars
    PROVE  \/ \E tableRead \in BOOLEAN :
                /\ ClassifyRun(tableRead)
                /\ Classify(tableRead) \in Statuses
           \/ SpawnStep /\ outcome' = [NoOutcome EXCEPT !.status = "resource_limit"]
           \/ outcome' = NoOutcome /\ (Renew \/ Crash \/ AdmitStep)
           \/ UNCHANGED outcome
<1>1. CASE ClassifyStep
  BY <1>1 DEF ClassifyStep, Classify, Statuses
<1>2. CASE (\E doc \in PolicyDocs : LoadPolicy(doc)) \/ StageStep
  BY <1>2 DEF LoadPolicy, StageStep, BeginStaging, FinishStaging, StageInput
<1>3. CASE SpawnStep
  BY <1>3 DEF SpawnStep, Spawn
<1>4. CASE Renew \/ Crash \/ AdmitStep
  BY <1>4 DEF Renew, Crash, AdmitStep, NextRun, Restart, FreshRun, AdmitRun
<1>5. CASE ChildStep
  BY <1>5, ChildApart DEF supervisor
<1>6. CASE WatchStep
  BY <1>6, WatchFrame
<1>7. CASE JudgeStep \/ SealStep \/ \E d \in Inputs : Rot(d)
  BY <1>7 DEF JudgeStep, JudgeCase, SealStep, SealOutput, SealEngine, IngestRefused, OpenReceipt,
              FillReceipt, Rot
<1>8. CASE UNCHANGED vars
  BY <1>8 DEF vars
<1> QED BY <1>1, <1>2, <1>3, <1>4, <1>5, <1>6, <1>7, <1>8, Steps

Outcomes == [status : Statuses \cup {"none"}, output : BOOLEAN, receipt : BOOLEAN,
             clean : BOOLEAN, alive : SUBSET {"leader", "helper"}]

\* The outcome of a run whose child was never started leaves nothing behind.
LEMMA UnmadeOutcome ==
    /\ NoOutcome \in Outcomes
    /\ [NoOutcome EXCEPT !.status = "resource_limit"] \in Outcomes
    /\ NoOutcome.status = "none" /\ ~NoOutcome.receipt /\ NoOutcome.alive = {}
    /\ [NoOutcome EXCEPT !.status = "resource_limit"].status = "resource_limit"
    /\ ~[NoOutcome EXCEPT !.status = "resource_limit"].receipt
    /\ [NoOutcome EXCEPT !.status = "resource_limit"].alive = {}
<1>1. /\ "none" \in Statuses \cup {"none"} /\ FALSE \in BOOLEAN
      /\ {} \in SUBSET {"leader", "helper"}
  OBVIOUS
<1>2. NoOutcome \in Outcomes
  BY <1>1, Zenon DEF NoOutcome, Outcomes
<1>3. NoOutcome.status = "none" /\ ~NoOutcome.receipt /\ NoOutcome.alive = {}
  BY Zenon DEF NoOutcome
<1>4. ASSUME NEW o \in Outcomes, ~o.receipt, o.alive = {}
      PROVE  /\ [o EXCEPT !.status = "resource_limit"] \in Outcomes
             /\ [o EXCEPT !.status = "resource_limit"].status = "resource_limit"
             /\ ~[o EXCEPT !.status = "resource_limit"].receipt
             /\ [o EXCEPT !.status = "resource_limit"].alive = {}
  BY <1>4 DEF Outcomes, Statuses
<1> QED BY <1>2, <1>3, <1>4, Zenon

\* Every step keeps the types of the outcome.
LEMMA OutcomeTypesStep == ASSUME TypeChild, TypeOutcome, [Next]_vars PROVE TypeOutcome'
<1>1. ASSUME NEW tableRead \in BOOLEAN, ClassifyRun(tableRead), Classify(tableRead) \in Statuses
      PROVE  TypeOutcome'
  <2>1. /\ CleanRun \in BOOLEAN
        /\ (Classify(tableRead) = "completed") \in BOOLEAN
        /\ group \in SUBSET {"leader", "helper"}
    BY DEF TypeChild, CleanRun
  <2> QED BY <1>1, <2>1 DEF ClassifyRun, TypeOutcome
<1>2. CASE outcome' = [NoOutcome EXCEPT !.status = "resource_limit"] \/ outcome' = NoOutcome
  BY <1>2, UnmadeOutcome, Zenon DEF TypeOutcome, Outcomes
<1>3. CASE UNCHANGED outcome
  BY <1>3 DEF TypeOutcome
<1> QED BY <1>1, <1>2, <1>3, OutcomeStep

-----------------------------------------------------------------------------
\* A policy in force is valid, and lets no run in beyond the absolute caps.
LEMMA NotWidened ==
    ASSUME NEW p \in PolicyDocs, ValidPolicy(p), NEW estimate \in Estimates,
           NEW use_exception \in BOOLEAN,
           Admit(estimate, p, use_exception) # "WAIT_REMOTE_EXECUTOR"
    PROVE  ~Widened(estimate, p)
<1>1. /\ p.default \in [Resource -> Nat] /\ p.exception \in [Resource -> Nat]
      /\ estimate \in [Resource -> Nat]
  BY ExecutionAssumption DEF Estimates
<1>2. Within(estimate, p.default) \/ Within(estimate, p.exception)
  BY DEF Admit
<1>3. /\ DOMAIN ExceptionCap = Resource \ {"scratch"}
      /\ \A r \in DOMAIN ExceptionCap : ExceptionCap[r] \in Nat
  BY DEF ExceptionCap, Resource
<1>4. CASE Within(estimate, p.default)
  BY <1>1, <1>4 DEF Within, Widened
<1>5. CASE Within(estimate, p.exception)
  <2> SUFFICES ASSUME NEW r \in Resource, estimate[r] > p.default[r],
                      r = "scratch" \/ estimate[r] > ExceptionCap[r]
               PROVE  FALSE
    BY DEF Widened
  <2>1. estimate[r] <= p.exception[r]
    BY <1>5 DEF Within
  <2>2. r = "scratch" => p.exception[r] <= p.default[r]
    BY DEF ValidPolicy
  <2>3. r # "scratch" => p.exception[r] <= ExceptionCap[r] /\ ExceptionCap[r] \in Nat
    BY <1>3 DEF ValidPolicy
  <2> QED BY <1>1, <2>1, <2>2, <2>3
<1> QED BY <1>2, <1>4, <1>5

\* Every step keeps the limits in force those of the policy that was loaded.
LEMMA PolicyStep ==
    ASSUME TypeControl, PolicyInv, NeverWidened, [Next]_vars
    PROVE  PolicyInv' /\ NeverWidened'
<1>1. CASE \E doc \in PolicyDocs : LoadPolicy(doc)
  BY <1>1 DEF LoadPolicy, PolicyInv, NeverWidened, ValidPolicy
<1>2. CASE AdmitStep
  <2>1. PICK estimate \in Estimates, use_exception \in BOOLEAN, free \in 0..1,
             adapter \in Adapters, validator \in Validators :
               AdmitRun(estimate, use_exception, free, adapter, validator)
    BY <1>2 DEF AdmitStep
  <2>2. policy \in PolicyDocs /\ ValidPolicy(policy)
    BY <2>1 DEF AdmitRun, PolicyInv, TypeControl
  <2>3. pc' = "admitted" => Admit(estimate, policy, use_exception) # "WAIT_REMOTE_EXECUTOR"
    BY <2>1 DEF AdmitRun
  <2>4. ~(pc' = "admitted" /\ Widened(estimate, policy))
    BY <2>2, <2>3, NotWidened
  <2>5. run'.widened = (pc' = "admitted" /\ Widened(estimate, policy))
    BY <2>1, Zenon DEF AdmitRun
  <2>6. policy' = policy
    BY <2>1 DEF AdmitRun
  <2>7. NeverWidened'
    BY <2>4, <2>5 DEF NeverWidened
  <2> QED BY <2>2, <2>6, <2>7 DEF PolicyInv, ValidPolicy
<1>3. CASE /\ UNCHANGED <<policy, run>>
           /\ pc \in {"boot", "refused"} => pc' \in {"boot", "refused"}
  BY <1>3 DEF PolicyInv, NeverWidened, ValidPolicy
<1>4. CASE SpawnStep
  <2>1. run'.widened = run.widened
    BY <1>4 DEF SpawnStep, Spawn, TypeControl
  <2> QED BY <1>4, <2>1 DEF SpawnStep, Spawn, PolicyInv, NeverWidened, ValidPolicy
<1>5. CASE StageStep \/ ClassifyStep \/ JudgeStep
  BY <1>3, <1>5 DEF StageStep, BeginStaging, FinishStaging, StageInput, ClassifyStep, ClassifyRun,
                    JudgeStep, JudgeCase
<1>6. CASE ChildStep
  BY <1>3, <1>6, ChildApart DEF supervisor
<1>7. CASE WatchStep
  BY <1>3, <1>7 DEF WatchStep, WaitReturns, WallExpires, KillAfterGrace, JoinReader, Terminate
<1>8. CASE SealStep \/ Renew \/ Crash
  BY <1>3, <1>8 DEF SealStep, SealOutput, SealEngine, IngestRefused, OpenReceipt, FillReceipt,
                    Renew, NextRun, Restart, FreshRun, Crash
<1>9. CASE (\E d \in Inputs : Rot(d)) \/ UNCHANGED vars
  BY <1>3, <1>9 DEF Rot, vars
<1> QED BY <1>1, <1>2, <1>4, <1>5, <1>6, <1>7, <1>8, <1>9, Steps

\* Every step keeps the stage inside what the request declares.
LEMMA StageStepInv ==
    ASSUME TypeStaging, StageInv, [Next]_vars
    PROVE  StageInv'
<1>1. CASE BeginStaging
  BY <1>1 DEF BeginStaging, StageInv, StagedIsDeclared, Staged, Polled
<1>2. CASE FinishStaging
  BY <1>2 DEF FinishStaging, StageInv, StagedIsDeclared, disk
<1>3. ASSUME NEW d \in Inputs, StageInput(d) PROVE StageInv'
  <2>1. CASE store[d] = "ok"
    <3>1. /\ staged' = staged \cup {<<d, "ok">>} /\ todo' = todo \ {d}
          /\ pc = "staging" /\ pc' = "staging" /\ d \in todo
      BY <1>3, <2>1 DEF StageInput
    <3>2. StagedIsDeclared'
      BY <3>1 DEF StageInv, StagedIsDeclared
    <3>3. {s[1] : s \in staged'} = {s[1] : s \in staged} \cup {d}
      <4>1. <<d, "ok">>[1] = d
        OBVIOUS
      <4>2. \A s : s \in staged' <=> s \in staged \/ s = <<d, "ok">>
        BY <3>1
      <4> QED BY <4>1, <4>2, Zenon
    <3> QED BY <3>1, <3>2, <3>3 DEF StageInv, Staged, Polled, TypeStaging
  <2>2. CASE store[d] # "ok"
    BY <1>3, <2>2 DEF StageInput, StageInv, StagedIsDeclared, Staged, Polled
  <2> QED BY <2>1, <2>2
<1>4. CASE UNCHANGED disk /\ (pc' \in Staged => pc \in Staged) /\ (pc' = "staging" => pc = "staging")
  BY <1>4 DEF disk, StageInv, StagedIsDeclared
<1>5. CASE Renew
  BY <1>5 DEF Renew, NextRun, Restart, FreshRun, StageInv, StagedIsDeclared, Staged, Polled
<1>6. CASE (\E doc \in PolicyDocs : LoadPolicy(doc)) \/ AdmitStep \/ SpawnStep \/ Crash
  BY <1>4, <1>6 DEF LoadPolicy, AdmitStep, AdmitRun, SpawnStep, Spawn, Crash, Staged, Polled
<1>7. CASE ClassifyStep \/ JudgeStep \/ SealStep
  BY <1>4, <1>7 DEF ClassifyStep, ClassifyRun, JudgeStep, JudgeCase, SealStep, SealOutput, SealEngine,
                    IngestRefused, OpenReceipt, FillReceipt, Staged, Polled
<1>8. CASE ChildStep
  BY <1>4, <1>8, ChildApart DEF supervisor
<1>9. CASE WatchStep
  BY <1>4, <1>9 DEF WatchStep, WaitReturns, WallExpires, KillAfterGrace, JoinReader, Terminate,
                    Staged, Polled
<1>10. CASE (\E d \in Inputs : Rot(d)) \/ UNCHANGED vars
  BY <1>10 DEF Rot, vars, StageInv, StagedIsDeclared
<1> QED BY <1>1, <1>2, <1>3, <1>5, <1>6, <1>7, <1>8, <1>9, <1>10, Steps DEF StageStep

\* Every step keeps what the supervisor knows of the process group true.
LEMMA GroupStep ==
    ASSUME TypeControl, TypeChild, GroupInv, [Next]_vars
    PROVE  GroupInv'
<1>1. CASE ChildStep
  <2>1. UNCHANGED <<pc, run>> /\ (group # {} \/ group' = group)
    BY <1>1, ChildApart DEF ChildStep, supervisor, ReaderReads, GroupWrites, LeaderForks, LeaderFills,
                HelperDetaches, HelperExits, LeaderWrites, LeaderExits, Holders
  <2>2. group' # {} => Watched
    BY <1>1 DEF ChildStep, ReaderReads, GroupWrites, LeaderForks, LeaderFills,
                HelperDetaches, HelperExits, LeaderWrites, LeaderExits, Watched, Holders
  <2> QED BY <2>1, <2>2 DEF GroupInv, Watched, Registry
<1>2. CASE SpawnStep
  <2>1. CASE UNCHANGED <<run, group>> /\ pc' \in {"aborted", "classified"} /\ pc = "ready"
    BY <2>1 DEF GroupInv, Watched
  <2>2. CASE /\ pc' = "waiting" /\ run' = [run EXCEPT !.childGate = gate]
             /\ run.adapter \in Registry(gate)
    <3>1. run'.adapter = run.adapter /\ run'.childGate = gate
      BY <2>2 DEF TypeControl
    <3> QED BY <2>2, <3>1 DEF GroupInv, Watched
  <2> QED BY <1>2, <2>1, <2>2 DEF SpawnStep, Spawn, ChildGate, child
<1>3. CASE WatchStep
  BY <1>3 DEF WatchStep, WaitReturns, WallExpires, KillAfterGrace, JoinReader, Terminate, child,
              GroupInv, Watched, Registry
<1>4. CASE group' = {}
  BY <1>4 DEF GroupInv
<1>5. CASE ClassifyStep \/ Renew \/ Crash
  BY <1>4, <1>5 DEF ClassifyStep, ClassifyRun, Renew, NextRun, Restart, FreshRun, Crash, ChildGone
<1>6. CASE (\E doc \in PolicyDocs : LoadPolicy(doc)) \/ AdmitStep \/ StageStep
  BY <1>4, <1>6 DEF LoadPolicy, AdmitStep, AdmitRun, StageStep, BeginStaging, FinishStaging, StageInput,
                    child, GroupInv, Watched
<1>7. CASE JudgeStep \/ SealStep
  BY <1>4, <1>7 DEF JudgeStep, JudgeCase, SealStep, SealOutput, SealEngine, IngestRefused, OpenReceipt,
                    FillReceipt, child, GroupInv, Watched
<1>8. CASE (\E d \in Inputs : Rot(d)) \/ UNCHANGED vars
  BY <1>8 DEF Rot, vars, child, GroupInv, Watched, Registry
<1> QED BY <1>1, <1>2, <1>3, <1>5, <1>6, <1>7, <1>8, Steps

\* The accounting of the stream.
LEMMA StreamStep ==
    ASSUME TypeStream, StreamInv, [Next]_vars
    PROVE  StreamInv'
<1>1. CASE ReaderReads
  <2>1. CASE reader.kept >= Cap
    <3>1. reader' = [kept |-> reader.kept, truncated |-> TRUE, on |-> FALSE]
      BY <1>1, <2>1 DEF ReaderReads, TypeStream
    <3>2. reader'.truncated /\ ~reader'.on
      BY <3>1, Zenon
    <3> QED BY <1>1, <3>2 DEF ReaderReads, StreamInv, supervisor, Polled
  <2>2. CASE ~(reader.kept >= Cap)
    <3>1. /\ reader'.kept = reader.kept + 1 /\ reader'.truncated = reader.truncated
          /\ reader'.on = reader.on
      BY <1>1, <2>2 DEF ReaderReads, TypeStream
    <3>2. reader.kept \in Nat /\ pipe \in Nat /\ wrote \in Nat
      BY Bounds DEF TypeStream
    <3> QED BY <1>1, <3>1, <3>2 DEF ReaderReads, StreamInv, supervisor, Polled
  <2> QED BY <2>1, <2>2
<1>2. CASE GroupWrites
  <2>1. reader.kept \in Nat /\ pipe \in Nat /\ wrote \in Nat
    BY Bounds DEF TypeStream
  <2> QED BY <1>2, <2>1 DEF GroupWrites, StreamInv, supervisor, Polled, Watched
<1>3. CASE SpawnStep
  <2>1. pc' \in Polled \cup {"drained"} => wrote' = 0 /\ pipe' = 0 /\ reader' = FreshReader /\ pc' = "waiting"
    BY <1>3 DEF SpawnStep, Spawn, Polled
  <2>2. FreshReader.on /\ ~FreshReader.truncated /\ FreshReader.kept = 0
    BY DEF FreshReader
  <2> QED BY <2>1, <2>2 DEF StreamInv
<1>4. CASE JoinReader
  <2>1. pc = "joining" /\ pc' = "drained" /\ UNCHANGED <<wrote, pipe>>
    BY <1>4 DEF JoinReader
  <2>2. reader'.truncated = reader.truncated
    BY <1>4 DEF JoinReader, TypeStream
  <2>3. ~reader.truncated => wrote <= Cap
    <3>1. reader.kept \in 0..Cap /\ pipe \in Nat
      BY Bounds DEF TypeStream
    <3> QED BY <1>4, <3>1, Bounds DEF JoinReader, StreamInv, Polled
  <2> QED BY <2>1, <2>2, <2>3 DEF StreamInv, Polled
<1>5. CASE /\ UNCHANGED <<wrote, pipe, reader>>
           /\ (pc' \in Polled => pc \in Polled) /\ (pc' = "drained" => pc = "drained")
  BY <1>5 DEF StreamInv
<1>6. CASE pc' \notin Polled \cup {"drained"}
  BY <1>6 DEF StreamInv
<1>7. CASE ClassifyStep \/ Renew \/ Crash
  BY <1>6, <1>7 DEF ClassifyStep, ClassifyRun, Renew, NextRun, Restart, FreshRun, Crash, Polled
<1>8. CASE (\E doc \in PolicyDocs : LoadPolicy(doc)) \/ AdmitStep \/ StageStep
  BY <1>6, <1>8 DEF LoadPolicy, AdmitStep, AdmitRun, StageStep, BeginStaging, FinishStaging, StageInput,
                    Polled
<1>9. CASE JudgeStep \/ SealStep
  BY <1>6, <1>9 DEF JudgeStep, JudgeCase, SealStep, SealOutput, SealEngine, IngestRefused, OpenReceipt,
                    FillReceipt, Polled
<1>10. CASE WaitReturns \/ WallExpires \/ KillAfterGrace \/ \E survivors \in SUBSET group : Terminate(survivors)
  BY <1>5, <1>10 DEF WaitReturns, WallExpires, KillAfterGrace, Terminate, child, Polled
<1>11. CASE \/ LeaderForks \/ LeaderFills \/ HelperDetaches \/ HelperExits
            \/ \E result \in {"valid", "bad"} : LeaderWrites(result)
            \/ \E how \in {"ok", "contract", "signal"} : LeaderExits(how)
  BY <1>5, <1>11 DEF LeaderForks, LeaderFills, HelperDetaches, HelperExits, LeaderWrites, LeaderExits, supervisor
<1>12. CASE (\E d \in Inputs : Rot(d)) \/ UNCHANGED vars
  BY <1>5, <1>12 DEF Rot, vars, child
<1> QED BY <1>1, <1>2, <1>3, <1>4, <1>7, <1>8, <1>9, <1>10, <1>11, <1>12, Steps DEF ChildStep, WatchStep

\* A completed run was clean, and a survivor seen is a policy violation.
LEMMA EarnedStep ==
    ASSUME TypeChild, TypeOutcome, StreamInv, CompletedIsClean, [Next]_vars
    PROVE  /\ CompletedIsClean'
           /\ Platform = "ps" /\ OrphanIsViolation => OrphanIsViolation'
<1>1. ASSUME NEW tableRead \in BOOLEAN, ClassifyRun(tableRead)
      PROVE  /\ CompletedIsClean'
             /\ Platform = "ps" => OrphanIsViolation'
  <2>1. /\ outcome'.status = Classify(tableRead)
        /\ outcome'.alive = group
        /\ outcome'.clean = CleanRun
    BY <1>1, Zenon DEF ClassifyRun
  <2>2. Classify(tableRead) = "completed" => rc = "ok" /\ ~timedOut /\ ~reader.truncated
    BY DEF Classify
  <2>3. ~reader.truncated => wrote <= Cap
    BY <1>1 DEF ClassifyRun, StreamInv
  <2>4. CompletedIsClean'
    BY <2>1, <2>2, <2>3 DEF CompletedIsClean, CleanRun
  <2>5. Platform = "ps" /\ group # {} => Classify(tableRead) = "policy_violation"
    BY DEF Classify, OrphanSeen
  <2> QED BY <2>1, <2>4, <2>5 DEF OrphanIsViolation
<1>2. CASE outcome' = [NoOutcome EXCEPT !.status = "resource_limit"] \/ outcome' = NoOutcome
  BY <1>2, UnmadeOutcome, Zenon DEF CompletedIsClean, OrphanIsViolation
<1>3. CASE UNCHANGED outcome
  BY <1>3 DEF CompletedIsClean, OrphanIsViolation
<1> QED BY <1>1, <1>2, <1>3, OutcomeStep

\* The harness judges last, and matches no run that left a receipt.
LEMMA JudgedStep ==
    ASSUME TypeControl, JudgeInv, [Next]_vars
    PROVE  JudgeInv'
<1>1. CASE JudgeStep
  <2>1. PICK expected \in Expectations, control \in BOOLEAN : JudgeCase(expected, control)
    BY <1>1 DEF JudgeStep
  <2>2. pc' = "done" /\ outcome' = outcome
    BY <2>1 DEF JudgeCase
  <2>3. judged' = "matched" => Matches(expected, control, outcome) /\ ~control
    BY <2>1 DEF JudgeCase
  <2>4. Matches(expected, control, outcome) /\ ~control => ~outcome.receipt
    BY DEF Matches, Expectations
  <2> QED BY <2>2, <2>3, <2>4 DEF JudgeInv, MatchedLeavesNoReceipt
<1>2. CASE judged' = "none"
  BY <1>2 DEF JudgeInv, MatchedLeavesNoReceipt
<1>3. CASE judged' = judged /\ pc # "done"
  BY <1>2, <1>3 DEF JudgeInv
<1>4. CASE Renew \/ AdmitStep
  BY <1>2, <1>4 DEF Renew, NextRun, Restart, FreshRun, AdmitStep, AdmitRun
<1>5. CASE (\E doc \in PolicyDocs : LoadPolicy(doc)) \/ StageStep \/ SpawnStep
  BY <1>3, <1>5 DEF LoadPolicy, StageStep, BeginStaging, FinishStaging, StageInput, SpawnStep, Spawn
<1>6. CASE ClassifyStep \/ SealStep \/ Crash
  BY <1>3, <1>6 DEF ClassifyStep, ClassifyRun, SealStep, SealOutput, SealEngine,
                    IngestRefused, OpenReceipt, FillReceipt, Crash
<1>7. CASE UNCHANGED <<pc, judged, outcome>>
  BY <1>7 DEF JudgeInv, MatchedLeavesNoReceipt
<1>8. CASE ChildStep
  BY <1>7, <1>8, ChildApart DEF supervisor
<1>9. CASE WatchStep
  BY <1>3, <1>9 DEF WatchStep, WaitReturns, WallExpires, KillAfterGrace, JoinReader, Terminate
<1>10. CASE (\E d \in Inputs : Rot(d)) \/ UNCHANGED vars
  BY <1>7, <1>10 DEF Rot, vars
<1> QED BY <1>1, <1>4, <1>5, <1>6, <1>8, <1>9, <1>10, Steps
-----------------------------------------------------------------------------
\* The evidence of the run at hand.
Engine == [run |-> run.number, kind |-> "engine"]
Output == [run |-> run.number, kind |-> "output"]

EvidenceInv == TypeEvidence /\ SealInv /\ ReceiptCoversEvidence /\ TornOnlyByCrash

\* Steps that neither publish nor write a receipt.
LEMMA EvidenceFrame ==
    ASSUME TypeControl, EvidenceInv, UNCHANGED proofs,
           run'.number = run.number, crashes' >= crashes, crashes' \in Nat,
           pc' = "writing" => pc = "writing",
           pc = "writing" => pc' = "writing" \/ (crashes' > 0 /\ pc' \notin Started),
           pc' = "evidenced" => pc = "evidenced",
           pc' \in Started => pc \in Started,
           pc' \in Started \ Sealed => pc \in Started \ Sealed,
           pc' \in Sealed \cup {"classified"} => outcome'.status # "none"
    PROVE  EvidenceInv'
<1>1. TypeEvidence'
  BY DEF EvidenceInv, TypeEvidence, proofs
<1>2. SealInv'
  <2>1. /\ pc \in Started => run.number > 0
        /\ \A e \in published : /\ e.run <= run.number
                                /\ pc \in Started \ Sealed => e.run < run.number
        /\ \A r \in receipts : /\ r.run <= run.number
                               /\ pc \in Started \ {"writing"} => r.run < run.number
        /\ pc \in {"evidenced", "writing"} => Engine \in published
    BY DEF EvidenceInv, SealInv, Engine
  <2>2. pc' \in Started \ {"writing"} => pc \in Started \ {"writing"} \/ pc = "writing"
    OBVIOUS
  <2>3. pc = "writing" => pc' = "writing" \/ pc' \notin Started
    OBVIOUS
  <2> QED BY <2>1, <2>2, <2>3 DEF SealInv, Engine, proofs
<1>3. ReceiptCoversEvidence'
  BY DEF EvidenceInv, ReceiptCoversEvidence, proofs
<1>4. TornOnlyByCrash'
  BY DEF EvidenceInv, TornOnlyByCrash, proofs, TypeControl
<1> QED BY <1>1, <1>2, <1>3, <1>4 DEF EvidenceInv

\* Sealing the output keeps the evidence in order.
LEMMA OutputSealed == ASSUME TypeControl, EvidenceInv, SealOutput PROVE EvidenceInv'
<1>1. /\ pc = "classified" /\ pc' \in {"aborted", "sealing"} /\ UNCHANGED <<run, crashes, receipts, outcome>>
      /\ published' = published \/ published' = published \cup {Output}
  BY DEF SealOutput, Output
<1>2. run.number \in 1..MaxRuns /\ MaxRuns \in Nat
  BY <1>1, ExecutionAssumption DEF TypeControl, EvidenceInv, SealInv, Started, Staged
<1>3. Output \in [run : 1..MaxRuns, kind : {"output", "engine"}]
  BY <1>2 DEF Output
<1>4. published \subseteq published'
  BY <1>1
<1>5. TypeEvidence'
  BY <1>1, <1>3, <1>4 DEF EvidenceInv, TypeEvidence
<1>6. \A r \in receipts : r.run < run.number /\ r.run \in Nat
  BY <1>1 DEF EvidenceInv, SealInv, TypeEvidence, Started, Staged
<1>7. Output.run = run.number /\ Output.kind = "output"
  BY DEF Output
<1>8. SealInv'
  BY <1>1, <1>2, <1>6, <1>7 DEF EvidenceInv, SealInv, Started, Staged, Sealed, Polled
<1>9. ReceiptCoversEvidence'
  <2> SUFFICES ASSUME NEW r \in receipts
               PROVE  /\ [run |-> r.run, kind |-> "engine"] \in published'
                      /\ r.outputs \subseteq published'
                      /\ [run |-> r.run, kind |-> "output"] \in published' => r.outputs # {}
    BY <1>1 DEF ReceiptCoversEvidence
  <2>1. [run |-> r.run, kind |-> "output"] # Output
    BY <1>2, <1>6 DEF Output
  <2> QED BY <1>1, <1>4, <2>1 DEF EvidenceInv, ReceiptCoversEvidence
<1>10. TornOnlyByCrash'
  BY <1>1 DEF EvidenceInv, TornOnlyByCrash
<1> QED BY <1>5, <1>8, <1>9, <1>10 DEF EvidenceInv

\* Sealing the engine receipt keeps the evidence in order.
LEMMA EngineSealed == ASSUME TypeControl, EvidenceInv, SealEngine PROVE EvidenceInv'
<1>1. /\ pc = "sealing" /\ pc' = "evidenced" /\ UNCHANGED <<run, crashes, receipts, outcome>>
      /\ published' = published \cup {Engine}
  BY DEF SealEngine, Engine
<1>2. run.number \in 1..MaxRuns /\ MaxRuns \in Nat
  BY <1>1, ExecutionAssumption DEF TypeControl, EvidenceInv, SealInv, Started, Staged
<1>3. Engine \in [run : 1..MaxRuns, kind : {"output", "engine"}]
  BY <1>2 DEF Engine
<1>5. TypeEvidence'
  BY <1>1, <1>3 DEF EvidenceInv, TypeEvidence
<1>6. \A r \in receipts : r.run < run.number /\ r.run \in Nat
  BY <1>1 DEF EvidenceInv, SealInv, TypeEvidence, Started, Staged
<1>7. Engine.run = run.number /\ Engine.kind = "engine"
  BY DEF Engine
<1>8. SealInv'
  BY <1>1, <1>2, <1>6, <1>7 DEF EvidenceInv, SealInv, Started, Staged, Sealed, Polled, Engine
<1>9. ReceiptCoversEvidence'
  <2>1. \A n : [run |-> n, kind |-> "output"] # Engine
    BY DEF Engine
  <2> QED BY <1>1, <2>1 DEF EvidenceInv, ReceiptCoversEvidence
<1>10. TornOnlyByCrash'
  BY <1>1 DEF EvidenceInv, TornOnlyByCrash
<1> QED BY <1>5, <1>8, <1>9, <1>10 DEF EvidenceInv

\* Opening the run receipt keeps the evidence in order.
LEMMA ReceiptOpened == ASSUME TypeControl, TypeOutcome, EvidenceInv, OpenReceipt PROVE EvidenceInv'
<1> DEFINE new == [run |-> run.number, status |-> outcome.status, outputs |-> SealedOutputs,
                   whole |-> FALSE]
<1>1. /\ pc = "evidenced" /\ pc' = "writing" /\ UNCHANGED <<run, crashes, published, outcome>>
      /\ receipts' = receipts \cup {new}
  BY DEF OpenReceipt
<1>2. run.number \in 1..MaxRuns /\ MaxRuns \in Nat /\ outcome.status \in Statuses
  BY <1>1, ExecutionAssumption DEF TypeControl, TypeOutcome, EvidenceInv, SealInv, Started, Staged, Sealed
<1>3. SealedOutputs \in SUBSET published /\ FALSE \in BOOLEAN
  BY DEF SealedOutputs
<1>4. new.run = run.number /\ new.outputs = SealedOutputs /\ ~new.whole
  BY Zenon
<1>5. new \in [run : 1..MaxRuns, status : Statuses, outputs : SUBSET published, whole : BOOLEAN]
  BY <1>2, <1>3, Zenon
<1> HIDE DEF new
<1>6. TypeEvidence'
  BY <1>1, <1>5 DEF EvidenceInv, TypeEvidence
<1>7. SealInv'
  BY <1>1, <1>2, <1>4 DEF EvidenceInv, SealInv, Started, Staged, Sealed, Polled
<1>8. ReceiptCoversEvidence'
  <2>1. [run |-> new.run, kind |-> "engine"] \in published
    BY <1>1, <1>4 DEF EvidenceInv, SealInv
  <2>2. [run |-> new.run, kind |-> "output"] \in published => new.outputs # {}
    BY <1>4 DEF SealedOutputs
  <2>3. new.outputs \subseteq published
    BY <1>3, <1>4
  <2> QED BY <1>1, <2>1, <2>2, <2>3 DEF EvidenceInv, ReceiptCoversEvidence
<1>9. TornOnlyByCrash'
  BY <1>1, <1>4 DEF EvidenceInv, TornOnlyByCrash
<1> QED BY <1>6, <1>7, <1>8, <1>9 DEF EvidenceInv

\* Filling the run receipt keeps the evidence in order.
LEMMA ReceiptFilled == ASSUME TypeControl, EvidenceInv, FillReceipt PROVE EvidenceInv'
<1>1. /\ pc = "writing" /\ pc' = "done" /\ UNCHANGED <<run, crashes, published, outcome>>
      /\ receipts' = {IF r.run = run.number THEN [r EXCEPT !.whole = TRUE] ELSE r : r \in receipts}
  BY DEF FillReceipt
<1>2. ASSUME NEW r \in receipts
      PROVE  /\ [r EXCEPT !.whole = TRUE].whole
             /\ [r EXCEPT !.whole = TRUE].run = r.run
             /\ [r EXCEPT !.whole = TRUE].outputs = r.outputs
             /\ [r EXCEPT !.whole = TRUE]
                  \in [run : 1..MaxRuns, status : Statuses, outputs : SUBSET published, whole : BOOLEAN]
  BY DEF EvidenceInv, TypeEvidence
<1>3. ASSUME NEW s \in receipts'
      PROVE  \E r \in receipts :
               /\ s.run = r.run /\ s.outputs = r.outputs
               /\ s.run = run.number => s.whole
               /\ s.run # run.number => s = r
               /\ s \in [run : 1..MaxRuns, status : Statuses, outputs : SUBSET published, whole : BOOLEAN]
  <2>1. PICK r \in receipts : s = IF r.run = run.number THEN [r EXCEPT !.whole = TRUE] ELSE r
    BY <1>1
  <2>2. r \in [run : 1..MaxRuns, status : Statuses, outputs : SUBSET published, whole : BOOLEAN]
    BY DEF EvidenceInv, TypeEvidence
  <2> QED BY <1>2, <2>1, <2>2
<1>4. TypeEvidence'
  BY <1>1, <1>3 DEF EvidenceInv, TypeEvidence
<1>5. SealInv'
  BY <1>1, <1>3 DEF EvidenceInv, SealInv, Started, Staged, Sealed, Polled
<1>6. ReceiptCoversEvidence'
  <2> SUFFICES ASSUME NEW s \in receipts'
               PROVE  /\ [run |-> s.run, kind |-> "engine"] \in published
                      /\ s.outputs \subseteq published
                      /\ [run |-> s.run, kind |-> "output"] \in published => s.outputs # {}
    BY <1>1 DEF ReceiptCoversEvidence
  <2>1. PICK r \in receipts : s.run = r.run /\ s.outputs = r.outputs
    BY <1>3
  <2> QED BY <2>1 DEF EvidenceInv, ReceiptCoversEvidence
<1>7. TornOnlyByCrash'
  BY <1>1, <1>3 DEF EvidenceInv, TornOnlyByCrash
<1> QED BY <1>4, <1>5, <1>6, <1>7 DEF EvidenceInv

\* Every step keeps the evidence in order.
LEMMA EvidenceStep ==
    ASSUME TypeControl, TypeChild, TypeOutcome, EvidenceInv, [Next]_vars
    PROVE  EvidenceInv'
<1> DEFINE Frame == /\ UNCHANGED proofs
                    /\ run'.number = run.number /\ crashes' >= crashes /\ crashes' \in Nat
                    /\ pc' = "writing" => pc = "writing"
                    /\ pc = "writing" => pc' = "writing" \/ (crashes' > 0 /\ pc' \notin Started)
                    /\ pc' = "evidenced" => pc = "evidenced"
                    /\ pc' \in Started => pc \in Started
                    /\ pc' \in Started \ Sealed => pc \in Started \ Sealed
                    /\ pc' \in Sealed \cup {"classified"} => outcome'.status # "none"
<1>1. CASE Frame
  BY <1>1, EvidenceFrame
<1>2. /\ crashes \in Nat /\ run.number \in Nat /\ MaxRuns \in Nat
      /\ pc \in Sealed \cup {"classified"} => outcome.status # "none"
  BY ExecutionAssumption DEF TypeControl, EvidenceInv, SealInv
<1>3. CASE (\E doc \in PolicyDocs : LoadPolicy(doc)) \/ StageStep
  BY <1>1, <1>2, <1>3 DEF LoadPolicy, StageStep, BeginStaging, FinishStaging, StageInput,
                          Started, Staged, Sealed, Polled
<1>4. CASE SpawnStep
  <2>1. run'.number = run.number
    BY <1>4 DEF SpawnStep, Spawn, TypeControl
  <2>2. pc' = "classified" => outcome' = [NoOutcome EXCEPT !.status = "resource_limit"]
    BY <1>4 DEF SpawnStep, Spawn
  <2>3. pc' = "classified" => outcome'.status # "none"
    BY <2>2, UnmadeOutcome, Zenon
  <2>4. UNCHANGED <<proofs, crashes>> /\ pc = "ready" /\ pc' \in {"aborted", "classified", "waiting"}
    BY <1>4 DEF SpawnStep, Spawn
  <2> QED BY <1>1, <1>2, <2>1, <2>3, <2>4 DEF Started, Staged, Sealed, Polled
<1>5. CASE ChildStep
  BY <1>1, <1>2, <1>5, ChildApart DEF supervisor
<1>6. CASE WatchStep
  <2>1. UNCHANGED <<run, crashes, proofs>>
    BY <1>6, WatchFrame
  <2>2. pc \in Polled /\ pc' \in Polled \cup {"drained"}
    BY <1>6 DEF WatchStep, WaitReturns, WallExpires, KillAfterGrace, JoinReader, Terminate, Polled
  <2> QED BY <1>1, <1>2, <2>1, <2>2 DEF Started, Staged, Sealed, Polled
<1>7. CASE ClassifyStep
  <2>1. PICK tableRead \in BOOLEAN : ClassifyRun(tableRead)
    BY <1>7 DEF ClassifyStep
  <2>2. outcome'.status = Classify(tableRead)
    BY <2>1, Zenon DEF ClassifyRun
  <2>3. Classify(tableRead) # "none"
    BY DEF Classify
  <2>4. UNCHANGED <<run, crashes, proofs>> /\ pc = "drained" /\ pc' = "classified"
    BY <2>1 DEF ClassifyRun
  <2> QED BY <1>1, <1>2, <2>2, <2>3, <2>4 DEF Started, Staged, Sealed, Polled
<1>8. CASE JudgeStep \/ IngestRefused
  <2>1. /\ UNCHANGED <<run, crashes, proofs>> /\ pc' \in {"done", "aborted"}
        /\ pc \in {"classified", "sealing"}
    BY <1>8 DEF JudgeStep, JudgeCase, IngestRefused
  <2> QED BY <1>1, <1>2, <2>1 DEF Started, Staged, Sealed, Polled
<1>9. CASE Renew
  <2>1. UNCHANGED <<run, crashes, proofs>> /\ pc' = "idle" /\ pc # "writing"
    BY <1>9 DEF Renew, NextRun, Restart, FreshRun
  <2> QED BY <1>1, <1>2, <2>1 DEF Started, Staged, Sealed, Polled
<1>10. CASE Crash
  <2>1. UNCHANGED <<run, proofs>> /\ pc' = "down" /\ crashes' = crashes + 1
    BY <1>10 DEF Crash
  <2> QED BY <1>1, <1>2, <2>1 DEF Started, Staged, Sealed, Polled
<1>11. CASE (\E d \in Inputs : Rot(d)) \/ UNCHANGED vars
  BY <1>1, <1>2, <1>11 DEF Rot, vars, proofs
<1>12. CASE AdmitStep
  <2>1. /\ run'.number = run.number + 1 /\ UNCHANGED <<crashes, proofs>>
        /\ pc = "idle" /\ pc' \in {"admitted", "wait"}
    BY <1>12 DEF AdmitStep, AdmitRun
  <2>2. TypeEvidence' /\ ReceiptCoversEvidence'
    BY <2>1 DEF EvidenceInv, TypeEvidence, ReceiptCoversEvidence, proofs
  <2>3. TornOnlyByCrash'
    BY <2>1 DEF EvidenceInv, TornOnlyByCrash, proofs
  <2>4. \A x \in published \cup receipts : x.run \in Nat /\ x.run <= run.number
    BY <1>2 DEF EvidenceInv, TypeEvidence, SealInv
  <2>5. SealInv'
    BY <1>2, <2>1, <2>4 DEF SealInv, Started, Staged, Sealed, Polled, proofs
  <2> QED BY <2>2, <2>3, <2>5 DEF EvidenceInv
<1>13. CASE SealOutput
  BY <1>13, OutputSealed
<1>14. CASE SealEngine
  BY <1>14, EngineSealed
<1>15. CASE OpenReceipt
  BY <1>15, ReceiptOpened
<1>16. CASE FillReceipt
  BY <1>16, ReceiptFilled
<1> QED BY <1>3, <1>4, <1>5, <1>6, <1>7, <1>8, <1>9, <1>10, <1>11, <1>12, <1>13, <1>14, <1>15, <1>16,
           Steps DEF SealStep
-----------------------------------------------------------------------------
\* The initial states satisfy the inductive invariant.
LEMMA ExecutionStart == Init => ExecutionInv /\ OrphanIsViolation
<1> SUFFICES ASSUME Init PROVE ExecutionInv /\ OrphanIsViolation
  OBVIOUS
<1>1. /\ NoRun \in [number : 0..MaxRuns, adapter : Adapters, validator : Validators,
                    childGate : BOOLEAN, widened : BOOLEAN]
      /\ NoRun.number = 0 /\ ~NoRun.widened
  <2>1. 0 \in 0..MaxRuns /\ "echo.v1" \in Adapters /\ "none" \in Validators /\ FALSE \in BOOLEAN
    BY ExecutionAssumption DEF Adapters, Validators
  <2> QED BY <2>1, Zenon DEF NoRun
<1>2. TypeControl
  <2>1. (CHOOSE d \in PolicyDocs : TRUE) \in PolicyDocs
    BY ExecutionAssumption
  <2> QED BY <1>1, <2>1, ExecutionAssumption DEF Init, TypeControl
<1>3. TypeStaging
  BY DEF Init, TypeStaging
<1>4. TypeChild
  BY Zenon DEF Init, TypeChild
<1>5. TypeStream
  BY Bounds DEF Init, TypeStream
<1>6. TypeOutcome
  BY UnmadeOutcome, Zenon DEF Init, TypeOutcome, Outcomes
<1>7. TypeEvidence
  BY DEF Init, TypeEvidence
<1>8. TypeOK
  BY <1>2, <1>3, <1>4, <1>5, <1>6, <1>7, TypeParts
<1>9. PolicyInv /\ StageInv /\ GroupInv /\ StreamInv
  BY DEF Init, PolicyInv, StageInv, StagedIsDeclared, GroupInv, StreamInv, Polled, Staged
<1>10. JudgeInv /\ SealInv /\ ReceiptCoversEvidence /\ TornOnlyByCrash
  BY DEF Init, JudgeInv, MatchedLeavesNoReceipt, SealInv, ReceiptCoversEvidence, TornOnlyByCrash,
         Polled, Staged, Started, Sealed
<1>11. CompletedIsClean /\ OrphanIsViolation
  BY UnmadeOutcome, Zenon DEF Init, CompletedIsClean, OrphanIsViolation
<1>12. NeverWidened
  BY <1>1 DEF Init, NeverWidened
<1> QED BY <1>8, <1>9, <1>10, <1>11, <1>12 DEF ExecutionInv

\* Every step keeps the inductive invariant; with ps, no orphan goes unseen.
LEMMA ExecutionStep ==
    ASSUME ExecutionInv, [Next]_vars
    PROVE  ExecutionInv' /\ (Platform = "ps" /\ OrphanIsViolation => OrphanIsViolation')
<1>1. TypeControl /\ TypeStaging /\ TypeChild /\ TypeStream /\ TypeOutcome /\ TypeEvidence
  BY TypeParts DEF ExecutionInv
<1>2. EvidenceInv
  BY <1>1 DEF ExecutionInv, EvidenceInv
<1>3. EvidenceInv'
  BY <1>1, <1>2, EvidenceStep
<1>4. TypeControl' /\ TypeStaging' /\ TypeChild' /\ TypeStream' /\ TypeOutcome'
  BY <1>1, ControlStep, StagingStep, ChildTypesStep, OutcomeTypesStep
<1>5. TypeOK'
  BY <1>3, <1>4 DEF EvidenceInv, TypeOK, TypeControl, TypeStaging, TypeChild, TypeStream, TypeOutcome,
                    TypeEvidence
<1>6. PolicyInv' /\ NeverWidened'
  BY <1>1, PolicyStep DEF ExecutionInv
<1>7. StageInv' /\ GroupInv' /\ StreamInv' /\ JudgeInv'
  BY <1>1, StageStepInv, GroupStep, StreamStep, JudgedStep DEF ExecutionInv
<1>8. CompletedIsClean' /\ (Platform = "ps" /\ OrphanIsViolation => OrphanIsViolation')
  BY <1>1, EarnedStep DEF ExecutionInv
<1> QED BY <1>3, <1>5, <1>6, <1>7, <1>8 DEF ExecutionInv, EvidenceInv

\* The inductive invariant holds in every reachable state.
LEMMA ExecutionInductive == Spec => []ExecutionInv
<1>1. Init => ExecutionInv
  BY ExecutionStart
<1>2. ExecutionInv /\ [Next]_vars => ExecutionInv'
  BY ExecutionStep
<1> QED BY <1>1, <1>2, PTL DEF Spec

\* Every variable keeps its type: the counts of the stream stay within the pipe
\* and the cap, every receipt names a run, a status and outputs that are
\* published (execution/runner, sandbox, sealer).
THEOREM ExecutionTypeCorrect == Spec => []TypeOK
<1>1. ExecutionInv => TypeOK
  BY DEF ExecutionInv
<1> QED BY <1>1, ExecutionInductive, PTL

\* On every platform: a completed run ended by itself in time with no more output
\* than the cap; what is staged is what the run named, all of it before the child
\* starts; child and supervisor agree on the adapters; and no policy that can be
\* loaded lets a run in beyond the absolute caps (policy.admit, materialize,
\* runner._classify, sandbox._CappedReader).
THEOREM CompletedRunsAreClean ==
    Spec => [](/\ CompletedIsClean /\ StagedIsDeclared /\ SpawnedIsStaged
               /\ ChildSharesAllowlist /\ NeverWidened)
<1>1. StageInv => StagedIsDeclared /\ SpawnedIsStaged
  BY DEF StageInv, SpawnedIsStaged, Staged, Polled
<1>2. GroupInv => ChildSharesAllowlist
  BY DEF GroupInv, ChildSharesAllowlist
<1>3. ExecutionInv => /\ CompletedIsClean /\ StagedIsDeclared /\ SpawnedIsStaged
                      /\ ChildSharesAllowlist /\ NeverWidened
  BY <1>1, <1>2 DEF ExecutionInv
<1> QED BY <1>3, ExecutionInductive, PTL

\* Where the process table is read with ps, all of OutcomeEarned: also, a run that
\* left a member of its group alive is a policy violation (sandbox.verify_no_orphan).
\* Where /proc is read this last part is false, as the run execution_orphan shows.
THEOREM OutcomesAreEarned ==
    ASSUME Platform = "ps"
    PROVE  Spec => []OutcomeEarned
<1>1. Init => OrphanIsViolation
  BY ExecutionStart
<1>2. OrphanIsViolation /\ ExecutionInv /\ [Next]_vars => OrphanIsViolation'
  BY ExecutionStep
<1>3. Spec => []OrphanIsViolation
  BY <1>1, <1>2, ExecutionInductive, PTL DEF Spec
<1>4. (/\ OrphanIsViolation /\ TypeOK
       /\ CompletedIsClean /\ StagedIsDeclared /\ SpawnedIsStaged
       /\ ChildSharesAllowlist /\ NeverWidened) => OutcomeEarned
  BY DEF OutcomeEarned
<1> QED BY <1>3, <1>4, ExecutionTypeCorrect, CompletedRunsAreClean, PTL

\* Whenever the supervisor is killed, a run receipt speaks only of evidence that is
\* in the store, a torn receipt means a kill, and the harness accepts no run that
\* left a receipt (sealer.seal_run, adversarial._outcome_matches_expected).
THEOREM EvidenceIsSealed == Spec => []EvidenceSealed
<1>1. ExecutionInv => EvidenceSealed
  BY DEF ExecutionInv, EvidenceSealed, JudgeInv
<1> QED BY <1>1, ExecutionInductive, PTL
=============================================================================
