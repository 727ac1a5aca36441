------------------------------ MODULE Scheduler ------------------------------
(***************************************************************************)
(* The file-backed run scheduler (srl.runtime.scheduler).  Its state is    *)
(* four directories of JSON files named by request id; there is no lock.   *)
(* Workers call dispatch_next and recover_interrupted, clients call submit *)
(* and cancel_request, and every file-system call of theirs that the       *)
(* others can observe or fall between is an action.  A write is atomic     *)
(* (temporary file, fsync, rename, directory fsync).                       *)
(*                                                                         *)
(* An exception in the runner or the sealer unwinds the dispatch and has   *)
(* the effect of a kill: the locals are gone and the files stay.           *)
(***************************************************************************)
EXTENDS Integers, FiniteSets, FiniteSetsExt

CONSTANTS
    Workers, Clients,  \* the processes
    Requests,          \* request ids; a request is named once
    Prio,              \* Prio[r]: its priority
    Heavy,             \* the requests of the heavy pool
    MaxQueued,         \* max_queued
    Refusals,          \* the gates that may turn a request away, of Waits
    MayCancel,         \* clients call cancel_request
    MayResubmit,       \* clients submit an id that was submitted before
    Crashing,          \* the processes that may be killed
    MaxCrashes         \* bound: kills and runner exceptions in a behaviour

Waits == {"wait_pack_governance", "wait_remote_executor", "wait_local_disk"}

ASSUME SchedulerAssumption ==
    /\ Refusals \subseteq Waits
    /\ Workers \cap Clients = {} /\ Crashing \subseteq Workers \cup Clients
    /\ IsFiniteSet(Clients) /\ Clients # {}
    /\ IsFiniteSet(Requests) /\ Requests # {} /\ Heavy \subseteq Requests
    /\ Prio \in [Requests -> Int]
    /\ MaxQueued \in Nat /\ MaxCrashes \in Nat
    /\ MayCancel \in BOOLEAN /\ MayResubmit \in BOOLEAN

VARIABLES
    queued,    \* queued/<id>.json, a checkpoint
    running,   \* running/<id>.json, a checkpoint
    terminal,  \* terminal/<id>.json, a receipt
    cancel,    \* the ids with a cancel/<id>.json
    pc,        \* where each process is
    job,       \* its locals
    submitted, \* history: ids some client called submit with
    accepted,  \* history: ids whose submit returned a queued checkpoint
    runs,      \* history: how often the runner was started for an id
    crashes

files == <<queued, running, terminal, cancel>>
history == <<submitted, accepted, runs>>
vars == <<files, pc, job, history, crashes>>

Procs == Workers \cup Clients

\* generation, sequence, and whether input_digest is set
Checkpoint == [gen : Nat, seq : Nat, staged : BOOLEAN]
Statuses == Waits \cup {"completed", "failed", "cancelled", "wait_backpressure"}
Receipt == [gen : Nat, status : Statuses]

\* No file of that name.
NoCheckpoint == [gen |-> 0, seq |-> 0, staged |-> FALSE]
NoReceipt == [gen |-> 0, status |-> "failed"]
Files(dir) == {r \in Requests : dir[r].gen # 0}

\* The locals: the request, its checkpoint as read or to be written, the receipt
\* to be written, what recovery listed, and the step after the receipt.
Locals == [req : Requests, ckpt : Checkpoint, receipt : Receipt,
           todo : SUBSET Requests, snapshot : SUBSET Requests,
           after : {"idle", "unlink_running", "rec_unlink"}]
Steps == {"idle", "choose", "claim", "mark", "gates", "ingest", "checkpoint", "spawn",
          "run", "term_check", "term_write", "unlink_running", "unlink_cancel",
          "rec_next", "rec_decide", "rec_requeue", "rec_unlink",
          "sub_queued", "sub_running", "sub_count", "sub_write",
          "can_queued", "can_unlink", "can_running", "can_mark"}

Fresh == [req |-> CHOOSE r \in Requests : TRUE, ckpt |-> NoCheckpoint, receipt |-> NoReceipt,
          todo |-> {}, snapshot |-> {}, after |-> "idle"]

Req(p) == job[p].req
Goto(p, step) == pc' = [pc EXCEPT ![p] = step]
\* The call is over: it returned or raised.
Done(p) == Goto(p, "idle") /\ job' = [job EXCEPT ![p] = Fresh]

\* Wrong variant: the next number is the length of the queue plus one.
NextSequenceByLength(rs) == 1 + Cardinality(rs)

\* _next_sequence over the checkpoints of the requests rs.
NextSequence(rs) == 1 + Max({0} \cup {queued[r].seq : r \in rs})

\* Hand a receipt to _write_terminal_once.
Terminate(p, status, gen, after) ==
    /\ job' = [job EXCEPT ![p].receipt = [gen |-> gen, status |-> status],
                          ![p].after = after]
    /\ Goto(p, "term_check")

Init ==
    /\ queued = [r \in Requests |-> NoCheckpoint]
    /\ running = [r \in Requests |-> NoCheckpoint]
    /\ terminal = [r \in Requests |-> NoReceipt]
    /\ cancel = {}
    /\ pc = [p \in Procs |-> "idle"]
    /\ job = [p \in Procs |-> Fresh]
    /\ submitted = {}
    /\ accepted = {}
    /\ runs = [r \in Requests |-> 0]
    /\ crashes = 0
-----------------------------------------------------------------------------
(* Wrong variants of the actions below, each a bug the properties must catch. *)

\* A dispatch starts although a checkpoint is in running/.
StartDispatchAlways(w) ==
    /\ pc[w] = "idle"
    /\ Goto(w, "choose")
    /\ UNCHANGED <<files, job, history, crashes>>

\* The queued file is deleted first and the running file written afterwards.
ClaimByDelete(w) ==
    /\ pc[w] = "claim"
    /\ queued' = [queued EXCEPT ![Req(w)] = NoCheckpoint]
    /\ Goto(w, "mark")
    /\ UNCHANGED <<running, terminal, cancel, job, history, crashes>>

\* Recovery does not look for a terminal receipt.
RecDecideNoTerminal(w) ==
    LET r == Req(w) IN
    /\ pc[w] = "rec_decide"
    /\ r \in Files(running)
    /\ job' = [job EXCEPT ![w].ckpt = [gen |-> running[r].gen + 1,
                                       seq |-> NextSequence(job[w].snapshot),
                                       staged |-> running[r].staged]]
    /\ Goto(w, "rec_requeue")
    /\ UNCHANGED <<files, history, crashes>>

\* Cancelling a queued request only deletes it.
CanUnlinkOnly(c) ==
    /\ pc[c] = "can_unlink"
    /\ queued' = [queued EXCEPT ![Req(c)] = NoCheckpoint]
    /\ Done(c)
    /\ UNCHANGED <<running, terminal, cancel, history, crashes>>
-----------------------------------------------------------------------------
(* dispatch_next *)

\* One request at a time: with a checkpoint in running/ the call returns None.
StartDispatch(w) ==
    /\ pc[w] = "idle"
    /\ Files(running) = {}
    /\ Goto(w, "choose")
    /\ UNCHANGED <<files, job, history, crashes>>

\* _queue_sort_key, the smallest key first; ties in the order of the file names.
EffectivePriority(r, latest) == Prio[r] + latest - queued[r].seq
PoolRank(r) == IF r \in Heavy THEN 1 ELSE 0
Before(r, s, latest) ==
    LET e == EffectivePriority(r, latest)
        f == EffectivePriority(s, latest)
    IN  \/ e > f
        \/ e = f /\ PoolRank(r) < PoolRank(s)
        \/ e = f /\ PoolRank(r) = PoolRank(s) /\ queued[r].seq <= queued[s].seq
NextQueued ==
    LET latest == Max({queued[r].seq : r \in Files(queued)})
    IN  {r \in Files(queued) : \A s \in Files(queued) : Before(r, s, latest)}

Choose(w) ==
    /\ pc[w] = "choose"
    /\ \/ Files(queued) = {} /\ Done(w)
       \/ \E r \in NextQueued :
            /\ job' = [job EXCEPT ![w].req = r, ![w].ckpt = queued[r]]
            /\ Goto(w, "claim")
    /\ UNCHANGED <<files, history, crashes>>

\* os.replace(queued, running): it moves whatever is there, and raises when the
\* request has been cancelled meanwhile.
Claim(w) ==
    LET r == Req(w) IN
    /\ pc[w] = "claim"
    /\ \/ /\ r \in Files(queued)
          /\ running' = [running EXCEPT ![r] = queued[r]]
          /\ queued' = [queued EXCEPT ![r] = NoCheckpoint]
          /\ Goto(w, "mark") /\ UNCHANGED job
       \/ r \notin Files(queued) /\ Done(w) /\ UNCHANGED <<queued, running>>
    /\ UNCHANGED <<terminal, cancel, history, crashes>>

\* Write the running checkpoint of the next generation.
Mark(w) ==
    LET next == [job[w].ckpt EXCEPT !.gen = @ + 1] IN
    /\ pc[w] = "mark"
    /\ running' = [running EXCEPT ![Req(w)] = next]
    /\ job' = [job EXCEPT ![w].ckpt = next]
    /\ Goto(w, "gates")
    /\ UNCHANGED <<queued, terminal, cancel, history, crashes>>

\* A cancel marker, pack governance, admission and free disk, in this order.
Gates(w) ==
    LET gen == job[w].ckpt.gen + 1 IN
    /\ pc[w] = "gates"
    /\ \/ Req(w) \in cancel /\ Terminate(w, "cancelled", gen, "unlink_running")
       \/ /\ Req(w) \notin cancel
          /\ \/ \E s \in Refusals : Terminate(w, s, gen, "unlink_running")
             \/ Goto(w, "ingest") /\ UNCHANGED job
    /\ UNCHANGED <<files, history, crashes>>

\* Put the input into the CAS, unless the checkpoint carries its digest.
Ingest(w) ==
    /\ pc[w] = "ingest"
    /\ job' = [job EXCEPT ![w].ckpt.staged = TRUE]
    /\ Goto(w, "checkpoint")
    /\ UNCHANGED <<files, history, crashes>>

\* Persist the digest; the generation grows once more on disk only.
PersistInput(w) ==
    /\ pc[w] = "checkpoint"
    /\ running' = [running EXCEPT ![Req(w)] = [job[w].ckpt EXCEPT !.gen = @ + 1]]
    /\ Goto(w, "spawn")
    /\ UNCHANGED <<queued, terminal, cancel, job, history, crashes>>

\* Materialize the run and start the runner.
Spawn(w) ==
    /\ pc[w] = "spawn"
    /\ runs' = [runs EXCEPT ![Req(w)] = @ + 1]
    /\ Goto(w, "run")
    /\ UNCHANGED <<files, job, submitted, accepted, crashes>>

\* The runner returned and its outcome is sealed.
Seal(w) ==
    /\ pc[w] = "run"
    /\ \E s \in {"completed", "failed"} :
         Terminate(w, s, job[w].ckpt.gen + 2, "unlink_running")
    /\ UNCHANGED <<files, history, crashes>>

UnlinkRunning(w) ==
    /\ pc[w] = "unlink_running"
    /\ running' = [running EXCEPT ![Req(w)] = NoCheckpoint]
    /\ Goto(w, "unlink_cancel")
    /\ UNCHANGED <<queued, terminal, cancel, job, history, crashes>>

UnlinkCancel(w) ==
    /\ pc[w] = "unlink_cancel"
    /\ cancel' = cancel \ {Req(w)}
    /\ Done(w)
    /\ UNCHANGED <<queued, running, terminal, history, crashes>>
-----------------------------------------------------------------------------
(* _write_terminal_once, of every process: look, then write. *)

TermCheck(p) ==
    /\ pc[p] = "term_check"
    /\ \/ /\ Req(p) \notin Files(terminal)
          /\ Goto(p, "term_write") /\ UNCHANGED job
       \/ /\ Req(p) \in Files(terminal)
          /\ IF p \in Clients THEN Done(p) ELSE Goto(p, job[p].after) /\ UNCHANGED job
    /\ UNCHANGED <<files, history, crashes>>

TermWrite(p) ==
    /\ pc[p] = "term_write"
    /\ terminal' = [terminal EXCEPT ![Req(p)] = job[p].receipt]
    /\ IF p \in Clients THEN Done(p) ELSE Goto(p, job[p].after) /\ UNCHANGED job
    /\ UNCHANGED <<queued, running, cancel, history, crashes>>
-----------------------------------------------------------------------------
(* recover_interrupted *)

\* List queued/ and running/.
StartRecover(w) ==
    /\ pc[w] = "idle"
    /\ Files(running) # {}
    /\ job' = [job EXCEPT ![w].todo = Files(running), ![w].snapshot = Files(queued)]
    /\ Goto(w, "rec_next")
    /\ UNCHANGED <<files, history, crashes>>

RecNext(w) ==
    /\ pc[w] = "rec_next"
    /\ \/ job[w].todo = {} /\ Done(w)
       \/ \E r \in job[w].todo :
            /\ job' = [job EXCEPT ![w].req = r, ![w].todo = @ \ {r}]
            /\ Goto(w, "rec_decide")
    /\ UNCHANGED <<files, history, crashes>>

\* Finished, cancelled or to be resumed.  A listed file that is gone raises.
RecDecide(w) ==
    LET r == Req(w) IN
    /\ pc[w] = "rec_decide"
    /\ \/ r \notin Files(running) /\ Done(w)
       \/ /\ r \in Files(running) /\ r \in Files(terminal)
          /\ Goto(w, "rec_unlink") /\ UNCHANGED job
       \/ /\ r \in Files(running) /\ r \notin Files(terminal) /\ r \in cancel
          /\ Terminate(w, "cancelled", running[r].gen + 1, "rec_unlink")
       \/ /\ r \in Files(running) /\ r \notin Files(terminal) /\ r \notin cancel
          /\ \/ ~(job[w].snapshot \subseteq Files(queued)) /\ Done(w)
             \/ /\ job[w].snapshot \subseteq Files(queued)
                /\ job' = [job EXCEPT ![w].ckpt =
                             [gen |-> running[r].gen + 1,
                              seq |-> NextSequence(job[w].snapshot),
                              staged |-> running[r].staged]]
                /\ Goto(w, "rec_requeue")
    /\ UNCHANGED <<files, history, crashes>>

\* Requeue first, unlink the running checkpoint next.
RecRequeue(w) ==
    /\ pc[w] = "rec_requeue"
    /\ queued' = [queued EXCEPT ![Req(w)] = job[w].ckpt]
    /\ job' = [job EXCEPT ![w].snapshot = @ \cup {Req(w)}]
    /\ Goto(w, "rec_unlink")
    /\ UNCHANGED <<running, terminal, cancel, history, crashes>>

RecUnlink(w) ==
    /\ pc[w] = "rec_unlink"
    /\ \/ Req(w) \notin Files(running) /\ Done(w) /\ UNCHANGED running
       \/ /\ Req(w) \in Files(running)
          /\ running' = [running EXCEPT ![Req(w)] = NoCheckpoint]
          /\ Goto(w, "rec_next") /\ UNCHANGED job
    /\ UNCHANGED <<queued, terminal, cancel, history, crashes>>
-----------------------------------------------------------------------------
(* submit *)

\* With a terminal receipt the call returns it and changes nothing.
StartSubmit(c) ==
    /\ pc[c] = "idle"
    /\ \E r \in Requests \ Files(terminal) :
         /\ MayResubmit \/ r \notin submitted
         /\ job' = [job EXCEPT ![c].req = r]
         /\ submitted' = submitted \cup {r}
    /\ Goto(c, "sub_queued")
    /\ UNCHANGED <<files, accepted, runs, crashes>>

SubQueued(c) ==
    /\ pc[c] = "sub_queued"
    /\ \/ Req(c) \in Files(queued) /\ Done(c)
       \/ Req(c) \notin Files(queued) /\ Goto(c, "sub_running") /\ UNCHANGED job
    /\ UNCHANGED <<files, history, crashes>>

SubRunning(c) ==
    /\ pc[c] = "sub_running"
    /\ \/ Req(c) \in Files(running) /\ Done(c)
       \/ Req(c) \notin Files(running) /\ Goto(c, "sub_count") /\ UNCHANGED job
    /\ UNCHANGED <<files, history, crashes>>

\* Backpressure, or a checkpoint with the next sequence number.
SubCount(c) ==
    /\ pc[c] = "sub_count"
    /\ \/ /\ Cardinality(Files(queued)) >= MaxQueued
          /\ Terminate(c, "wait_backpressure", 1, "idle")
       \/ /\ Cardinality(Files(queued)) < MaxQueued
          /\ job' = [job EXCEPT ![c].ckpt = [gen |-> 1, seq |-> NextSequence(Files(queued)),
                                             staged |-> FALSE]]
          /\ Goto(c, "sub_write")
    /\ UNCHANGED <<files, history, crashes>>

SubWrite(c) ==
    /\ pc[c] = "sub_write"
    /\ queued' = [queued EXCEPT ![Req(c)] = job[c].ckpt]
    /\ accepted' = accepted \cup {Req(c)}
    /\ Done(c)
    /\ UNCHANGED <<running, terminal, cancel, submitted, runs, crashes>>
-----------------------------------------------------------------------------
(* cancel_request *)

StartCancel(c) ==
    /\ pc[c] = "idle"
    /\ MayCancel
    /\ \E r \in submitted : job' = [job EXCEPT ![c].req = r]
    /\ Goto(c, "can_queued")
    /\ UNCHANGED <<files, history, crashes>>

\* Is it queued?  Then read its generation.
CanQueued(c) ==
    LET r == Req(c) IN
    /\ pc[c] = "can_queued"
    /\ \/ /\ r \in Files(queued)
          /\ job' = [job EXCEPT ![c].ckpt = queued[r]]
          /\ Goto(c, "can_unlink")
       \/ r \notin Files(queued) /\ Goto(c, "can_running") /\ UNCHANGED job
    /\ UNCHANGED <<files, history, crashes>>

\* Delete it from the queue (raises when it is gone), then write the receipt.
CanUnlink(c) ==
    /\ pc[c] = "can_unlink"
    /\ \/ Req(c) \notin Files(queued) /\ Done(c) /\ UNCHANGED queued
       \/ /\ Req(c) \in Files(queued)
          /\ queued' = [queued EXCEPT ![Req(c)] = NoCheckpoint]
          /\ Terminate(c, "cancelled", job[c].ckpt.gen + 1, "idle")
    /\ UNCHANGED <<running, terminal, cancel, history, crashes>>

\* Is it running?  If not, the call returns its receipt or raises.
CanRunning(c) ==
    /\ pc[c] = "can_running"
    /\ \/ Req(c) \in Files(running) /\ Goto(c, "can_mark") /\ UNCHANGED job
       \/ Req(c) \notin Files(running) /\ Done(c)
    /\ UNCHANGED <<files, history, crashes>>

CanMark(c) ==
    /\ pc[c] = "can_mark"
    /\ cancel' = cancel \cup {Req(c)}
    /\ Done(c)
    /\ UNCHANGED <<queued, running, terminal, history, crashes>>
-----------------------------------------------------------------------------
\* The process is killed, or its runner raises.
Crash(p) ==
    /\ p \in Crashing /\ pc[p] # "idle"
    /\ crashes < MaxCrashes
    /\ crashes' = crashes + 1
    /\ Done(p)
    /\ UNCHANGED <<files, history>>

WorkerStep(w) ==
    \/ Choose(w) \/ Claim(w) \/ Mark(w) \/ Gates(w) \/ Ingest(w) \/ PersistInput(w)
    \/ Spawn(w) \/ Seal(w) \/ UnlinkRunning(w) \/ UnlinkCancel(w)
    \/ RecNext(w) \/ RecDecide(w) \/ RecRequeue(w) \/ RecUnlink(w)
    \/ TermCheck(w) \/ TermWrite(w)

ClientStep(c) ==
    \/ SubQueued(c) \/ SubRunning(c) \/ SubCount(c) \/ SubWrite(c)
    \/ CanQueued(c) \/ CanUnlink(c) \/ CanRunning(c) \/ CanMark(c)
    \/ TermCheck(c) \/ TermWrite(c)

Next ==
    \/ \E w \in Workers : StartDispatch(w) \/ StartRecover(w) \/ WorkerStep(w)
    \/ \E c \in Clients : StartSubmit(c) \/ StartCancel(c) \/ ClientStep(c)
    \/ \E p \in Procs : Crash(p)

Spec == Init /\ [][Next]_vars

\* A call that began goes on, and the callers keep dispatching and recovering.
FairSpec ==
    /\ Spec
    /\ \A w \in Workers : /\ WF_vars(WorkerStep(w))
                          /\ SF_vars(StartDispatch(w)) /\ SF_vars(StartRecover(w))
    /\ \A c \in Clients : WF_vars(ClientStep(c))
-----------------------------------------------------------------------------
(* Properties *)

\* Every variable has its type.
TypeOK ==
    /\ queued \in [Requests -> Checkpoint]
    /\ running \in [Requests -> Checkpoint]
    /\ terminal \in [Requests -> Receipt]
    /\ cancel \in SUBSET Requests
    /\ pc \in [Procs -> Steps]
    /\ job \in [Procs -> Locals]
    /\ submitted \in SUBSET Requests
    /\ accepted \in SUBSET submitted
    /\ runs \in [Requests -> Nat]
    /\ crashes \in 0..MaxCrashes

\* running/ holds one checkpoint at most, after any crash and recovery too.
OneRunning == Cardinality(Files(running)) <= 1

\* Backpressure: submits alone overfill the queue by one per further client that
\* raced past the check; only requests that recovery put back come on top.
QueueBound ==
    Cardinality({r \in Files(queued) : queued[r].gen = 1})
        <= MaxQueued + Cardinality(Clients) - 1

\* An accepted request is always somewhere: queued, running, finished, or in the
\* hands of a client that is cancelling it.
NoRequestLost ==
    \A r \in accepted :
        \/ r \in Files(queued) \cup Files(running) \cup Files(terminal)
        \/ \E c \in Clients : Req(c) = r /\ pc[c] \in {"term_check", "term_write"}

\* A receipt is the last word: no checkpoint on disk is of a later generation.
TerminalIsNewest ==
    \A r \in Files(terminal) :
        queued[r].gen < terminal[r].gen /\ running[r].gen < terminal[r].gen

\* Terminal receipts are written once and only once, and a request that has one
\* is never run again.
FinishedOnce ==
    [][\A r \in Files(terminal) : terminal'[r] = terminal[r] /\ runs'[r] = runs[r]]_vars

\* Through every kill and recovery the queue keeps what it accepted, within its
\* bound.
QueueSound == TypeOK /\ NoRequestLost /\ QueueBound

\* One run at a time, and nothing on disk that is newer than a receipt.
RunsSound == OneRunning /\ TerminalIsNewest

\* Every submitted request that was queued reaches a terminal receipt.
ReachesTerminal ==
    \A r \in Requests : r \in accepted ~> r \in Files(terminal)
=============================================================================
