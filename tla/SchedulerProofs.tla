--------------------------- MODULE SchedulerProofs ---------------------------
(***************************************************************************)
(* Proofs about the scheduler, for any number of clients, requests and     *)
(* kills.  TypeOK and the bound of the queue hold of every instance.  That *)
(* nothing accepted is lost needs one worker and clients that are not      *)
(* killed; that a receipt is the last word needs one worker, no            *)
(* cancellation and no second submit of an id.                             *)
(***************************************************************************)
EXTENDS SchedulerOrder, FiniteSetTheorems, WellFoundedInduction, TLAPS

OneWorker == \A v, w \in Workers : v = w
OneClient == \A b, c \in Clients : b = c
OnlyWorkersDie == Clients \cap Crashing = {}

Submitting == {"sub_queued", "sub_running", "sub_count", "sub_write"}
Cancelling == {"can_queued", "can_unlink", "can_running", "can_mark"}
Terminating == {"term_check", "term_write"}
InRun == {"gates", "ingest", "checkpoint", "spawn", "run", "unlink_running", "unlink_cancel"}
Dispatching == {"choose", "claim", "mark"} \cup InRun
Recovering == {"rec_next", "rec_decide", "rec_requeue", "rec_unlink"}

\* TypeOK with the steps each kind of process takes, and: what is about to be
\* written is a file, one of a later generation than a submit writes when
\* recovery writes it.
SchedulerTypes ==
    /\ TypeOK
    /\ \A w \in Workers : pc[w] \in {"idle"} \cup Dispatching \cup Recovering \cup Terminating
    /\ \A c \in Clients : pc[c] \in {"idle"} \cup Submitting \cup Cancelling \cup Terminating
    /\ \A c \in Clients : pc[c] # "idle" => Req(c) \in submitted
    /\ \A p \in Procs : /\ pc[p] = "sub_write" => job[p].ckpt.gen = 1
                        /\ pc[p] = "rec_requeue" => job[p].ckpt.gen > 1
                        /\ pc[p] \in Terminating => job[p].receipt.gen > 0

\* The submits that are past the check and not yet in the queue count too.
Writing == {c \in Clients : pc[c] = "sub_write"}
FirstTime == {r \in Files(queued) : queued[r].gen = 1}
BoundInv == Cardinality(FirstTime) + Cardinality(Writing)
              <= MaxQueued + Cardinality(Clients) - 1

\* Without its checkpoint in running/ the request is still somewhere.
Kept(r) ==
    \/ r \in Files(queued) \cup Files(terminal)
    \/ \E c \in Clients : Req(c) = r /\ pc[c] \in Terminating

\* The checkpoint a worker is about to remove is not the last trace of a request.
KeptInv ==
    /\ \A r \in accepted : Kept(r) \/ r \in Files(running)
    /\ \A w \in Workers : pc[w] \in {"unlink_running", "rec_unlink"} => Kept(Req(w))

\* running/ is what the worker is at.
RunningInv ==
    /\ \A r, s \in Files(running) : r = s
    /\ \A w \in Workers :
         /\ pc[w] \in {"choose", "claim"} => Files(running) = {}
         /\ pc[w] \in {"mark"} \cup InRun \cup Terminating => Files(running) \subseteq {Req(w)}

Untouched(r) == r \notin Files(queued) \cup Files(running) \cup Files(terminal)

\* A request belongs to the client that submits it until it is on disk, and to
\* the worker afterwards; once it has a receipt it is not queued again.
OwnerInv ==
    /\ cancel = {}
    /\ \A c \in Clients : pc[c] \notin Cancelling
    /\ \A c \in Clients : pc[c] # "idle" => Untouched(Req(c))
    /\ \A b, c \in Clients : pc[b] # "idle" /\ pc[c] # "idle" /\ Req(b) = Req(c) => b = c
    /\ \A r \in Requests \ submitted : Untouched(r)
ReceiptsLast ==
    \A r \in Files(terminal) : queued[r].gen = 0 /\ running[r].gen < terminal[r].gen
AtRequest(w) ==
    /\ pc[w] = "claim" => Req(w) \in Files(queued) /\ job[w].ckpt = queued[Req(w)]
    /\ pc[w] \in {"mark", "gates", "ingest", "checkpoint", "spawn", "run"} \cup Terminating =>
         Req(w) \in Files(running) /\ Req(w) \notin Files(queued) \cup Files(terminal)
    /\ pc[w] \in {"mark", "gates", "ingest", "checkpoint"} =>
         running[Req(w)].gen <= job[w].ckpt.gen
    /\ pc[w] \in {"spawn", "run"} => running[Req(w)].gen <= job[w].ckpt.gen + 1
    /\ pc[w] \in Terminating => running[Req(w)].gen < job[w].receipt.gen
    /\ pc[w] = "rec_requeue" => Req(w) \in Files(running) /\ Req(w) \notin Files(terminal)
OnceInv == ReceiptsLast /\ \A w \in Workers : AtRequest(w)

\* Among requests queued for the first time the number grows with the arrival.
ArrivalInv ==
    /\ seniority \in [Requests -> Nat]
    /\ \A r, s \in FirstTime : seniority[r] > seniority[s] => queued[r].seq < queued[s].seq
    /\ \A c \in Writing : \A r \in FirstTime : queued[r].seq < job[c].ckpt.seq
-----------------------------------------------------------------------------
(* Typing *)

\* Among finitely many checkpoints one has the largest number.
LEMMA LargestExists ==
    ASSUME NEW rs \in SUBSET Requests, rs # {}, NEW f \in [Requests -> Nat]
    PROVE  \E r \in rs : \A s \in rs : f[r] >= f[s]
<1> DEFINE Above(r) == {s \in rs : f[s] > f[r]}
           T == {Above(r) : r \in rs}
<1>1. IsFiniteSet(rs)
  BY FS_Subset, SchedulerAssumption
<1>2. IsWellFoundedOn(StrictSubsetOrdering(rs), SUBSET rs)
  BY <1>1, FS_StrictSubsetOrderingWellFounded, FS_FiniteSubsetsOfFinite
<1>3. T \subseteq SUBSET rs /\ T # {}
  <2>1. \A r \in rs : Above(r) \in SUBSET rs
    OBVIOUS
  <2> HIDE DEF Above
  <2> QED BY <2>1
<1>4. PICK A \in T : \A B \in T : ~(<<B, A>> \in StrictSubsetOrdering(rs))
  <2> HIDE DEF T
  <2> QED BY <1>2, <1>3, WFMin
<1>5. PICK r \in rs : A = Above(r)
  BY <1>4
<1>6. ASSUME NEW s \in rs, f[s] > f[r] PROVE FALSE
  <2>1. s \in Above(r) /\ s \notin Above(s) /\ Above(s) \subseteq Above(r)
    BY <1>6
  <2>2. <<Above(s), Above(r)>> \in StrictSubsetOrdering(rs)
    BY <2>1 DEF StrictSubsetOrdering
  <2> QED BY <1>4, <1>5, <2>2
<1> QED BY <1>6

\* The next sequence number exceeds every number it was taken over.
LEMMA NextSequenceIs ==
    ASSUME TypeOK, NEW rs \in SUBSET Requests
    PROVE  /\ NextSequence(rs) \in Nat
           /\ \A r \in rs : queued[r].seq < NextSequence(rs)
<1> DEFINE S == {0} \cup {queued[r].seq : r \in rs}
           f == [r \in Requests |-> queued[r].seq]
<1>1. f \in [Requests -> Nat] /\ \A r \in Requests : f[r] = queued[r].seq
  BY DEF TypeOK, Checkpoint
<1>2. \E x \in S : \A y \in S : x >= y
  <2>1. CASE rs = {}
    BY <2>1
  <2>2. CASE rs # {}
    <3>1. PICK r \in rs : \A s \in rs : f[r] >= f[s]
      <4> HIDE DEF f
      <4> QED BY <2>2, <1>1, LargestExists
    <3>2. f[r] \in S /\ \A y \in S : f[r] >= y
      BY <1>1, <3>1
    <3> QED BY <3>2
  <2> QED BY <2>1, <2>2
<1>3. Max(S) \in S /\ \A y \in S : Max(S) >= y
  BY <1>2 DEF Max
<1>4. S \subseteq Nat
  BY DEF TypeOK, Checkpoint
<1>5. NextSequence(rs) = 1 + Max(S)
  BY DEF NextSequence
<1> HIDE DEF f
<1>6. \A r \in rs : queued[r].seq \in S
  OBVIOUS
<1> HIDE DEF S
<1> QED BY <1>3, <1>4, <1>5, <1>6

\* What a step of one process has to show for the types to be kept: what it
\* writes, and what the process has in hand after it.
FilesTyped ==
    /\ queued' \in [Requests -> Checkpoint] /\ running' \in [Requests -> Checkpoint]
    /\ terminal' \in [Requests -> Receipt] /\ cancel' \subseteq Requests
    /\ submitted \subseteq submitted' /\ submitted' \subseteq Requests
    /\ accepted' \subseteq submitted'
    /\ runs' \in [Requests -> Nat] /\ crashes' \in 0..MaxCrashes
InHand(p, step, j) ==
    /\ step \in Steps /\ j \in Locals
    /\ p \in Workers => step \in {"idle"} \cup Dispatching \cup Recovering \cup Terminating
    /\ p \in Clients => step \in {"idle"} \cup Submitting \cup Cancelling \cup Terminating
    /\ p \in Clients /\ step # "idle" => j.req \in submitted'
    /\ step = "sub_write" => j.ckpt.gen = 1
    /\ step = "rec_requeue" => j.ckpt.gen > 1
    /\ step \in Terminating => j.receipt.gen > 0
Moves(p, step, j) == pc' = [pc EXCEPT ![p] = step] /\ job' = [job EXCEPT ![p] = j]

\* A typed move of one process keeps the types.
LEMMA TypesStep ==
    ASSUME SchedulerTypes, NEW p \in Procs, NEW step, NEW j,
           Moves(p, step, j), InHand(p, step, j), FilesTyped
    PROVE  SchedulerTypes'
<1>1. /\ job' \in [Procs -> Locals] /\ pc' \in [Procs -> Steps]
      /\ job'[p] = j /\ pc'[p] = step
      /\ \A q \in Procs : q # p => job'[q] = job[q] /\ pc'[q] = pc[q]
  BY DEF SchedulerTypes, TypeOK, Moves, InHand
<1>2. TypeOK'
  BY <1>1 DEF FilesTyped, TypeOK
<1>3. \A w \in Workers : pc'[w] \in {"idle"} \cup Dispatching \cup Recovering \cup Terminating
  BY <1>1 DEF SchedulerTypes, Procs, InHand
<1>4. \A c \in Clients : pc'[c] \in {"idle"} \cup Submitting \cup Cancelling \cup Terminating
  BY <1>1 DEF SchedulerTypes, Procs, InHand
<1>5. \A c \in Clients : pc'[c] # "idle" => job'[c].req \in submitted'
  BY <1>1 DEF SchedulerTypes, Procs, InHand, Req, FilesTyped
<1>6. \A q \in Procs : /\ pc'[q] = "sub_write" => job'[q].ckpt.gen = 1
                       /\ pc'[q] = "rec_requeue" => job'[q].ckpt.gen > 1
                       /\ pc'[q] \in Terminating => job'[q].receipt.gen > 0
  BY <1>1 DEF SchedulerTypes, InHand
<1> QED BY <1>2, <1>3, <1>4, <1>5, <1>6 DEF SchedulerTypes, Req

\* The facts about a process that SchedulerTypes gives.
LEMMA JobOf ==
    ASSUME SchedulerTypes, NEW p \in Procs
    PROVE  /\ job[p] \in Locals /\ job[p].req \in Requests
           /\ job[p].ckpt \in Checkpoint /\ job[p].receipt \in Receipt
           /\ job[p].todo \subseteq Requests /\ job[p].snapshot \subseteq Requests
           /\ job[p].after \in {"idle", "unlink_running", "rec_unlink"}
           /\ job[p].ckpt.gen \in Nat /\ job[p].ckpt.seq \in Nat
           /\ job[p].receipt.gen \in Nat
<1>1. job[p] \in Locals
  BY DEF SchedulerTypes, TypeOK
<1>2. job[p].ckpt \in Checkpoint /\ job[p].receipt \in Receipt
  BY <1>1 DEF Locals
<1> QED BY <1>1, <1>2 DEF Locals, Checkpoint, Receipt

\* The types of the files of one request.
LEMMA FileOf ==
    ASSUME SchedulerTypes, NEW r \in Requests
    PROVE  /\ queued[r] \in Checkpoint /\ running[r] \in Checkpoint /\ terminal[r] \in Receipt
           /\ queued[r].gen \in Nat /\ queued[r].seq \in Nat
           /\ running[r].gen \in Nat /\ running[r].seq \in Nat /\ terminal[r].gen \in Nat
           /\ running[r].staged \in BOOLEAN
<1>1. queued[r] \in Checkpoint /\ running[r] \in Checkpoint /\ terminal[r] \in Receipt
  BY DEF SchedulerTypes, TypeOK
<1> QED BY <1>1, Zenon DEF Checkpoint, Receipt

\* An absent file is typed, and so are the locals between calls.
LEMMA FreshTyped == NoCheckpoint \in Checkpoint /\ NoReceipt \in Receipt /\ Fresh \in Locals
<1>1. NoCheckpoint \in Checkpoint /\ NoReceipt \in Receipt
  BY DEF NoCheckpoint, NoReceipt, Checkpoint, Receipt, Statuses
<1>2. (CHOOSE r \in Requests : TRUE) \in Requests
  BY SchedulerAssumption
<1> QED BY <1>1, <1>2 DEF Fresh, Locals

\* Leaving the call keeps the types.
LEMMA DoneTypes ==
    ASSUME SchedulerTypes, NEW p \in Procs, Done(p), FilesTyped
    PROVE  SchedulerTypes'
<1>1. Moves(p, "idle", Fresh)
  BY DEF Done, Goto, Moves
<1>2. InHand(p, "idle", Fresh)
  BY FreshTyped DEF InHand, Steps, Dispatching, Recovering, Submitting, Cancelling, Terminating
<1> QED BY <1>1, <1>2, TypesStep

\* Moving on with the same locals keeps them if the step may be taken.
LEMMA GotoTypes ==
    ASSUME SchedulerTypes, NEW p \in Procs, NEW step, Goto(p, step), UNCHANGED job,
           InHand(p, step, job[p]), FilesTyped
    PROVE  SchedulerTypes'
<1>1. Moves(p, step, job[p])
  BY DEF Goto, Moves, SchedulerTypes, TypeOK
<1> QED BY <1>1, TypesStep

\* A receipt in hand.
LEMMA TerminateTypes ==
    ASSUME SchedulerTypes, NEW p \in Procs, NEW status \in Statuses, NEW gen \in Nat \ {0},
           NEW after \in {"idle", "unlink_running", "rec_unlink"},
           p \in Clients => job[p].req \in submitted,
           Terminate(p, status, gen, after), FilesTyped
    PROVE  SchedulerTypes'
<1> DEFINE rec == [gen |-> gen, status |-> status]
           j == [job[p] EXCEPT !.receipt = rec, !.after = after]
<1>1. rec \in Receipt /\ rec.gen = gen
  BY DEF Receipt
<1>2. Moves(p, "term_check", j)
  BY DEF Terminate, Goto, Moves, SchedulerTypes, TypeOK
<1> HIDE DEF rec
<1>3. j \in Locals /\ j.req = job[p].req /\ j.receipt = rec
  BY <1>1, JobOf DEF Locals
<1> HIDE DEF j
<1>4. InHand(p, "term_check", j)
  BY <1>1, <1>3 DEF InHand, Steps, Terminating, FilesTyped
<1> QED BY <1>2, <1>4, TypesStep

\* Files nobody touched keep their types.
LEMMA SameFiles ==
    ASSUME SchedulerTypes, UNCHANGED <<files, history, crashes>>
    PROVE  FilesTyped
  BY DEF SchedulerTypes, TypeOK, FilesTyped, files, history

\* A rewritten file keeps the directories typed.
LEMMA WrittenFile ==
    ASSUME SchedulerTypes, NEW r \in Requests, NEW x \in Checkpoint,
           \/ queued' = [queued EXCEPT ![r] = x] /\ UNCHANGED running
           \/ running' = [running EXCEPT ![r] = x] /\ UNCHANGED queued
           \/ running' = [running EXCEPT ![r] = queued[r]] /\ queued' = [queued EXCEPT ![r] = x],
           UNCHANGED <<terminal, cancel, submitted, runs, crashes>>,
           accepted' \subseteq submitted
    PROVE  FilesTyped
<1>1. queued \in [Requests -> Checkpoint] /\ running \in [Requests -> Checkpoint]
      /\ queued[r] \in Checkpoint
  BY DEF SchedulerTypes, TypeOK
<1>2. queued' \in [Requests -> Checkpoint] /\ running' \in [Requests -> Checkpoint]
  BY <1>1
<1> QED BY <1>2 DEF SchedulerTypes, TypeOK, FilesTyped

\* The steps of a dispatch keep the types.
LEMMA DispatchTypes ==
    ASSUME SchedulerTypes, NEW w \in Workers
    PROVE  (\/ StartDispatch(w) \/ Choose(w) \/ Claim(w) \/ Mark(w) \/ Gates(w) \/ Ingest(w)
            \/ PersistInput(w) \/ Spawn(w) \/ Seal(w) \/ UnlinkRunning(w) \/ UnlinkCancel(w))
              => SchedulerTypes'
<1> USE DEF Req
<1>0. w \in Procs /\ w \notin Clients
  BY SchedulerAssumption DEF Procs
<1>a. /\ job[w] \in Locals /\ job[w].req \in Requests /\ job[w].ckpt \in Checkpoint
      /\ job[w].ckpt.gen \in Nat /\ job[w].ckpt.seq \in Nat
  BY <1>0, JobOf
<1>b. ASSUME NEW step \in {"idle"} \cup Dispatching PROVE InHand(w, step, job[w])
  BY <1>0, <1>a DEF InHand, Steps, Dispatching, InRun, Terminating
<1>1. ASSUME StartDispatch(w) PROVE SchedulerTypes'
  <2>1. Goto(w, "choose") /\ UNCHANGED job /\ FilesTyped
    BY <1>1, SameFiles DEF StartDispatch
  <2> QED BY <2>1, <1>0, <1>b, GotoTypes DEF Dispatching
<1>2. ASSUME Choose(w) PROVE SchedulerTypes'
  <2>1. FilesTyped
    BY <1>2, SameFiles DEF Choose
  <2>2. ASSUME NEW r \in NextQueued, job' = [job EXCEPT ![w].req = r, ![w].ckpt = queued[r]],
               Goto(w, "claim")
        PROVE  SchedulerTypes'
    <3> DEFINE j == [job[w] EXCEPT !.req = r, !.ckpt = queued[r]]
    <3>1. r \in Requests
      BY DEF NextQueued, Files
    <3>2. queued[r] \in Checkpoint
      BY <3>1, FileOf
    <3>3. Moves(w, "claim", j)
      BY <2>2, <1>0 DEF Moves, Goto, SchedulerTypes, TypeOK
    <3>4. j \in Locals
      BY <1>a, <3>1, <3>2 DEF Locals
    <3>5. InHand(w, "claim", j)
      BY <1>0, <3>4 DEF InHand, Steps, Dispatching, Terminating
    <3> HIDE DEF j
    <3> QED BY <3>3, <3>5, <2>1, <1>0, TypesStep
  <2> QED BY <1>0, <1>2, <2>1, <2>2, DoneTypes DEF Choose
<1>3. ASSUME Claim(w) PROVE SchedulerTypes'
  <2>1. CASE Goto(w, "mark") /\ UNCHANGED job
             /\ running' = [running EXCEPT ![Req(w)] = queued[Req(w)]]
             /\ queued' = [queued EXCEPT ![Req(w)] = NoCheckpoint]
    <3>1. FilesTyped
      BY <1>3, <1>a, <2>1, FreshTyped, WrittenFile DEF Claim, history, SchedulerTypes, TypeOK
    <3> QED BY <2>1, <3>1, <1>0, <1>b, GotoTypes DEF Dispatching
  <2>2. CASE Done(w) /\ UNCHANGED <<queued, running>>
    BY <1>0, <1>3, <2>2, SameFiles, DoneTypes DEF Claim, files
  <2> QED BY <1>3, <2>1, <2>2 DEF Claim
<1>4. ASSUME Mark(w) PROVE SchedulerTypes'
  <2> DEFINE next == [job[w].ckpt EXCEPT !.gen = @ + 1]
             j == [job[w] EXCEPT !.ckpt = next]
  <2>1. next \in Checkpoint
    BY <1>a DEF Checkpoint
  <2>2. /\ running' = [running EXCEPT ![Req(w)] = next] /\ job' = [job EXCEPT ![w].ckpt = next]
        /\ Goto(w, "gates") /\ UNCHANGED <<queued, terminal, cancel, history, crashes>>
    BY <1>4 DEF Mark
  <2> HIDE DEF next
  <2>3. FilesTyped
    BY <1>a, <2>1, <2>2, WrittenFile DEF history, SchedulerTypes, TypeOK
  <2>4. Moves(w, "gates", j)
    BY <2>2, <1>0 DEF Moves, Goto, SchedulerTypes, TypeOK
  <2>5. j \in Locals
    BY <1>a, <2>1 DEF Locals
  <2>6. InHand(w, "gates", j)
    BY <1>0, <2>5 DEF InHand, Steps, Dispatching, InRun, Terminating
  <2> HIDE DEF j
  <2> QED BY <2>3, <2>4, <2>6, <1>0, TypesStep
<1>5. ASSUME Gates(w) PROVE SchedulerTypes'
  <2>1. FilesTyped
    BY <1>5, SameFiles DEF Gates
  <2>2. job[w].ckpt.gen + 1 \in Nat \ {0} /\ Refusals \subseteq Statuses /\ "cancelled" \in Statuses
    BY <1>a, SchedulerAssumption DEF Statuses
  <2>3. ASSUME NEW s \in Statuses, Terminate(w, s, job[w].ckpt.gen + 1, "unlink_running")
        PROVE  SchedulerTypes'
    BY <2>1, <2>2, <2>3, <1>0, TerminateTypes
  <2>4. CASE Goto(w, "ingest") /\ UNCHANGED job
    BY <2>1, <2>4, <1>0, <1>b, GotoTypes DEF Dispatching, InRun
  <2> QED BY <1>5, <2>2, <2>3, <2>4 DEF Gates
<1>6. ASSUME Ingest(w) PROVE SchedulerTypes'
  <2> DEFINE c == [job[w].ckpt EXCEPT !.staged = TRUE]
             j == [job[w] EXCEPT !.ckpt = c]
  <2>1. c \in Checkpoint
    BY <1>a DEF Checkpoint
  <2>2. FilesTyped
    BY <1>6, SameFiles DEF Ingest
  <2>3. Moves(w, "checkpoint", j)
    BY <1>6, <1>0 DEF Ingest, Moves, Goto, SchedulerTypes, TypeOK
  <2> HIDE DEF c
  <2>4. j \in Locals
    BY <1>a, <2>1 DEF Locals
  <2>5. InHand(w, "checkpoint", j)
    BY <1>0, <2>4 DEF InHand, Steps, Dispatching, InRun, Terminating
  <2> HIDE DEF j
  <2> QED BY <2>2, <2>3, <2>5, <1>0, TypesStep
<1>7. ASSUME PersistInput(w) PROVE SchedulerTypes'
  <2> DEFINE next == [job[w].ckpt EXCEPT !.gen = @ + 1]
  <2>1. next \in Checkpoint
    BY <1>a DEF Checkpoint
  <2>2. /\ running' = [running EXCEPT ![Req(w)] = next] /\ UNCHANGED job
        /\ Goto(w, "spawn") /\ UNCHANGED <<queued, terminal, cancel, history, crashes>>
    BY <1>7 DEF PersistInput
  <2> HIDE DEF next
  <2>3. FilesTyped
    BY <1>a, <2>1, <2>2, WrittenFile DEF history, SchedulerTypes, TypeOK
  <2> QED BY <2>2, <2>3, <1>0, <1>b, GotoTypes DEF Dispatching, InRun
<1>8. ASSUME Spawn(w) PROVE SchedulerTypes'
  <2>1. runs' \in [Requests -> Nat]
    BY <1>8, <1>a DEF Spawn, SchedulerTypes, TypeOK
  <2>2. FilesTyped
    BY <1>8, <2>1 DEF Spawn, FilesTyped, files, SchedulerTypes, TypeOK
  <2>3. Goto(w, "run") /\ UNCHANGED job
    BY <1>8 DEF Spawn
  <2> QED BY <2>2, <2>3, <1>0, <1>b, GotoTypes DEF Dispatching, InRun
<1>9. ASSUME Seal(w) PROVE SchedulerTypes'
  <2>1. FilesTyped
    BY <1>9, SameFiles DEF Seal
  <2>2. job[w].ckpt.gen + 2 \in Nat \ {0} /\ {"completed", "failed"} \subseteq Statuses
    BY <1>a DEF Statuses
  <2>3. PICK s \in {"completed", "failed"} :
               Terminate(w, s, job[w].ckpt.gen + 2, "unlink_running")
    BY <1>9 DEF Seal
  <2> QED BY <2>1, <2>2, <2>3, <1>0, TerminateTypes
<1>10. ASSUME UnlinkRunning(w) PROVE SchedulerTypes'
  <2>1. FilesTyped
    BY <1>10, <1>a, FreshTyped, WrittenFile DEF UnlinkRunning, history, SchedulerTypes, TypeOK
  <2>2. Goto(w, "unlink_cancel") /\ UNCHANGED job
    BY <1>10 DEF UnlinkRunning
  <2> QED BY <2>1, <2>2, <1>0, <1>b, GotoTypes DEF Dispatching, InRun
<1>11. ASSUME UnlinkCancel(w) PROVE SchedulerTypes'
  <2>1. FilesTyped
    BY <1>11 DEF UnlinkCancel, FilesTyped, history, SchedulerTypes, TypeOK
  <2> QED BY <1>11, <2>1, <1>0, DoneTypes DEF UnlinkCancel
<1> QED BY <1>1, <1>2, <1>3, <1>4, <1>5, <1>6, <1>7, <1>8, <1>9, <1>10, <1>11

\* Writing a terminal receipt keeps the types.
LEMMA TerminalTypes ==
    ASSUME SchedulerTypes, NEW p \in Procs
    PROVE  TermCheck(p) \/ TermWrite(p) => SchedulerTypes'
<1> USE DEF Req
<1>1. /\ job[p] \in Locals /\ job[p].req \in Requests /\ job[p].receipt \in Receipt
      /\ job[p].after \in {"idle", "unlink_running", "rec_unlink"}
  BY JobOf
<1>2. p \notin Clients => InHand(p, job[p].after, job[p])
  BY <1>1 DEF InHand, Steps, Dispatching, InRun, Recovering, Terminating
<1>3. ASSUME pc[p] \in Terminating,
             (IF p \in Clients THEN Done(p) ELSE Goto(p, job[p].after) /\ UNCHANGED job), FilesTyped
      PROVE  SchedulerTypes'
  BY <1>2, <1>3, DoneTypes, GotoTypes
<1>4. ASSUME TermCheck(p) PROVE SchedulerTypes'
  <2>1. FilesTyped
    BY <1>4, SameFiles DEF TermCheck
  <2>2. CASE Goto(p, "term_write") /\ UNCHANGED job
    <3>1. job[p].receipt.gen > 0 /\ (p \in Clients => job[p].req \in submitted)
      BY <1>4 DEF TermCheck, SchedulerTypes, Terminating
    <3>2. InHand(p, "term_write", job[p])
      BY <1>1, <3>1, <2>1 DEF InHand, Steps, Terminating, FilesTyped
    <3> QED BY <2>1, <2>2, <3>2, GotoTypes
  <2> QED BY <1>3, <1>4, <2>1, <2>2 DEF TermCheck, Terminating
<1>5. ASSUME TermWrite(p) PROVE SchedulerTypes'
  <2>1. terminal' \in [Requests -> Receipt]
    BY <1>1, <1>5 DEF TermWrite, SchedulerTypes, TypeOK
  <2>2. FilesTyped
    BY <1>5, <2>1 DEF TermWrite, FilesTyped, history, SchedulerTypes, TypeOK
  <2> QED BY <1>3, <1>5, <2>2 DEF TermWrite, Terminating
<1> QED BY <1>4, <1>5

\* The steps of a recovery keep the types.
LEMMA RecoverTypes ==
    ASSUME SchedulerTypes, NEW w \in Workers
    PROVE  (\/ StartRecover(w) \/ RecNext(w) \/ RecDecide(w) \/ RecRequeue(w) \/ RecUnlink(w))
              => SchedulerTypes'
<1> USE DEF Req
<1>0. w \in Procs /\ w \notin Clients
  BY SchedulerAssumption DEF Procs
<1>a. /\ job[w] \in Locals /\ job[w].req \in Requests /\ job[w].ckpt \in Checkpoint
      /\ job[w].ckpt.gen \in Nat /\ job[w].ckpt.seq \in Nat
      /\ job[w].todo \subseteq Requests /\ job[w].snapshot \subseteq Requests
  BY <1>0, JobOf
<1>b. ASSUME NEW step \in {"idle", "rec_next", "rec_decide", "rec_unlink"}, NEW j \in Locals
      PROVE  InHand(w, step, j)
  BY <1>0 DEF InHand, Steps, Recovering, Terminating
<1>1. ASSUME StartRecover(w) PROVE SchedulerTypes'
  <2> DEFINE j == [job[w] EXCEPT !.todo = Files(running), !.snapshot = Files(queued)]
  <2>1. FilesTyped
    BY <1>1, SameFiles DEF StartRecover
  <2>2. Moves(w, "rec_next", j)
    BY <1>1, <1>0 DEF StartRecover, Moves, Goto, SchedulerTypes, TypeOK
  <2>3. Files(running) \subseteq Requests /\ Files(queued) \subseteq Requests
    BY DEF Files
  <2>4. j \in Locals
    BY <1>a, <2>3 DEF Locals
  <2> HIDE DEF j
  <2> QED BY <2>1, <2>2, <2>4, <1>0, <1>b, TypesStep
<1>2. ASSUME RecNext(w) PROVE SchedulerTypes'
  <2>1. FilesTyped
    BY <1>2, SameFiles DEF RecNext
  <2>2. ASSUME NEW r \in job[w].todo, job' = [job EXCEPT ![w].req = r, ![w].todo = @ \ {r}],
               Goto(w, "rec_decide")
        PROVE  SchedulerTypes'
    <3> DEFINE j == [job[w] EXCEPT !.req = r, !.todo = @ \ {r}]
    <3>1. Moves(w, "rec_decide", j)
      BY <2>2, <1>0 DEF Moves, Goto, SchedulerTypes, TypeOK
    <3>2. j \in Locals
      BY <1>a DEF Locals
    <3> HIDE DEF j
    <3> QED BY <2>1, <3>1, <3>2, <1>0, <1>b, TypesStep
  <2> QED BY <1>0, <1>2, <2>1, <2>2, DoneTypes DEF RecNext
<1>3. ASSUME RecDecide(w) PROVE SchedulerTypes'
  <2> DEFINE r == job[w].req
             c == [gen |-> running[r].gen + 1, seq |-> NextSequence(job[w].snapshot),
                   staged |-> running[r].staged]
             j == [job[w] EXCEPT !.ckpt = c]
  <2>1. FilesTyped
    BY <1>3, SameFiles DEF RecDecide
  <2>2. /\ running[r].gen \in Nat /\ running[r].staged \in BOOLEAN
        /\ running[r].gen + 1 \in Nat \ {0}
    BY <1>a, FileOf
  <2>3. CASE Terminate(w, "cancelled", running[r].gen + 1, "rec_unlink")
    BY <2>1, <2>2, <2>3, <1>0, TerminateTypes DEF Statuses
  <2>4. CASE Goto(w, "rec_unlink") /\ UNCHANGED job
    BY <2>1, <2>4, <1>0, <1>a, <1>b, GotoTypes
  <2>5. CASE r \in Files(running) /\ job' = [job EXCEPT ![w].ckpt = c] /\ Goto(w, "rec_requeue")
    <3>1. NextSequence(job[w].snapshot) \in Nat
      BY <1>a, NextSequenceIs DEF SchedulerTypes
    <3>2. c \in Checkpoint
      BY <2>2, <3>1, Zenon DEF Checkpoint
    <3>3. c.gen > 1
      BY <2>2, <2>5 DEF Files
    <3>4. Moves(w, "rec_requeue", j)
      BY <2>5, <1>0 DEF Moves, Goto, SchedulerTypes, TypeOK
    <3> HIDE DEF c
    <3>5. j \in Locals /\ j.ckpt = c
      BY <1>a, <3>2 DEF Locals
    <3> HIDE DEF j
    <3>6. InHand(w, "rec_requeue", j)
      BY <1>0, <3>3, <3>5 DEF InHand, Steps, Recovering, Terminating
    <3> QED BY <2>1, <3>4, <3>6, <1>0, TypesStep
  <2> QED BY <1>0, <1>3, <2>1, <2>3, <2>4, <2>5, DoneTypes DEF RecDecide
<1>4. ASSUME RecRequeue(w) PROVE SchedulerTypes'
  <2> DEFINE j == [job[w] EXCEPT !.snapshot = @ \cup {Req(w)}]
  <2>1. FilesTyped
    BY <1>4, <1>a, WrittenFile DEF RecRequeue, history, SchedulerTypes, TypeOK
  <2>2. Moves(w, "rec_unlink", j)
    BY <1>4, <1>0 DEF RecRequeue, Moves, Goto, SchedulerTypes, TypeOK
  <2>3. j \in Locals
    BY <1>a DEF Locals
  <2> HIDE DEF j
  <2> QED BY <2>1, <2>2, <2>3, <1>0, <1>b, TypesStep
<1>5. ASSUME RecUnlink(w) PROVE SchedulerTypes'
  <2>1. CASE Done(w) /\ UNCHANGED running
    BY <1>0, <1>5, <2>1, SameFiles, DoneTypes DEF RecUnlink, files
  <2>2. CASE Goto(w, "rec_next") /\ UNCHANGED job
             /\ running' = [running EXCEPT ![Req(w)] = NoCheckpoint]
    <3>1. FilesTyped
      BY <1>5, <2>2, <1>a, FreshTyped, WrittenFile DEF RecUnlink, history, SchedulerTypes, TypeOK
    <3> QED BY <2>2, <3>1, <1>0, <1>a, <1>b, GotoTypes
  <2> QED BY <1>5, <2>1, <2>2 DEF RecUnlink
<1> QED BY <1>1, <1>2, <1>3, <1>4, <1>5

\* The steps of submit and cancel keep the types.
LEMMA ClientTypes ==
    ASSUME SchedulerTypes, NEW c \in Clients
    PROVE  (\/ StartSubmit(c) \/ SubQueued(c) \/ SubRunning(c) \/ SubCount(c) \/ SubWrite(c)
            \/ StartCancel(c) \/ CanQueued(c) \/ CanUnlink(c) \/ CanRunning(c) \/ CanMark(c))
              => SchedulerTypes'
<1> USE DEF Req
<1>0. c \in Procs /\ c \notin Workers
  BY SchedulerAssumption DEF Procs
<1>a. /\ job[c] \in Locals /\ job[c].req \in Requests /\ job[c].ckpt \in Checkpoint
      /\ job[c].ckpt.gen \in Nat /\ job[c].ckpt.seq \in Nat
      /\ pc[c] # "idle" => job[c].req \in submitted
  BY <1>0, JobOf DEF SchedulerTypes
<1>b. ASSUME NEW step \in {"sub_queued", "sub_running", "sub_count"} \cup Cancelling,
             NEW j \in Locals, j.req \in submitted'
      PROVE  InHand(c, step, j)
  BY <1>0, <1>b DEF InHand, Steps, Submitting, Cancelling, Terminating
<1>c. ASSUME pc[c] # "idle", UNCHANGED <<files, history, crashes>>,
             \/ Done(c)
             \/ /\ \E step \in {"sub_queued", "sub_running", "sub_count"} \cup Cancelling :
                     Goto(c, step)
                /\ UNCHANGED job
      PROVE  SchedulerTypes'
  <2>1. FilesTyped /\ job[c].req \in submitted'
    BY <1>a, <1>c, SameFiles DEF history
  <2> QED BY <1>0, <1>a, <1>b, <1>c, <2>1, DoneTypes, GotoTypes
<1>1. ASSUME StartSubmit(c) PROVE SchedulerTypes'
  <2>1. PICK r \in Requests : job' = [job EXCEPT ![c].req = r] /\ submitted' = submitted \cup {r}
    BY <1>1 DEF StartSubmit
  <2> DEFINE j == [job[c] EXCEPT !.req = r]
  <2>2. FilesTyped
    BY <1>1, <2>1 DEF StartSubmit, FilesTyped, files, SchedulerTypes, TypeOK
  <2>3. Moves(c, "sub_queued", j)
    BY <1>1, <2>1, <1>0 DEF StartSubmit, Moves, Goto, SchedulerTypes, TypeOK
  <2>4. j \in Locals /\ j.req \in submitted'
    BY <1>a, <2>1 DEF Locals
  <2> HIDE DEF j
  <2> QED BY <2>2, <2>3, <2>4, <1>0, <1>b, TypesStep
<1>2. ASSUME SubQueued(c) PROVE SchedulerTypes'
  BY <1>2, <1>c DEF SubQueued
<1>3. ASSUME SubRunning(c) PROVE SchedulerTypes'
  BY <1>3, <1>c DEF SubRunning
<1>4. ASSUME SubCount(c) PROVE SchedulerTypes'
  <2>1. FilesTyped /\ job[c].req \in submitted /\ UNCHANGED submitted
    BY <1>4, <1>a, SameFiles DEF SubCount, history
  <2>2. CASE Terminate(c, "wait_backpressure", 1, "idle")
    BY <2>1, <2>2, <1>0, TerminateTypes DEF Statuses
  <2> DEFINE k == [gen |-> 1, seq |-> NextSequence(Files(queued)), staged |-> FALSE]
             j == [job[c] EXCEPT !.ckpt = k]
  <2>3. CASE job' = [job EXCEPT ![c].ckpt = k] /\ Goto(c, "sub_write")
    <3>1. k \in Checkpoint /\ k.gen = 1
      BY NextSequenceIs DEF Checkpoint, Files, SchedulerTypes
    <3>2. Moves(c, "sub_write", j)
      BY <2>3, <1>0 DEF Moves, Goto, SchedulerTypes, TypeOK
    <3> HIDE DEF k
    <3>3. j \in Locals /\ j.ckpt = k /\ j.req = job[c].req
      BY <1>a, <3>1 DEF Locals
    <3> HIDE DEF j
    <3>4. InHand(c, "sub_write", j)
      BY <1>0, <2>1, <3>1, <3>3 DEF InHand, Steps, Submitting, Terminating
    <3> QED BY <2>1, <3>2, <3>4, <1>0, TypesStep
  <2> QED BY <1>4, <2>2, <2>3 DEF SubCount
<1>5. ASSUME SubWrite(c) PROVE SchedulerTypes'
  <2>1. accepted' \subseteq submitted
    BY <1>5, <1>a DEF SubWrite, SchedulerTypes, TypeOK
  <2>2. FilesTyped
    BY <1>5, <2>1, <1>a, WrittenFile DEF SubWrite
  <2> QED BY <1>5, <2>2, <1>0, DoneTypes DEF SubWrite
<1>6. ASSUME StartCancel(c) PROVE SchedulerTypes'
  <2>1. PICK r \in submitted : job' = [job EXCEPT ![c].req = r]
    BY <1>6 DEF StartCancel
  <2> DEFINE j == [job[c] EXCEPT !.req = r]
  <2>2. FilesTyped /\ UNCHANGED submitted
    BY <1>6, SameFiles DEF StartCancel, history
  <2>3. Moves(c, "can_queued", j)
    BY <1>6, <2>1, <1>0 DEF StartCancel, Moves, Goto, SchedulerTypes, TypeOK
  <2>4. r \in Requests
    BY <2>1 DEF SchedulerTypes, TypeOK
  <2>5. j \in Locals /\ j.req \in submitted'
    BY <1>a, <2>1, <2>2, <2>4 DEF Locals
  <2> HIDE DEF j
  <2> QED BY <2>2, <2>3, <2>5, <1>0, <1>b, TypesStep DEF Cancelling
<1>7. ASSUME CanQueued(c) PROVE SchedulerTypes'
  <2>1. CASE job' = [job EXCEPT ![c].ckpt = queued[job[c].req]] /\ Goto(c, "can_unlink")
    <3> DEFINE j == [job[c] EXCEPT !.ckpt = queued[job[c].req]]
    <3>1. FilesTyped /\ UNCHANGED submitted /\ job[c].req \in submitted
      BY <1>7, <1>a, SameFiles DEF CanQueued, history
    <3>2. Moves(c, "can_unlink", j)
      BY <2>1, <1>0 DEF Moves, Goto, SchedulerTypes, TypeOK
    <3>3. queued[job[c].req] \in Checkpoint
      BY <1>a, FileOf
    <3>4. j \in Locals /\ j.req = job[c].req
      BY <1>a, <3>3 DEF Locals
    <3> HIDE DEF j
    <3> QED BY <3>1, <3>2, <3>4, <1>0, <1>b, TypesStep DEF Cancelling
  <2> QED BY <1>7, <1>c, <2>1 DEF CanQueued, Cancelling
<1>8. ASSUME CanUnlink(c) PROVE SchedulerTypes'
  <2>1. CASE Done(c) /\ UNCHANGED queued
    BY <1>8, <2>1, <1>c DEF CanUnlink, files
  <2>2. CASE /\ queued' = [queued EXCEPT ![job[c].req] = NoCheckpoint]
             /\ Terminate(c, "cancelled", job[c].ckpt.gen + 1, "idle")
    <3>1. FilesTyped
      BY <1>8, <2>2, <1>a, FreshTyped, WrittenFile DEF CanUnlink, history, SchedulerTypes, TypeOK
    <3>2. job[c].ckpt.gen + 1 \in Nat \ {0} /\ job[c].req \in submitted
      BY <1>8, <1>a DEF CanUnlink
    <3> QED BY <2>2, <3>1, <3>2, <1>0, TerminateTypes DEF Statuses
  <2> QED BY <1>8, <2>1, <2>2 DEF CanUnlink
<1>9. ASSUME CanRunning(c) PROVE SchedulerTypes'
  BY <1>9, <1>c DEF CanRunning, Cancelling
<1>10. ASSUME CanMark(c) PROVE SchedulerTypes'
  <2>1. FilesTyped
    BY <1>10, <1>a DEF CanMark, FilesTyped, history, SchedulerTypes, TypeOK
  <2> QED BY <1>10, <2>1, <1>0, DoneTypes DEF CanMark
<1> QED BY <1>1, <1>2, <1>3, <1>4, <1>5, <1>6, <1>7, <1>8, <1>9, <1>10

\* Every step keeps the types.
LEMMA TypesInductive == SchedulerTypes /\ [Next]_vars => SchedulerTypes'
<1> SUFFICES ASSUME SchedulerTypes, [Next]_vars PROVE SchedulerTypes'
  OBVIOUS
<1>0. Workers \subseteq Procs /\ Clients \subseteq Procs
  BY DEF Procs
<1>1. ASSUME NEW w \in Workers, StartDispatch(w) \/ StartRecover(w) \/ WorkerStep(w)
      PROVE  SchedulerTypes'
  BY <1>0, <1>1, DispatchTypes, RecoverTypes, TerminalTypes DEF WorkerStep
<1>2. ASSUME NEW c \in Clients, StartSubmit(c) \/ StartCancel(c) \/ ClientStep(c)
      PROVE  SchedulerTypes'
  BY <1>0, <1>2, ClientTypes, TerminalTypes DEF ClientStep
<1>3. ASSUME NEW p \in Procs, Crash(p) PROVE SchedulerTypes'
  <2>1. crashes' \in 0..MaxCrashes
    BY <1>3, SchedulerAssumption DEF Crash, SchedulerTypes, TypeOK
  <2>2. FilesTyped
    BY <1>3, <2>1 DEF Crash, FilesTyped, files, history, SchedulerTypes, TypeOK
  <2> QED BY <1>3, <2>2, DoneTypes DEF Crash
<1>4. CASE UNCHANGED vars
  BY <1>4 DEF vars, files, history, SchedulerTypes, TypeOK, Req
<1> QED BY <1>1, <1>2, <1>3, <1>4 DEF Next

\* The types hold in every reachable state.
LEMMA TypesInvariant == Spec => []SchedulerTypes
<1>1. Init => SchedulerTypes
  <2> SUFFICES ASSUME Init PROVE SchedulerTypes
    OBVIOUS
  <2>1. pc \in [Procs -> Steps] /\ \A p \in Procs : pc[p] = "idle"
    BY DEF Init, Steps
  <2>2. job \in [Procs -> Locals]
    BY FreshTyped DEF Init
  <2>3. TypeOK
    BY <2>1, <2>2, FreshTyped, SchedulerAssumption DEF Init, TypeOK
  <2> QED BY <2>1, <2>3 DEF SchedulerTypes, Procs, Terminating
<1> QED BY <1>1, TypesInductive, PTL DEF Spec

\* Every variable of the scheduler always has its type, whatever processes run,
\* race and are killed; no write of dispatch, recovery, submit or cancel_request
\* leaves a checkpoint or receipt of another shape.
THEOREM SchedulerTypeCorrect == Spec => []TypeOK
<1>1. SchedulerTypes => TypeOK
  BY DEF SchedulerTypes
<1> QED BY <1>1, TypesInvariant, PTL
-----------------------------------------------------------------------------
(* Frames *)

WorkerActs(w) == StartDispatch(w) \/ StartRecover(w) \/ WorkerStep(w) \/ Crash(w)
ClientActs(c) == StartSubmit(c) \/ StartCancel(c) \/ ClientStep(c) \/ Crash(c)

\* Every step is one worker's, one client's or nobody's.
LEMMA WhoActs ==
    ASSUME [Next]_vars
    PROVE  \/ \E w \in Workers : WorkerActs(w)
           \/ \E c \in Clients : ClientActs(c)
           \/ UNCHANGED vars
  BY DEF Next, Procs, WorkerActs, ClientActs

\* A step of one process leaves the others where they are, with what they have.
LEMMA OthersFrame ==
    ASSUME SchedulerTypes, NEW p \in Procs, WorkerActs(p) \/ ClientActs(p)
    PROVE  \A q \in Procs : q # p => pc'[q] = pc[q] /\ job'[q] = job[q]
<1>1. CASE WorkerActs(p)
  <2>1. \A q \in Procs : q # p => pc'[q] = pc[q]
    BY <1>1 DEF WorkerActs, WorkerStep, StartDispatch, StartRecover, Choose, Claim, Mark, Gates,
       Ingest, PersistInput, Spawn, Seal, UnlinkRunning, UnlinkCancel, RecNext, RecDecide,
       RecRequeue, RecUnlink, TermCheck, TermWrite, Crash, Terminate, Done, Goto,
       SchedulerTypes, TypeOK
  <2>2. \A q \in Procs : q # p => job'[q] = job[q]
    BY <1>1 DEF WorkerActs, WorkerStep, StartDispatch, StartRecover, Choose, Claim, Mark, Gates,
       Ingest, PersistInput, Spawn, Seal, UnlinkRunning, UnlinkCancel, RecNext, RecDecide,
       RecRequeue, RecUnlink, TermCheck, TermWrite, Crash, Terminate, Done,
       SchedulerTypes, TypeOK
  <2> QED BY <2>1, <2>2
<1>2. CASE ClientActs(p)
  BY <1>2 DEF ClientActs, ClientStep, StartSubmit, StartCancel, SubQueued, SubRunning, SubCount,
     SubWrite, CanQueued, CanUnlink, CanRunning, CanMark, TermCheck, TermWrite, Crash, Terminate,
     Done, Goto, SchedulerTypes, TypeOK
<1> QED BY <1>1, <1>2
-----------------------------------------------------------------------------
(* The queue is bounded *)

\* The sets the bound counts are finite.
LEMMA CountsFinite ==
    /\ IsFiniteSet(Files(queued)) /\ IsFiniteSet(FirstTime) /\ IsFiniteSet(Writing)
    /\ Cardinality(Files(queued)) \in Nat /\ Cardinality(FirstTime) \in Nat
    /\ Cardinality(Writing) \in Nat /\ Cardinality(Clients) \in Nat
    /\ Cardinality(FirstTime) <= Cardinality(Files(queued))
<1>1. IsFiniteSet(Files(queued)) /\ IsFiniteSet(Writing)
  BY SchedulerAssumption, FS_Subset DEF Files, Writing
<1>2. FirstTime \in SUBSET Files(queued)
  BY DEF FirstTime
<1> QED BY <1>1, <1>2, SchedulerAssumption, FS_Subset, FS_CardinalityType

\* A step that neither queues nor promises to keeps the bound.
LEMMA BoundShrinks ==
    ASSUME BoundInv, FirstTime' \subseteq FirstTime, Writing' \subseteq Writing
    PROVE  BoundInv'
<1>1. /\ Cardinality(FirstTime') <= Cardinality(FirstTime) /\ Cardinality(FirstTime') \in Nat
      /\ Cardinality(Writing') <= Cardinality(Writing) /\ Cardinality(Writing') \in Nat
  BY CountsFinite, FS_Subset, FS_CardinalityType
<1> QED BY <1>1, CountsFinite, SchedulerAssumption DEF BoundInv

\* Every step keeps first-time entries and writers within the bound.
LEMMA BoundInductive == SchedulerTypes /\ BoundInv /\ [Next]_vars => BoundInv'
<1> SUFFICES ASSUME SchedulerTypes, BoundInv, [Next]_vars PROVE BoundInv'
  OBVIOUS
<1>1. ASSUME NEW w \in Workers, WorkerActs(w) PROVE BoundInv'
  <2>0. w \in Procs /\ w \notin Clients /\ Clients \subseteq Procs
    BY SchedulerAssumption DEF Procs
  <2>1. Writing' = Writing
    BY <1>1, <2>0, OthersFrame DEF Writing
  <2>2. job[w].req \in Requests /\ (pc[w] = "rec_requeue" => job[w].ckpt.gen # 1)
    BY <2>0, JobOf DEF SchedulerTypes
  <2>3. \/ UNCHANGED queued
        \/ queued' = [queued EXCEPT ![job[w].req] = NoCheckpoint]
        \/ pc[w] = "rec_requeue" /\ queued' = [queued EXCEPT ![job[w].req] = job[w].ckpt]
    BY <1>1 DEF WorkerActs, WorkerStep, StartDispatch, StartRecover, Choose, Claim, Mark, Gates,
       Ingest, PersistInput, Spawn, Seal, UnlinkRunning, UnlinkCancel, RecNext, RecDecide,
       RecRequeue, RecUnlink, TermCheck, TermWrite, Crash, files, Req
  <2>4. FirstTime' \subseteq FirstTime
    BY <2>2, <2>3 DEF FirstTime, Files, NoCheckpoint, SchedulerTypes, TypeOK
  <2> QED BY <2>1, <2>4, BoundShrinks
<1>2. ASSUME NEW c \in Clients, ClientActs(c) PROVE BoundInv'
  <2>0. c \in Procs /\ Clients \subseteq Procs /\ job[c].req \in Requests
    BY JobOf DEF Procs
  <2>1. \A q \in Clients : q # c => pc'[q] = pc[q]
    BY <1>2, <2>0, OthersFrame
  <2>2. CASE SubWrite(c)
    <3>1. pc[c] = "sub_write" /\ pc'[c] = "idle"
      BY <2>0, <2>2 DEF SubWrite, Done, Goto, SchedulerTypes, TypeOK
    <3>2. Writing' = Writing \ {c} /\ c \in Writing
      BY <2>1, <3>1 DEF Writing
    <3>3. FirstTime' \subseteq FirstTime \cup {job[c].req}
      BY <2>2 DEF SubWrite, Req, FirstTime, Files, SchedulerTypes, TypeOK
    <3>4. Cardinality(Writing') = Cardinality(Writing) - 1
      BY <3>2, CountsFinite, FS_RemoveElement
    <3>5. /\ Cardinality(FirstTime') <= Cardinality(FirstTime) + 1
          /\ Cardinality(FirstTime') \in Nat
      <4>1. PICK U : U = FirstTime \cup {job[c].req}
        OBVIOUS
      <4>2. IsFiniteSet(U)
        BY <4>1, CountsFinite, FS_AddElement
      <4>3. Cardinality(U) <= Cardinality(FirstTime) + 1
        <5>1. IsFiniteSet(FirstTime) /\ Cardinality(FirstTime) \in Nat
          BY CountsFinite
        <5>2. Cardinality(FirstTime \cup {job[c].req}) =
                IF job[c].req \in FirstTime THEN Cardinality(FirstTime)
                ELSE Cardinality(FirstTime) + 1
          BY <5>1, FS_AddElement, Zenon
        <5> QED BY <4>1, <5>1, <5>2
      <4>4. FirstTime' \in SUBSET U
        BY <3>3, <4>1
      <4>5. /\ Cardinality(FirstTime') <= Cardinality(U) /\ Cardinality(U) \in Nat
            /\ Cardinality(FirstTime') \in Nat
        BY <4>2, <4>4, FS_Subset, FS_CardinalityType
      <4> QED BY <4>3, <4>5, CountsFinite
    <3> QED BY <3>4, <3>5, CountsFinite, SchedulerAssumption DEF BoundInv
  <2>3. CASE SubCount(c) /\ pc'[c] = "sub_write"
    <3>1. pc[c] = "sub_count" /\ UNCHANGED queued /\ Cardinality(Files(queued)) < MaxQueued
      BY <2>0, <2>3 DEF SubCount, Terminate, Goto, files, SchedulerTypes, TypeOK
    <3>2. FirstTime' = FirstTime
      BY <3>1 DEF FirstTime, Files
    <3>3. Writing' = Writing \cup {c} /\ c \notin Writing /\ Writing' \in SUBSET Clients
      BY <2>1, <2>3, <3>1 DEF Writing
    <3>4. Cardinality(Writing') <= Cardinality(Clients) /\ Cardinality(Writing') \in Nat
      BY <3>3, SchedulerAssumption, FS_Subset, FS_CardinalityType
    <3> QED BY <3>1, <3>2, <3>4, CountsFinite, SchedulerAssumption DEF BoundInv
  <2>4. CASE ~SubWrite(c) /\ pc'[c] # "sub_write"
    <3>1. UNCHANGED queued \/ queued' = [queued EXCEPT ![job[c].req] = NoCheckpoint]
      BY <1>2, <2>4 DEF ClientActs, ClientStep, StartSubmit, StartCancel, SubQueued, SubRunning,
         SubCount, CanQueued, CanUnlink, CanRunning, CanMark, TermCheck, TermWrite, Crash, files, Req
    <3>2. FirstTime' \subseteq FirstTime
      BY <2>0, <3>1 DEF FirstTime, Files, NoCheckpoint, SchedulerTypes, TypeOK
    <3>3. Writing' \subseteq Writing
      BY <2>1, <2>4 DEF Writing
    <3> QED BY <3>2, <3>3, BoundShrinks
  <2>5. pc'[c] = "sub_write" => SubCount(c)
    BY <1>2, <2>0 DEF ClientActs, ClientStep, StartSubmit, StartCancel, SubQueued, SubRunning,
       SubWrite, CanQueued, CanUnlink, CanRunning, CanMark, TermCheck, TermWrite, Crash, Terminate,
       Done, Goto, SchedulerTypes, TypeOK
  <2> QED BY <2>2, <2>3, <2>4, <2>5
<1>3. CASE UNCHANGED vars
  <2>1. FirstTime' = FirstTime /\ Writing' = Writing
    BY <1>3 DEF vars, files, FirstTime, Files, Writing
  <2> QED BY <2>1, BoundShrinks
<1> QED BY <1>1, <1>2, <1>3, WhoActs

\* The bound holds in every reachable state.
LEMMA BoundInvariant == Spec => []BoundInv
<1>1. Init => BoundInv
  <2> SUFFICES ASSUME Init PROVE BoundInv
    OBVIOUS
  <2>1. FirstTime = {} /\ Writing = {}
    BY DEF Init, FirstTime, Files, Writing, NoCheckpoint, Procs
  <2>2. Cardinality(Clients) \in Nat \ {0}
    BY SchedulerAssumption, FS_CardinalityType, FS_EmptySet
  <2> QED BY <2>1, <2>2, FS_EmptySet, SchedulerAssumption DEF BoundInv
<1> QED BY <1>1, BoundInductive, TypesInvariant, PTL DEF Spec
-----------------------------------------------------------------------------
(* Nothing accepted is lost *)

\* A receipt stays.
LEMMA TerminalStays ==
    ASSUME SchedulerTypes, [Next]_vars, NEW r \in Files(terminal)
    PROVE  r \in Files(terminal)'
<1>1. \/ UNCHANGED terminal
      \/ \E p \in Procs : TermWrite(p)
  BY DEF Next, WorkerStep, StartDispatch, StartRecover, Choose, Claim, Mark, Gates,
     Ingest, PersistInput, Spawn, Seal, UnlinkRunning, UnlinkCancel, RecNext, RecDecide,
     RecRequeue, RecUnlink, TermCheck, Crash, ClientStep, StartSubmit, StartCancel,
     SubQueued, SubRunning, SubCount, SubWrite, CanQueued, CanUnlink, CanRunning, CanMark,
     vars, files, Procs
<1>2. ASSUME NEW p \in Procs, TermWrite(p) PROVE r \in Files(terminal)'
  BY <1>2 DEF TermWrite, SchedulerTypes, TypeOK, Files, Terminating
<1> QED BY <1>1, <1>2 DEF Files

\* What a worker can do to the queue.
LEMMA WorkerQueue ==
    ASSUME SchedulerTypes, NEW w \in Workers, WorkerActs(w)
    PROVE  \/ UNCHANGED queued
           \/ Claim(w) /\ queued' = [queued EXCEPT ![Req(w)] = NoCheckpoint]
                       /\ running' = [running EXCEPT ![Req(w)] = queued[Req(w)]]
                       /\ Req(w) \in Files(queued)
           \/ RecRequeue(w)
  BY DEF WorkerActs, WorkerStep, StartDispatch, StartRecover, Choose, Claim, Mark, Gates,
       Ingest, PersistInput, Spawn, Seal, UnlinkRunning, UnlinkCancel, RecNext, RecDecide,
       RecUnlink, TermCheck, TermWrite, Crash, files

\* What a client can do to the files.
LEMMA ClientFiles ==
    ASSUME SchedulerTypes, NEW c \in Clients, ClientActs(c)
    PROVE  /\ UNCHANGED running
           /\ UNCHANGED queued \/ SubWrite(c)
                \/ (CanUnlink(c) /\ Req(c) \in Files(queued)
                    /\ queued' = [queued EXCEPT ![Req(c)] = NoCheckpoint]
                    /\ Terminate(c, "cancelled", job[c].ckpt.gen + 1, "idle"))
           /\ UNCHANGED accepted \/ SubWrite(c)
  BY DEF ClientActs, ClientStep, StartSubmit, StartCancel, SubQueued, SubRunning,
     SubCount, SubWrite, CanQueued, CanUnlink, CanRunning, CanMark, TermCheck, TermWrite, Crash,
     files, history

\* What a process carries once it decided on a receipt.
LEMMA TerminateIs ==
    ASSUME SchedulerTypes, NEW p \in Procs, NEW status, NEW gen, NEW after,
           Terminate(p, status, gen, after)
    PROVE  /\ pc'[p] = "term_check" /\ job'[p].req = job[p].req
           /\ job'[p].receipt = [gen |-> gen, status |-> status] /\ job'[p].after = after
<1>1. pc'[p] = "term_check"
  BY DEF Terminate, Goto, SchedulerTypes, TypeOK
<1>2. job'[p] = [job[p] EXCEPT !.receipt = [gen |-> gen, status |-> status], !.after = after]
  BY DEF Terminate, SchedulerTypes, TypeOK
<1>3. job[p] \in Locals
  BY JobOf
<1> QED BY <1>1, <1>2, <1>3 DEF Locals

\* The generation of the receipt it decided on.
LEMMA TerminateGen ==
    ASSUME SchedulerTypes, NEW p \in Procs, NEW status, NEW gen, NEW after,
           Terminate(p, status, gen, after)
    PROVE  job'[p].receipt.gen = gen
<1>1. job'[p].receipt = [gen |-> gen, status |-> status]
  BY TerminateIs
<1> QED BY <1>1

\* Reading a checkpoint changes only the checkpoint at hand.
LEMMA CkptIs ==
    ASSUME SchedulerTypes, NEW p \in Procs, NEW k, job' = [job EXCEPT ![p].ckpt = k]
    PROVE  /\ job'[p].req = job[p].req /\ job'[p].ckpt = k /\ job'[p].receipt = job[p].receipt
           /\ job'[p].after = job[p].after
<1>1. job'[p] = [job[p] EXCEPT !.ckpt = k]
  BY DEF SchedulerTypes, TypeOK
<1>2. job[p] \in Locals
  BY JobOf
<1> QED BY <1>1, <1>2 DEF Locals

\* What is kept stays so until a worker takes it into running/.
LEMMA KeptForward ==
    ASSUME SchedulerTypes, OnlyWorkersDie, [Next]_vars, NEW r \in Requests, Kept(r)
    PROVE  \/ Kept(r)'
           \/ r \in Files(running)' /\ \E w \in Workers : Claim(w)
<1>1. CASE r \in Files(terminal)
  BY <1>1, TerminalStays DEF Kept
<1>2. CASE r \in Files(queued)
  <2>1. ASSUME NEW w \in Workers, WorkerActs(w)
        PROVE  r \in Files(queued)' \/ (r \in Files(running)' /\ Claim(w))
    <3>1. w \in Procs /\ Req(w) \in Requests /\ (pc[w] = "rec_requeue" => job[w].ckpt.gen # 0)
      BY JobOf DEF Procs, Req, SchedulerTypes
    <3>2. CASE UNCHANGED queued
      BY <1>2, <3>2 DEF Files
    <3>3. CASE Claim(w) /\ queued' = [queued EXCEPT ![Req(w)] = NoCheckpoint]
               /\ running' = [running EXCEPT ![Req(w)] = queued[Req(w)]]
      BY <1>2, <3>1, <3>3 DEF Files, SchedulerTypes, TypeOK
    <3>4. CASE RecRequeue(w)
      BY <1>2, <3>1, <3>4 DEF RecRequeue, Files, SchedulerTypes, TypeOK
    <3> QED BY <2>1, <3>2, <3>3, <3>4, WorkerQueue
  <2>2. ASSUME NEW c \in Clients, ClientActs(c) PROVE Kept(r)'
    <3>1. c \in Procs /\ Req(c) \in Requests /\ (pc[c] = "sub_write" => job[c].ckpt.gen # 0)
      BY JobOf DEF Procs, Req, SchedulerTypes
    <3>2. CASE UNCHANGED queued
      BY <1>2, <3>2 DEF Files, Kept
    <3>3. CASE SubWrite(c)
      BY <1>2, <3>1, <3>3 DEF SubWrite, Files, SchedulerTypes, TypeOK, Kept
    <3>4. CASE /\ CanUnlink(c) /\ queued' = [queued EXCEPT ![Req(c)] = NoCheckpoint]
               /\ Terminate(c, "cancelled", job[c].ckpt.gen + 1, "idle")
      <4>1. pc'[c] = "term_check" /\ job'[c].req = job[c].req
        BY <3>1, <3>4, TerminateIs
      <4>2. r # Req(c) => r \in Files(queued)'
        BY <1>2, <3>1, <3>4 DEF Files, SchedulerTypes, TypeOK
      <4> QED BY <4>1, <4>2 DEF Kept, Req, Terminating
    <3> QED BY <2>2, <3>2, <3>3, <3>4, ClientFiles
  <2>3. CASE UNCHANGED vars
    BY <1>2, <2>3 DEF vars, files, Kept, Files
  <2> QED BY <2>1, <2>2, <2>3, WhoActs DEF Kept
<1>3. ASSUME NEW c \in Clients, Req(c) = r, pc[c] \in Terminating PROVE Kept(r)'
  <2>0. c \in Procs /\ c \notin Crashing /\ job[c].receipt.gen > 0
    BY <1>3 DEF Procs, OnlyWorkersDie, SchedulerTypes
  <2>1. ASSUME NEW p \in Procs, p # c, WorkerActs(p) \/ ClientActs(p) PROVE Kept(r)'
    BY <1>3, <2>0, <2>1, OthersFrame DEF Kept, Req
  <2>2. ASSUME ClientActs(c) PROVE Kept(r)'
    <3>1. TermCheck(c) \/ TermWrite(c)
      BY <1>3, <2>0, <2>2 DEF ClientActs, ClientStep, StartSubmit, StartCancel, SubQueued,
         SubRunning, SubCount, SubWrite, CanQueued, CanUnlink, CanRunning, CanMark, Crash,
         Terminating
    <3>2. CASE TermWrite(c)
      BY <1>3, <2>0, <3>2 DEF TermWrite, Kept, Files, Req, SchedulerTypes, TypeOK
    <3>3. CASE TermCheck(c) /\ r \in Files(terminal)
      BY <3>3, TerminalStays DEF Kept
    <3>4. CASE TermCheck(c) /\ r \notin Files(terminal)
      BY <1>3, <2>0, <3>4 DEF TermCheck, Goto, Kept, Req, Terminating, SchedulerTypes, TypeOK
    <3> QED BY <3>1, <3>2, <3>3, <3>4
  <2>3. CASE UNCHANGED vars
    BY <1>3, <2>3 DEF vars, Kept, Req
  <2>4. Workers \subseteq Procs /\ Clients \subseteq Procs /\ c \notin Workers
    BY SchedulerAssumption DEF Procs
  <2> QED BY <2>1, <2>2, <2>3, <2>4, WhoActs
<1> QED BY <1>1, <1>2, <1>3 DEF Kept

\* Where a worker comes to remove a running checkpoint.
LEMMA AboutToUnlink ==
    ASSUME SchedulerTypes, NEW w \in Workers, WorkerActs(w),
           pc'[w] \in {"unlink_running", "rec_unlink"}
    PROVE  Kept(Req(w))'
<1>0. /\ w \in Procs /\ w \notin Clients /\ job[w].req \in Requests
      /\ pc[w] = "rec_requeue" => job[w].ckpt.gen # 0
      /\ pc[w] \in Terminating => job[w].receipt.gen # 0
  BY SchedulerAssumption, JobOf DEF Procs, SchedulerTypes
<1>1. RecDecide(w) \/ RecRequeue(w) \/ TermCheck(w) \/ TermWrite(w)
  BY <1>0 DEF WorkerActs, WorkerStep, StartDispatch, StartRecover, Choose, Claim, Mark, Gates,
     Ingest, PersistInput, Spawn, Seal, UnlinkRunning, UnlinkCancel, RecNext,
     RecUnlink, Crash, Terminate, Done, Goto, SchedulerTypes, TypeOK
<1>2. CASE RecDecide(w)
  <2>1. Req(w) \in Files(terminal) /\ UNCHANGED <<job, terminal>>
    BY <1>0, <1>2 DEF RecDecide, Terminate, Done, Goto, files, SchedulerTypes, TypeOK
  <2> QED BY <2>1 DEF Kept, Files, Req
<1>3. CASE RecRequeue(w)
  <2>1. job'[w].req = job[w].req
    BY <1>0, <1>3 DEF RecRequeue, SchedulerTypes, TypeOK
  <2>2. job[w].req \in Files(queued)'
    BY <1>0, <1>3 DEF RecRequeue, Req, Files, SchedulerTypes, TypeOK
  <2> QED BY <2>1, <2>2 DEF Kept, Req
<1>4. CASE TermCheck(w)
  <2>1. Req(w) \in Files(terminal) /\ UNCHANGED <<job, terminal>>
    BY <1>0, <1>4 DEF TermCheck, Goto, files, SchedulerTypes, TypeOK
  <2> QED BY <2>1 DEF Kept, Files, Req
<1>5. CASE TermWrite(w)
  <2>1. job[w].req \in Files(terminal)' /\ UNCHANGED job
    BY <1>0, <1>5 DEF TermWrite, Req, Files, Terminating, SchedulerTypes, TypeOK
  <2> QED BY <2>1 DEF Kept, Req
<1> QED BY <1>1, <1>2, <1>3, <1>4, <1>5

\* Every step keeps an accepted request in a file or in the hands of a process.
LEMMA KeptInductive ==
    ASSUME OneWorker, OnlyWorkersDie
    PROVE  SchedulerTypes /\ KeptInv /\ [Next]_vars => KeptInv'
<1> SUFFICES ASSUME SchedulerTypes, KeptInv, [Next]_vars PROVE KeptInv'
  OBVIOUS
<1>0. Workers \subseteq Procs /\ Clients \subseteq Procs /\ accepted \subseteq Requests
  BY DEF Procs, SchedulerTypes, TypeOK
<1>1. ASSUME NEW w \in Workers, pc'[w] \in {"unlink_running", "rec_unlink"}
      PROVE  Kept(Req(w))'
  <2>1. CASE WorkerActs(w)
    BY <1>1, <2>1, AboutToUnlink
  <2>2. CASE ~WorkerActs(w)
    <3>1. pc'[w] = pc[w] /\ job'[w] = job[w]
      <4>1. ASSUME NEW c \in Clients, ClientActs(c) PROVE pc'[w] = pc[w] /\ job'[w] = job[w]
        BY <1>0, <4>1, OthersFrame, SchedulerAssumption
      <4>2. CASE UNCHANGED vars
        BY <4>2 DEF vars
      <4> QED BY <2>2, <4>1, <4>2, WhoActs DEF OneWorker
    <3>2. Kept(Req(w)) /\ Req(w)' = Req(w) /\ Req(w) \in Requests
      BY <1>0, <1>1, <3>1, JobOf DEF KeptInv, Req
    <3>3. ~ \E v \in Workers : Claim(v)
      BY <2>2 DEF OneWorker, WorkerActs, WorkerStep
    <3> QED BY <3>2, <3>3, KeptForward DEF Kept
  <2> QED BY <2>1, <2>2
<1>2. ASSUME NEW r \in accepted' PROVE Kept(r)' \/ r \in Files(running)'
  <2>1. CASE r \in accepted /\ Kept(r)
    BY <1>0, <2>1, KeptForward
  <2>2. CASE r \in accepted /\ ~Kept(r)
    <3>1. r \in Files(running) /\ r \in Requests
      BY <1>0, <2>2 DEF KeptInv
    <3>2. ASSUME NEW w \in Workers, WorkerActs(w) PROVE r \in Files(running)'
      <4>1. Req(w) \in Requests /\ job[w].ckpt \in Checkpoint
            /\ job[w].ckpt.gen \in Nat
        BY <1>0, JobOf DEF Req
      <4>2. pc[w] \in {"unlink_running", "rec_unlink"} => r # Req(w)
        BY <2>2 DEF KeptInv
      <4>3. \/ UNCHANGED running
            \/ \E x \in Checkpoint : running' = [running EXCEPT ![Req(w)] = x] /\ x.gen # 0
            \/ r # Req(w) /\ running' = [running EXCEPT ![Req(w)] = NoCheckpoint]
        <5>1. CASE Claim(w)
          BY <5>1, <4>1 DEF Claim, Files, SchedulerTypes, TypeOK
        <5>2. CASE Mark(w) \/ PersistInput(w)
          <6> DEFINE x == [job[w].ckpt EXCEPT !.gen = @ + 1]
          <6>1. running' = [running EXCEPT ![Req(w)] = x]
            BY <5>2 DEF Mark, PersistInput
          <6>2. x \in Checkpoint /\ x.gen # 0
            BY <4>1 DEF Checkpoint
          <6> HIDE DEF x
          <6> QED BY <6>1, <6>2
        <5>3. CASE ~Claim(w) /\ ~Mark(w) /\ ~PersistInput(w)
          BY <3>2, <4>2, <5>3 DEF WorkerActs, WorkerStep, StartDispatch, StartRecover, Choose, Gates,
             Ingest, Spawn, Seal, UnlinkRunning, UnlinkCancel, RecNext, RecDecide,
             RecRequeue, RecUnlink, TermCheck, TermWrite, Crash, files
        <5> QED BY <5>1, <5>2, <5>3
      <4> QED BY <3>1, <4>1, <4>3 DEF Files, SchedulerTypes, TypeOK
    <3>3. ASSUME NEW c \in Clients, ClientActs(c) PROVE r \in Files(running)'
      BY <3>1, <3>3, ClientFiles DEF Files
    <3>4. CASE UNCHANGED vars
      BY <3>1, <3>4 DEF vars, files, Files
    <3> QED BY <3>2, <3>3, <3>4, WhoActs
  <2>3. CASE r \notin accepted
    <3>1. PICK c \in Clients : SubWrite(c)
      <4>1. ASSUME NEW w \in Workers, WorkerActs(w) PROVE UNCHANGED accepted
        BY <4>1 DEF WorkerActs, WorkerStep, StartDispatch, StartRecover, Choose, Claim, Mark, Gates,
           Ingest, PersistInput, Spawn, Seal, UnlinkRunning, UnlinkCancel, RecNext, RecDecide,
           RecRequeue, RecUnlink, TermCheck, TermWrite, Crash, history
      <4>2. CASE UNCHANGED vars
        BY <4>2, <2>3 DEF vars, history
      <4> QED BY <2>3, <4>1, <4>2, WhoActs, ClientFiles
    <3>2. r = Req(c) /\ r \in Requests /\ job[c].ckpt.gen # 0
      BY <1>0, <2>3, <3>1, JobOf DEF SubWrite, Req, SchedulerTypes
    <3>3. r \in Files(queued)'
      BY <3>1, <3>2 DEF SubWrite, Files, SchedulerTypes, TypeOK
    <3> QED BY <3>3 DEF Kept
  <2> QED BY <2>1, <2>2, <2>3
<1> QED BY <1>1, <1>2 DEF KeptInv

\* With one worker, and kills that only hit the worker, no accepted request is
\* ever lost (claim by rename, requeue before unlink, receipt before unlink), and
\* the queue never holds more first submits than max_queued and one for every
\* client that raced past the check.
THEOREM QueueIsSound ==
    ASSUME OneWorker, OnlyWorkersDie
    PROVE  Spec => []QueueSound
<1>1. Init => KeptInv
  <2> SUFFICES ASSUME Init PROVE KeptInv
    OBVIOUS
  <2> QED BY DEF Init, KeptInv, Procs
<1>2. SchedulerTypes /\ KeptInv /\ BoundInv => QueueSound
  <2> SUFFICES ASSUME SchedulerTypes, KeptInv, BoundInv PROVE QueueSound
    OBVIOUS
  <2>1. NoRequestLost
    BY DEF KeptInv, Kept, NoRequestLost, Terminating
  <2>2. QueueBound
    BY CountsFinite, SchedulerAssumption DEF BoundInv, QueueBound, FirstTime
  <2> QED BY <2>1, <2>2 DEF QueueSound, SchedulerTypes
<1> QED BY <1>1, <1>2, KeptInductive, TypesInvariant, BoundInvariant, PTL DEF Spec

\* Backpressure holds whatever the processes do and whoever is killed.
THEOREM QueueIsBounded == Spec => []QueueBound
<1>1. BoundInv => QueueBound
  BY CountsFinite, SchedulerAssumption DEF BoundInv, QueueBound, FirstTime
<1> QED BY <1>1, BoundInvariant, PTL
-----------------------------------------------------------------------------
(* One run at a time *)

\* The steps of a dispatch and of the terminal write that keep the request and
\* the running checkpoints.
LEMMA WorkerKeepsRequest ==
    ASSUME SchedulerTypes, NEW w \in Workers,
           \/ Gates(w) \/ Ingest(w) \/ Spawn(w) \/ Seal(w) \/ TermCheck(w) \/ TermWrite(w)
    PROVE  UNCHANGED running /\ job'[w].req = job[w].req
<1>0. w \in Procs /\ w \notin Clients
  BY SchedulerAssumption DEF Procs
<1>1. UNCHANGED running
  BY DEF Gates, Ingest, Spawn, Seal, TermCheck, TermWrite, files
<1>2. CASE Gates(w) \/ Seal(w)
  BY <1>0, <1>1, <1>2, TerminateIs DEF Gates, Seal
<1>3. CASE Ingest(w)
  <2>1. job' = [job EXCEPT ![w].ckpt = [job[w].ckpt EXCEPT !.staged = TRUE]]
    BY <1>0, <1>3 DEF Ingest, SchedulerTypes, TypeOK
  <2> QED BY <1>0, <1>1, <2>1, CkptIs
<1>4. CASE Spawn(w) \/ TermCheck(w) \/ TermWrite(w)
  BY <1>0, <1>1, <1>4 DEF Spawn, TermCheck, TermWrite
<1> QED BY <1>2, <1>3, <1>4

\* Every step keeps a single request running.
LEMMA RunningInductive ==
    ASSUME OneWorker
    PROVE  SchedulerTypes /\ RunningInv /\ [Next]_vars => RunningInv'
<1> SUFFICES ASSUME SchedulerTypes, RunningInv, [Next]_vars PROVE RunningInv'
  OBVIOUS
<1> DEFINE AtIt(w) ==
      /\ pc[w] \in {"choose", "claim"} => Files(running) = {}
      /\ pc[w] \in {"mark"} \cup InRun \cup Terminating => Files(running) \subseteq {Req(w)}
<1>1. ASSUME NEW w \in Workers, WorkerActs(w) PROVE RunningInv'
  <2>0. w \in Procs /\ w \notin Clients /\ job[w].req \in Requests
    BY SchedulerAssumption, JobOf DEF Procs
  <2>a. (\A r, s \in Files(running) : r = s) /\ AtIt(w)
    BY DEF RunningInv
  <2>b. SUFFICES (\A r, s \in Files(running)' : r = s) /\ AtIt(w)'
    BY DEF OneWorker, RunningInv
  <2>c. ASSUME pc'[w] \in {"idle"} \cup Recovering, Files(running)' \subseteq Files(running)
        PROVE  (\A r, s \in Files(running)' : r = s) /\ AtIt(w)'
    BY <2>a, <2>c DEF Recovering, InRun, Terminating
  <2>d. ASSUME Files(running)' \subseteq {job'[w].req}, pc'[w] \notin {"choose", "claim"}
        PROVE  (\A r, s \in Files(running)' : r = s) /\ AtIt(w)'
    BY <2>d DEF Req
  <2>1. CASE StartDispatch(w)
    BY <2>0, <2>1 DEF StartDispatch, Goto, files, Files, InRun, Terminating, SchedulerTypes, TypeOK
  <2>2. CASE StartRecover(w) \/ RecNext(w) \/ RecRequeue(w) \/ Crash(w) \/ UnlinkCancel(w)
    <3>1. pc'[w] \in {"idle"} \cup Recovering
      BY <2>0, <2>2 DEF StartRecover, RecNext, RecRequeue, Crash, UnlinkCancel, Done, Goto,
         Recovering, SchedulerTypes, TypeOK
    <3>2. Files(running)' = Files(running)
      BY <2>2 DEF StartRecover, RecNext, RecRequeue, Crash, UnlinkCancel, files, Files
    <3> QED BY <2>c, <3>1, <3>2
  <2>3. CASE Choose(w)
    <3>1. UNCHANGED running /\ Files(running) = {} /\ pc'[w] \in {"idle", "claim"}
      BY <2>0, <2>3, <2>a DEF Choose, Done, Goto, files, SchedulerTypes, TypeOK
    <3> QED BY <3>1 DEF Files, InRun, Terminating
  <2>4. CASE Claim(w)
    <3>1. Files(running) = {}
      BY <2>4, <2>a DEF Claim
    <3>2. CASE Done(w) /\ UNCHANGED running
      BY <2>0, <3>1, <3>2, <2>c DEF Done, Goto, Files, SchedulerTypes, TypeOK
    <3>3. CASE Goto(w, "mark") /\ UNCHANGED job /\ running' = [running EXCEPT ![Req(w)] = queued[Req(w)]]
      <4>1. Files(running)' \subseteq {job'[w].req} /\ pc'[w] = "mark"
        BY <2>0, <3>1, <3>3 DEF Goto, Files, Req, SchedulerTypes, TypeOK
      <4> QED BY <4>1, <2>d
    <3> QED BY <2>4, <3>2, <3>3 DEF Claim
  <2>5. CASE Mark(w) \/ PersistInput(w)
    <3>1. Files(running) \subseteq {job[w].req}
      BY <2>5, <2>a DEF Mark, PersistInput, Req, InRun
    <3>2. Files(running)' \subseteq {job[w].req}
      BY <2>5, <3>1 DEF Mark, PersistInput, Req, Files, SchedulerTypes, TypeOK
    <3>3. job'[w].req = job[w].req
      BY <2>0, <2>5, CkptIs DEF Mark, PersistInput
    <3>4. pc'[w] \in {"gates", "spawn"}
      BY <2>0, <2>5 DEF Mark, PersistInput, Goto, SchedulerTypes, TypeOK
    <3> QED BY <3>2, <3>3, <3>4, <2>d
  <2>6. CASE Gates(w) \/ Ingest(w) \/ Spawn(w) \/ Seal(w) \/ TermCheck(w) \/ TermWrite(w)
    <3>1. Files(running) \subseteq {job[w].req}
      BY <2>6, <2>a DEF Gates, Ingest, Spawn, Seal, TermCheck, TermWrite, Req, InRun, Terminating
    <3>2. UNCHANGED running /\ job'[w].req = job[w].req
      BY <2>6, WorkerKeepsRequest
    <3>3. Files(running)' \subseteq {job'[w].req}
      BY <3>1, <3>2 DEF Files
    <3>4. pc'[w] \notin {"choose", "claim"}
      <4>1. job[w].after \notin {"choose", "claim"}
        BY <2>0, JobOf
      <4>2. CASE Gates(w) \/ Ingest(w) \/ Spawn(w) \/ Seal(w)
        BY <2>0, <4>2 DEF Gates, Ingest, Spawn, Seal, Terminate, Goto, SchedulerTypes, TypeOK
      <4>3. CASE TermCheck(w) \/ TermWrite(w)
        BY <2>0, <4>1, <4>3 DEF TermCheck, TermWrite, Goto, SchedulerTypes, TypeOK
      <4> QED BY <2>6, <4>2, <4>3
    <3> QED BY <3>3, <3>4, <2>d
  <2>7. CASE UnlinkRunning(w)
    <3>1. Files(running)' = {} /\ pc'[w] = "unlink_cancel"
      BY <2>0, <2>7, <2>a DEF UnlinkRunning, Goto, Files, Req, InRun, NoCheckpoint,
         SchedulerTypes, TypeOK
    <3> QED BY <3>1, <2>d
  <2>8. CASE RecDecide(w)
    <3>1. Files(running)' = Files(running)
      BY <2>8 DEF RecDecide, files, Files
    <3>2. CASE pc'[w] \in {"idle"} \cup Recovering
      BY <3>1, <3>2, <2>c
    <3>3. CASE pc'[w] \notin {"idle"} \cup Recovering
      <4>1. Req(w) \in Files(running) /\ Terminate(w, "cancelled", running[Req(w)].gen + 1, "rec_unlink")
        BY <2>0, <2>8, <3>3 DEF RecDecide, Done, Goto, Recovering, SchedulerTypes, TypeOK
      <4>2. Files(running) \subseteq {job[w].req}
        BY <4>1, <2>a DEF Req
      <4> QED BY <2>0, <3>1, <4>1, <4>2, <2>d, TerminateIs
    <3> QED BY <3>2, <3>3
  <2>9. CASE RecUnlink(w)
    <3>1. pc'[w] \in {"idle"} \cup Recovering
      BY <2>0, <2>9 DEF RecUnlink, Done, Goto, Recovering, SchedulerTypes, TypeOK
    <3>2. Files(running)' \subseteq Files(running)
      BY <2>0, <2>9 DEF RecUnlink, Files, Req, NoCheckpoint, SchedulerTypes, TypeOK
    <3> QED BY <3>1, <3>2, <2>c
  <2> QED BY <1>1, <2>1, <2>2, <2>3, <2>4, <2>5, <2>6, <2>7, <2>8, <2>9 DEF WorkerActs, WorkerStep
<1>2. ASSUME NEW c \in Clients, ClientActs(c) PROVE RunningInv'
  <2>1. Files(running)' = Files(running)
    BY <1>2, ClientFiles DEF Files
  <2>2. \A w \in Workers : pc'[w] = pc[w] /\ job'[w] = job[w]
    BY <1>2, OthersFrame, SchedulerAssumption DEF Procs
  <2> QED BY <2>1, <2>2 DEF RunningInv, Req
<1>3. CASE UNCHANGED vars
  BY <1>3 DEF vars, files, RunningInv, Files, Req
<1> QED BY <1>1, <1>2, <1>3, WhoActs
-----------------------------------------------------------------------------
(* A receipt is the last word *)

\* A worker only touches requests that are on disk already.
LEMMA WorkerTouches ==
    ASSUME SchedulerTypes, OwnerInv, OnceInv, NEW w \in Workers, WorkerActs(w)
    PROVE  /\ \A r \in Requests : Untouched(r) => Untouched(r)'
           /\ cancel' = {} /\ UNCHANGED <<submitted, accepted>>
<1>0. w \in Procs /\ job[w].req \in Requests
  BY JobOf DEF Procs
<1>1. cancel' = {} /\ UNCHANGED <<submitted, accepted>>
  BY DEF OwnerInv, WorkerActs, WorkerStep, StartDispatch, StartRecover, Choose, Claim, Mark, Gates,
     Ingest, PersistInput, Spawn, Seal, UnlinkRunning, UnlinkCancel, RecNext, RecDecide,
     RecRequeue, RecUnlink, TermCheck, TermWrite, Crash, files, history
<1>2. CASE Claim(w) \/ Mark(w) \/ PersistInput(w) \/ RecRequeue(w) \/ TermWrite(w)
  <2>1. ~Untouched(job[w].req)
    BY <1>2 DEF OnceInv, AtRequest, Claim, Mark, PersistInput, RecRequeue, TermWrite, Untouched, Req,
       Terminating
  <2>2. \A r \in Requests : r # job[w].req =>
          queued'[r] = queued[r] /\ running'[r] = running[r] /\ terminal'[r] = terminal[r]
    BY <1>2, <1>0 DEF Claim, Mark, PersistInput, RecRequeue, TermWrite, Req, SchedulerTypes, TypeOK
  <2>3. \A r \in Requests : Untouched(r) => Untouched(r)'
    BY <2>1, <2>2 DEF Untouched, Files
  <2> QED BY <1>1, <2>3
<1>3. CASE UnlinkRunning(w) \/ RecUnlink(w)
  <2>1. \A r \in Requests : /\ queued'[r] = queued[r] /\ terminal'[r] = terminal[r]
                            /\ running'[r] = running[r] \/ running'[r].gen = 0
    BY <1>3, <1>0 DEF UnlinkRunning, RecUnlink, Req, NoCheckpoint, SchedulerTypes, TypeOK
  <2>2. \A r \in Requests : Untouched(r) => Untouched(r)'
    BY <2>1 DEF Untouched, Files
  <2> QED BY <1>1, <2>2
<1>4. CASE UNCHANGED <<queued, running, terminal>>
  BY <1>1, <1>4 DEF Untouched, Files
<1>5. \/ Claim(w) \/ Mark(w) \/ PersistInput(w) \/ RecRequeue(w) \/ TermWrite(w)
      \/ UnlinkRunning(w) \/ RecUnlink(w) \/ UNCHANGED <<queued, running, terminal>>
  BY DEF WorkerActs, WorkerStep, StartDispatch, StartRecover, Choose, Gates,
     Ingest, Spawn, Seal, UnlinkCancel, RecNext, RecDecide, TermCheck, Crash, files
<1> QED BY <1>2, <1>3, <1>4, <1>5

\* Every step keeps each client at the requests it owns.
LEMMA OwnerInductive ==
    ASSUME MayCancel = FALSE, MayResubmit = FALSE
    PROVE  SchedulerTypes /\ OwnerInv /\ OnceInv /\ [Next]_vars => OwnerInv'
<1> SUFFICES ASSUME SchedulerTypes, OwnerInv, OnceInv, [Next]_vars PROVE OwnerInv'
  OBVIOUS
<1>0. Workers \subseteq Procs /\ Clients \subseteq Procs /\ Workers \cap Clients = {}
      /\ submitted \subseteq Requests
      /\ \A c \in Clients : job[c].req \in Requests /\ (pc[c] # "idle" => job[c].req \in submitted)
  BY SchedulerAssumption, JobOf DEF Procs, SchedulerTypes, TypeOK, Req
<1>a. \A c \in Clients : job'[c].req \in Requests
  <2>1. SchedulerTypes'
    BY TypesInductive
  <2> QED BY <1>0, <2>1 DEF SchedulerTypes, TypeOK, Locals
<1>1. ASSUME NEW w \in Workers, WorkerActs(w) PROVE OwnerInv'
  <2>1. \A c \in Clients : pc'[c] = pc[c] /\ job'[c] = job[c]
    BY <1>0, <1>1, OthersFrame
  <2>2. \A c \in Clients : pc'[c] # "idle" => Untouched(Req(c))'
    BY <1>0, <1>1, <2>1, WorkerTouches DEF OwnerInv, Req, Untouched, Files
  <2>3. \A r \in Requests \ submitted' : Untouched(r)'
    BY <1>1, WorkerTouches DEF OwnerInv
  <2> QED BY <1>1, <2>1, <2>2, <2>3, WorkerTouches DEF OwnerInv, Req
<1>2. ASSUME NEW c \in Clients, ClientActs(c) PROVE OwnerInv'
  <2>1. \A b \in Clients : b # c => pc'[b] = pc[b] /\ job'[b] = job[b]
    BY <1>0, <1>2, OthersFrame
  <2>2. cancel' = {} /\ pc'[c] \notin Cancelling
    <3>1. pc[c] \notin Cancelling /\ cancel = {}
      BY DEF OwnerInv
    <3> QED BY <1>0, <1>2, <3>1 DEF ClientActs, ClientStep, StartSubmit, StartCancel, SubQueued,
            SubRunning, SubCount, SubWrite, CanQueued, CanUnlink, CanRunning, CanMark, TermCheck,
            TermWrite, Crash, Terminate, Done, Goto, files, Cancelling, SchedulerTypes, TypeOK
  <2>3. ASSUME NEW T \in SUBSET Requests, UNCHANGED <<queued, running, terminal>>,
               submitted' = submitted \cup T,
               \A r \in T : r \notin submitted,
               pc'[c] # "idle" => (pc[c] # "idle" /\ job'[c].req = job[c].req) \/ job'[c].req \in T
        PROVE  OwnerInv'
    <3>1. \A r \in Requests : Untouched(r)' <=> Untouched(r)
      BY <2>3 DEF Untouched, Files
    <3>2. \A r \in Requests \ submitted' : Untouched(r)'
      BY <2>3, <3>1 DEF OwnerInv
    <3>3. \A b \in Clients : \A r \in Requests :
            pc'[b] # "idle" /\ job'[b].req = r => Untouched(r)'
      BY <1>0, <2>1, <2>3, <3>1 DEF OwnerInv, Req
    <3>4. \A a, b \in Clients : pc'[a] # "idle" /\ pc'[b] # "idle" /\ job'[a].req = job'[b].req
                                  => a = b
      BY <1>0, <2>1, <2>3 DEF OwnerInv, Req
    <3>5. \A b \in Clients : pc'[b] # "idle" => Untouched(Req(b))'
      BY <1>a, <3>3 DEF Req, Untouched, Files
    <3> QED BY <2>1, <2>2, <3>2, <3>4, <3>5 DEF OwnerInv, Req
  <2>4. CASE StartSubmit(c)
    <3>1. PICK r \in Requests : /\ r \notin submitted /\ job' = [job EXCEPT ![c].req = r]
                                /\ submitted' = submitted \cup {r}
      BY <2>4 DEF StartSubmit
    <3>2. job'[c].req = r
      <4>1. job'[c] = [job[c] EXCEPT !.req = r] /\ job[c] \in Locals
        BY <1>0, <3>1, JobOf DEF SchedulerTypes, TypeOK
      <4> QED BY <4>1 DEF Locals
    <3>3. UNCHANGED <<queued, running, terminal>>
      BY <2>4 DEF StartSubmit, files
    <3>4. {r} \in SUBSET Requests /\ (\A q \in {r} : q \notin submitted) /\ job'[c].req \in {r}
      BY <3>1, <3>2
    <3> QED BY <3>1, <3>3, <3>4, <2>3, Zenon
  <2>5. CASE SubQueued(c) \/ SubRunning(c) \/ SubCount(c) \/ TermCheck(c) \/ Crash(c)
    <3>1. UNCHANGED <<queued, running, terminal, submitted>> /\ pc[c] # "idle"
      BY <2>5 DEF SubQueued, SubRunning, SubCount, TermCheck, Crash, files, history
    <3>2. pc'[c] # "idle" => job'[c].req = job[c].req
      <4>1. CASE SubCount(c)
        BY <1>0, <4>1, TerminateIs, CkptIs DEF SubCount
      <4>2. CASE SubQueued(c) \/ SubRunning(c) \/ TermCheck(c) \/ Crash(c)
        BY <1>0, <4>2 DEF SubQueued, SubRunning, TermCheck, Crash, Done, Goto, SchedulerTypes, TypeOK
      <4> QED BY <2>5, <4>1, <4>2
    <3>3. {} \in SUBSET Requests /\ submitted' = submitted \cup {}
      BY <3>1
    <3> QED BY <3>1, <3>2, <3>3, <2>3, Zenon
  <2>6. CASE SubWrite(c) \/ TermWrite(c)
    <3>1. pc[c] # "idle" /\ pc'[c] = "idle" /\ UNCHANGED submitted
      BY <1>0, <2>6 DEF SubWrite, TermWrite, Done, Goto, history, SchedulerTypes, TypeOK
    <3>2. \A r \in Requests : r # job[c].req => (Untouched(r)' <=> Untouched(r))
      <4>1. \A r \in Requests : r # job[c].req =>
              queued'[r] = queued[r] /\ running'[r] = running[r] /\ terminal'[r] = terminal[r]
        BY <2>6 DEF SubWrite, TermWrite, Req, SchedulerTypes, TypeOK
      <4> QED BY <4>1 DEF Untouched, Files
    <3>3. \A b \in Clients : \A r \in Requests :
            pc'[b] # "idle" /\ job'[b].req = r => Untouched(r)'
      BY <1>0, <2>1, <3>1, <3>2 DEF OwnerInv, Req
    <3>4. \A r \in Requests \ submitted' : Untouched(r)'
      BY <1>0, <3>1, <3>2 DEF OwnerInv
    <3>5. \A b \in Clients : pc'[b] # "idle" => Untouched(Req(b))'
      BY <1>a, <3>3 DEF Req, Untouched, Files
    <3> QED BY <2>1, <2>2, <3>1, <3>4, <3>5 DEF OwnerInv, Req
  <2>7. ~(StartCancel(c) \/ CanQueued(c) \/ CanUnlink(c) \/ CanRunning(c) \/ CanMark(c))
    BY DEF OwnerInv, StartCancel, CanQueued, CanUnlink, CanRunning, CanMark, Cancelling
  <2> QED BY <1>2, <2>4, <2>5, <2>6, <2>7 DEF ClientActs, ClientStep
<1>3. CASE UNCHANGED vars
  BY <1>3 DEF vars, files, history, OwnerInv, Untouched, Files, Req
<1> QED BY <1>1, <1>2, <1>3, WhoActs

\* Clients keep receipts last.
LEMMA OnceClient ==
    ASSUME SchedulerTypes, OwnerInv, OnceInv, NEW c \in Clients, ClientActs(c)
    PROVE  OnceInv'
<1>0. /\ c \in Procs /\ job[c].req \in Requests /\ Workers \subseteq Procs /\ c \notin Workers
      /\ \A w \in Workers : job[w].req \in Requests
      /\ pc[c] # "idle" => Untouched(job[c].req)
  BY SchedulerAssumption, JobOf DEF Procs, OwnerInv, Req
<1>1. UNCHANGED running /\ \A w \in Workers : pc'[w] = pc[w] /\ job'[w] = job[w]
  BY <1>0, OthersFrame, ClientFiles
<1>2. \A r \in Requests : ~Untouched(r) => queued'[r] = queued[r] /\ terminal'[r] = terminal[r]
  <2>1. \/ UNCHANGED <<queued, terminal>> \/ SubWrite(c) \/ TermWrite(c)
    BY DEF ClientActs, ClientStep, StartSubmit, StartCancel, SubQueued, SubRunning, SubCount,
       CanQueued, CanUnlink, CanRunning, CanMark, TermCheck, Crash, files, OwnerInv, Cancelling
  <2>2. CASE SubWrite(c) \/ TermWrite(c)
    BY <1>0, <2>2 DEF SubWrite, TermWrite, Req, SchedulerTypes, TypeOK
  <2> QED BY <2>1, <2>2
<1>3. ReceiptsLast'
  <2>1. ASSUME NEW r \in Files(terminal)' PROVE queued'[r].gen = 0 /\ running'[r].gen < terminal'[r].gen
    <3>0. r \in Requests
      BY DEF Files
    <3>1. CASE ~Untouched(r)
      BY <1>1, <1>2, <2>1, <3>0, <3>1 DEF Files, OnceInv, ReceiptsLast
    <3>2. CASE Untouched(r)
      <4>1. TermWrite(c) /\ r = job[c].req
        <5>1. terminal'[r] # terminal[r]
          BY <2>1, <3>2 DEF Untouched, Files
        <5> QED BY <3>0, <5>1 DEF ClientActs, ClientStep, StartSubmit, StartCancel, SubQueued,
                SubRunning, SubCount, SubWrite, CanQueued, CanUnlink, CanRunning, CanMark, TermCheck,
                TermWrite, Crash, files, Req, SchedulerTypes, TypeOK
      <4>2. terminal'[r].gen > 0 /\ UNCHANGED queued
        BY <1>0, <3>0, <4>1 DEF TermWrite, Req, Terminating, SchedulerTypes, TypeOK
      <4> QED BY <1>1, <3>0, <3>2, <4>2 DEF Untouched, Files
    <3> QED BY <3>1, <3>2
  <2> QED BY <2>1 DEF ReceiptsLast
<1>4. ASSUME NEW w \in Workers PROVE AtRequest(w)'
  <2>1. AtRequest(w)
    BY DEF OnceInv
  <2>2. \/ Untouched(job[w].req)
        \/ queued'[job[w].req] = queued[job[w].req] /\ terminal'[job[w].req] = terminal[job[w].req]
    BY <1>0, <1>2
  <2> QED BY <1>0, <1>1, <2>1, <2>2 DEF AtRequest, Req, Untouched, Files
<1> QED BY <1>3, <1>4 DEF OnceInv

\* The worker keeps receipts last.
LEMMA OnceReceipts ==
    ASSUME SchedulerTypes, OwnerInv, OnceInv, NEW w \in Workers, WorkerActs(w)
    PROVE  ReceiptsLast'
<1>0. w \in Procs /\ job[w].req \in Requests /\ AtRequest(w) /\ ReceiptsLast
  BY JobOf DEF Procs, OnceInv
<1>1. CASE Claim(w) \/ Mark(w) \/ PersistInput(w) \/ RecRequeue(w)
  <2>1. job[w].req \notin Files(terminal) /\ UNCHANGED terminal
    BY <1>0, <1>1 DEF Claim, Mark, PersistInput, RecRequeue, AtRequest, ReceiptsLast, Req, Files
  <2>2. \A r \in Requests : r # job[w].req => queued'[r] = queued[r] /\ running'[r] = running[r]
    BY <1>0, <1>1 DEF Claim, Mark, PersistInput, RecRequeue, Req, SchedulerTypes, TypeOK
  <2> QED BY <1>0, <2>1, <2>2 DEF ReceiptsLast, Files
<1>2. CASE UnlinkRunning(w) \/ RecUnlink(w)
  <2>1. UNCHANGED <<queued, terminal>>
        /\ \A r \in Requests : running'[r] = running[r] \/ running'[r].gen = 0
    BY <1>0, <1>2 DEF UnlinkRunning, RecUnlink, Req, NoCheckpoint, SchedulerTypes, TypeOK
  <2>2. \A r \in Requests : terminal[r].gen \in Nat
    BY FileOf
  <2> QED BY <1>0, <2>1, <2>2 DEF ReceiptsLast, Files
<1>3. CASE TermWrite(w)
  <2>1. terminal'[job[w].req] = job[w].receipt /\ UNCHANGED <<queued, running>>
        /\ \A r \in Requests : r # job[w].req => terminal'[r] = terminal[r]
    BY <1>0, <1>3 DEF TermWrite, Req, SchedulerTypes, TypeOK
  <2>2. queued[job[w].req].gen = 0 /\ running[job[w].req].gen < job[w].receipt.gen
    BY <1>0, <1>3 DEF TermWrite, AtRequest, Req, Files, Terminating
  <2> QED BY <1>0, <2>1, <2>2 DEF ReceiptsLast, Files
<1>4. CASE UNCHANGED <<queued, running, terminal>>
  BY <1>0, <1>4 DEF ReceiptsLast, Files
<1>5. \/ Claim(w) \/ Mark(w) \/ PersistInput(w) \/ RecRequeue(w) \/ TermWrite(w)
      \/ UnlinkRunning(w) \/ RecUnlink(w) \/ UNCHANGED <<queued, running, terminal>>
  BY DEF WorkerActs, WorkerStep, StartDispatch, StartRecover, Choose, Gates,
     Ingest, Spawn, Seal, UnlinkCancel, RecNext, RecDecide, TermCheck, Crash, files
<1> QED BY <1>1, <1>2, <1>3, <1>4, <1>5

\* The worker stays at the request it claimed.
LEMMA OnceWorker ==
    ASSUME SchedulerTypes, OwnerInv, OnceInv, NEW w \in Workers, WorkerActs(w)
    PROVE  AtRequest(w)'
<1>0. /\ w \in Procs /\ w \notin Clients /\ job[w].req \in Requests /\ AtRequest(w) /\ ReceiptsLast
      /\ job[w].ckpt \in Checkpoint /\ job[w].ckpt.gen \in Nat
  BY SchedulerAssumption, JobOf DEF Procs, OnceInv
<1>r. running[job[w].req].gen \in Nat /\ queued[job[w].req].gen \in Nat
  BY <1>0, FileOf
<1> DEFINE Quiet == {"idle", "choose", "unlink_running", "unlink_cancel", "rec_next",
                     "rec_decide", "rec_unlink"}
<1>q. ASSUME pc'[w] \in Quiet PROVE AtRequest(w)'
  BY <1>q DEF AtRequest, Terminating
<1>1. CASE StartDispatch(w) \/ StartRecover(w) \/ RecNext(w) \/ RecRequeue(w) \/ RecUnlink(w)
           \/ UnlinkRunning(w) \/ UnlinkCancel(w) \/ Crash(w)
  <2>1. pc'[w] \in Quiet
    BY <1>0, <1>1 DEF StartDispatch, StartRecover, RecNext, RecRequeue, RecUnlink, UnlinkRunning,
       UnlinkCancel, Crash, Done, Goto, SchedulerTypes, TypeOK
  <2> QED BY <2>1, <1>q
<1>2. CASE Choose(w)
  <2>1. CASE Done(w)
    BY <1>0, <2>1, <1>q DEF Done, Goto, SchedulerTypes, TypeOK
  <2>2. ASSUME NEW r \in NextQueued, job' = [job EXCEPT ![w].req = r, ![w].ckpt = queued[r]],
               Goto(w, "claim")
        PROVE  AtRequest(w)'
    <3>1. pc'[w] = "claim" /\ UNCHANGED queued /\ r \in Files(queued)
      BY <1>0, <1>2, <2>2 DEF Choose, Goto, files, NextQueued, SchedulerTypes, TypeOK
    <3>2. job'[w].req = r /\ job'[w].ckpt = queued[r]
      <4>1. job'[w] = [job[w] EXCEPT !.req = r, !.ckpt = queued[r]] /\ job[w] \in Locals
        BY <1>0, <2>2, JobOf DEF SchedulerTypes, TypeOK
      <4> QED BY <4>1 DEF Locals
    <3> QED BY <3>1, <3>2 DEF AtRequest, Req, Files, Terminating
  <2> QED BY <1>2, <2>1, <2>2 DEF Choose
<1>3. CASE Claim(w)
  <2>1. CASE Done(w)
    BY <1>0, <2>1, <1>q DEF Done, Goto, SchedulerTypes, TypeOK
  <2>2. CASE Goto(w, "mark") /\ UNCHANGED job
             /\ running' = [running EXCEPT ![Req(w)] = queued[Req(w)]]
             /\ queued' = [queued EXCEPT ![Req(w)] = NoCheckpoint]
    <3>1. pc'[w] = "mark" /\ UNCHANGED <<job, terminal>>
      BY <1>0, <1>3, <2>2 DEF Claim, Goto, SchedulerTypes, TypeOK
    <3>2. job[w].req \in Files(queued) /\ job[w].ckpt = queued[job[w].req]
          /\ job[w].req \notin Files(terminal)
      BY <1>0, <1>3 DEF Claim, AtRequest, ReceiptsLast, Req, Files
    <3>3. running'[job[w].req] = queued[job[w].req] /\ queued'[job[w].req].gen = 0
      BY <1>0, <2>2 DEF Req, NoCheckpoint, SchedulerTypes, TypeOK
    <3> QED BY <1>0, <1>r, <3>1, <3>2, <3>3 DEF AtRequest, Req, Files, Terminating
  <2> QED BY <1>3, <2>1, <2>2 DEF Claim
<1>4. CASE Mark(w)
  <2> DEFINE next == [job[w].ckpt EXCEPT !.gen = @ + 1]
  <2>1. next.gen = job[w].ckpt.gen + 1
    BY <1>0 DEF Checkpoint
  <2>2. running' = [running EXCEPT ![Req(w)] = next] /\ job' = [job EXCEPT ![w].ckpt = next]
    BY <1>4 DEF Mark
  <2> HIDE DEF next
  <2>3. pc'[w] = "gates" /\ UNCHANGED <<queued, terminal>> /\ running'[job[w].req] = next
    BY <1>0, <1>4, <2>2 DEF Mark, Goto, Req, SchedulerTypes, TypeOK
  <2>4. job'[w].req = job[w].req /\ job'[w].ckpt = next
    BY <1>0, <2>2, CkptIs
  <2>5. job[w].req \notin Files(queued) \cup Files(terminal)
    BY <1>0, <1>4 DEF AtRequest, Mark, Req
  <2> QED BY <1>0, <2>1, <2>3, <2>4, <2>5 DEF AtRequest, Req, Files, Terminating
<1>5. CASE Gates(w)
  <2>1. /\ job[w].req \in Files(running) /\ job[w].req \notin Files(queued) \cup Files(terminal)
        /\ running[job[w].req].gen <= job[w].ckpt.gen /\ UNCHANGED <<queued, running, terminal>>
    BY <1>0, <1>5 DEF Gates, AtRequest, Req, files
  <2>2. CASE Goto(w, "ingest") /\ UNCHANGED job
    BY <1>0, <2>1, <2>2 DEF Goto, AtRequest, Req, Files, Terminating, SchedulerTypes, TypeOK
  <2>3. ASSUME NEW s, Terminate(w, s, job[w].ckpt.gen + 1, "unlink_running") PROVE AtRequest(w)'
    <3>1. pc'[w] = "term_check" /\ job'[w].req = job[w].req
      BY <1>0, <2>3, TerminateIs
    <3>2. job'[w].receipt.gen = job[w].ckpt.gen + 1
      BY <1>0, <2>3, TerminateGen
    <3> QED BY <1>0, <1>r, <2>1, <3>1, <3>2 DEF AtRequest, Req, Files, Terminating
  <2> QED BY <1>5, <2>2, <2>3 DEF Gates
<1>6. CASE Ingest(w)
  <2>1. /\ job[w].req \in Files(running) /\ job[w].req \notin Files(queued) \cup Files(terminal)
        /\ running[job[w].req].gen <= job[w].ckpt.gen /\ UNCHANGED <<queued, running, terminal>>
    BY <1>0, <1>6 DEF Ingest, AtRequest, Req, files
  <2> DEFINE k == [job[w].ckpt EXCEPT !.staged = TRUE]
  <2>2. job' = [job EXCEPT ![w].ckpt = k] /\ pc'[w] = "checkpoint"
    BY <1>0, <1>6 DEF Ingest, Goto, SchedulerTypes, TypeOK
  <2>3. k.gen = job[w].ckpt.gen
    BY <1>0 DEF Checkpoint
  <2> HIDE DEF k
  <2>4. job'[w].req = job[w].req /\ job'[w].ckpt = k
    BY <1>0, <2>2, CkptIs
  <2> QED BY <2>1, <2>2, <2>3, <2>4 DEF AtRequest, Req, Files, Terminating
<1>7. CASE PersistInput(w)
  <2> DEFINE next == [job[w].ckpt EXCEPT !.gen = @ + 1]
  <2>1. next.gen = job[w].ckpt.gen + 1
    BY <1>0 DEF Checkpoint
  <2>2. running' = [running EXCEPT ![Req(w)] = next]
    BY <1>7 DEF PersistInput
  <2> HIDE DEF next
  <2>3. pc'[w] = "spawn" /\ UNCHANGED <<queued, terminal, job>> /\ running'[job[w].req] = next
    BY <1>0, <1>7, <2>2 DEF PersistInput, Goto, Req, SchedulerTypes, TypeOK
  <2>4. job[w].req \notin Files(queued) \cup Files(terminal)
    BY <1>0, <1>7 DEF AtRequest, PersistInput, Req
  <2> QED BY <1>0, <2>1, <2>3, <2>4 DEF AtRequest, Req, Files, Terminating
<1>8. CASE Spawn(w)
  BY <1>0, <1>8 DEF Spawn, Goto, files, AtRequest, Req, Files, Terminating, SchedulerTypes, TypeOK
<1>9. CASE Seal(w)
  <2>1. /\ job[w].req \in Files(running) /\ job[w].req \notin Files(queued) \cup Files(terminal)
        /\ running[job[w].req].gen <= job[w].ckpt.gen + 1 /\ UNCHANGED <<queued, running, terminal>>
    BY <1>0, <1>9 DEF Seal, AtRequest, Req, files
  <2>2. PICK s : Terminate(w, s, job[w].ckpt.gen + 2, "unlink_running")
    BY <1>9 DEF Seal
  <2>3. pc'[w] = "term_check" /\ job'[w].req = job[w].req
    BY <1>0, <2>2, TerminateIs
  <2>4. job'[w].receipt.gen = job[w].ckpt.gen + 2
    BY <1>0, <2>2, TerminateGen
  <2> QED BY <1>0, <1>r, <2>1, <2>3, <2>4 DEF AtRequest, Req, Files, Terminating
<1>10. CASE RecDecide(w)
  <2>1. UNCHANGED <<queued, running, terminal>> /\ Req(w) \notin cancel
    BY <1>10 DEF RecDecide, files, OwnerInv
  <2>2. CASE Done(w) \/ Goto(w, "rec_unlink")
    BY <1>0, <2>2, <1>q DEF Done, Goto, SchedulerTypes, TypeOK
  <2>3. ASSUME NEW k, Req(w) \in Files(running), Req(w) \notin Files(terminal),
               job' = [job EXCEPT ![w].ckpt = k], Goto(w, "rec_requeue")
        PROVE  AtRequest(w)'
    <3>1. pc'[w] = "rec_requeue" /\ job'[w].req = job[w].req
      BY <1>0, <2>3, CkptIs DEF Goto, SchedulerTypes, TypeOK
    <3> QED BY <2>1, <2>3, <3>1 DEF AtRequest, Req, Files, Terminating
  <2> QED BY <1>10, <2>1, <2>2, <2>3 DEF RecDecide
<1>11. CASE TermCheck(w)
  <2>1. /\ pc[w] \in Terminating /\ job[w].req \notin Files(terminal)
        /\ UNCHANGED <<queued, running, terminal>>
    BY <1>0, <1>11 DEF TermCheck, AtRequest, Req, files, Terminating
  <2>2. pc'[w] = "term_write" /\ UNCHANGED job
    BY <1>0, <1>11, <2>1 DEF TermCheck, Goto, Req, SchedulerTypes, TypeOK
  <2> QED BY <1>0, <2>1, <2>2 DEF AtRequest, Req, Files, Terminating
<1>12. CASE TermWrite(w)
  <2>1. pc'[w] \in Quiet
    BY <1>0, <1>12, JobOf DEF TermWrite, Goto, SchedulerTypes, TypeOK
  <2> QED BY <2>1, <1>q
<1> QED BY <1>1, <1>2, <1>3, <1>4, <1>5, <1>6, <1>7, <1>8, <1>9, <1>10, <1>11, <1>12
        DEF WorkerActs, WorkerStep

\* Every step keeps receipts last and written once.
LEMMA OnceInductive ==
    ASSUME OneWorker
    PROVE  SchedulerTypes /\ OwnerInv /\ OnceInv /\ [Next]_vars => OnceInv'
<1> SUFFICES ASSUME SchedulerTypes, OwnerInv, OnceInv, [Next]_vars PROVE OnceInv'
  OBVIOUS
<1>1. ASSUME NEW w \in Workers, WorkerActs(w) PROVE OnceInv'
  <2>1. ReceiptsLast' /\ AtRequest(w)'
    BY <1>1, OnceReceipts, OnceWorker
  <2>2. \A v \in Workers : v = w
    BY DEF OneWorker
  <2> QED BY <2>1, <2>2 DEF OnceInv
<1>2. CASE UNCHANGED vars
  BY <1>2 DEF vars, files, OnceInv, ReceiptsLast, AtRequest, Files, Req
<1> QED BY <1>1, <1>2, WhoActs, OnceClient

\* The inductive invariant of the runs holds in every reachable state.
LEMMA OnceInvariant ==
    ASSUME OneWorker, MayCancel = FALSE, MayResubmit = FALSE
    PROVE  Spec => [](SchedulerTypes /\ RunningInv /\ OwnerInv /\ OnceInv)
<1>1. Init => RunningInv /\ OwnerInv /\ OnceInv
  <2> SUFFICES ASSUME Init PROVE RunningInv /\ OwnerInv /\ OnceInv
    OBVIOUS
  <2>1. /\ Files(queued) = {} /\ Files(running) = {} /\ Files(terminal) = {}
        /\ \A p \in Procs : pc[p] = "idle"
    BY DEF Init, Files, NoCheckpoint, NoReceipt
  <2>2. RunningInv
    BY <2>1 DEF RunningInv, Procs
  <2>3. OwnerInv
    BY <2>1 DEF Init, OwnerInv, Procs, Untouched, Cancelling
  <2>4. OnceInv
    BY <2>1 DEF OnceInv, ReceiptsLast, AtRequest, Procs, Terminating
  <2> QED BY <2>2, <2>3, <2>4
<1> QED BY <1>1, RunningInductive, OwnerInductive, OnceInductive, TypesInvariant, PTL DEF Spec

\* With one worker, running/ never holds two checkpoints: a dispatch starts on an
\* empty directory only, and recovery leaves none behind.
THEOREM OneRunAtATime ==
    ASSUME OneWorker
    PROVE  Spec => []OneRunning
<1>1. Init => RunningInv
  <2> SUFFICES ASSUME Init PROVE RunningInv
    OBVIOUS
  <2> QED BY DEF Init, Files, NoCheckpoint, RunningInv, Procs
<1>2. RunningInv => OneRunning
  <2> SUFFICES ASSUME RunningInv PROVE OneRunning
    OBVIOUS
  <2>1. CASE Files(running) = {}
    BY <2>1, FS_EmptySet DEF OneRunning
  <2>2. ASSUME NEW r \in Files(running) PROVE OneRunning
    <3>1. Files(running) = {r}
      BY DEF RunningInv
    <3> QED BY <3>1, FS_Singleton DEF OneRunning
  <2> QED BY <2>1, <2>2
<1> QED BY <1>1, <1>2, RunningInductive, TypesInvariant, PTL DEF Spec

\* With one worker, no cancellation and every id submitted once, through any
\* number of kills and recoveries: at most one checkpoint is in running/, and no
\* checkpoint on disk is of a later generation than the request's receipt.
THEOREM RunsAreSound ==
    ASSUME OneWorker, MayCancel = FALSE, MayResubmit = FALSE
    PROVE  Spec => []RunsSound
<1>1. SchedulerTypes /\ OnceInv => TerminalIsNewest
  <2> SUFFICES ASSUME SchedulerTypes, OnceInv, NEW r \in Files(terminal)
               PROVE  queued[r].gen < terminal[r].gen /\ running[r].gen < terminal[r].gen
    BY DEF TerminalIsNewest
  <2>1. r \in Requests /\ terminal[r].gen # 0
    BY DEF Files
  <2>2. terminal[r].gen \in Nat
    BY <2>1, FileOf
  <2> QED BY <2>1, <2>2 DEF OnceInv, ReceiptsLast
<1>2. OneRunning /\ TerminalIsNewest => RunsSound
  BY DEF RunsSound
<1> QED BY <1>1, <1>2, OnceInvariant, OneRunAtATime, PTL

\* Under the same conditions a receipt is written once, and a request that has
\* one is never given to the runner again: what _write_terminal_once and the
\* order receipt, unlink promise.
THEOREM ReceiptIsFinal ==
    ASSUME OneWorker, MayCancel = FALSE, MayResubmit = FALSE
    PROVE  Spec => FinishedOnce
<1> DEFINE Final == \A r \in Files(terminal) : terminal'[r] = terminal[r] /\ runs'[r] = runs[r]
<1>1. ASSUME SchedulerTypes, OwnerInv, OnceInv, [Next]_vars PROVE [Final]_vars
  <2>1. ASSUME NEW w \in Workers, WorkerActs(w) PROVE Final
    <3>0. w \in Procs /\ job[w].req \in Requests /\ AtRequest(w)
      BY <1>1, JobOf DEF Procs, OnceInv
    <3>1. CASE TermWrite(w) \/ Spawn(w)
      <4>1. job[w].req \notin Files(terminal)
        BY <3>0, <3>1 DEF TermWrite, Spawn, AtRequest, Req, Terminating
      <4>2. \A r \in Requests : r # job[w].req => terminal'[r] = terminal[r] /\ runs'[r] = runs[r]
        BY <1>1, <3>0, <3>1 DEF TermWrite, Spawn, Req, files, history, SchedulerTypes, TypeOK
      <4> QED BY <4>1, <4>2 DEF Files
    <3>2. CASE UNCHANGED <<terminal, runs>>
      BY <3>2
    <3>3. TermWrite(w) \/ Spawn(w) \/ UNCHANGED <<terminal, runs>>
      BY <2>1 DEF WorkerActs, WorkerStep, StartDispatch, StartRecover, Choose, Claim, Mark, Gates,
         Ingest, PersistInput, Seal, UnlinkRunning, UnlinkCancel, RecNext, RecDecide,
         RecRequeue, RecUnlink, TermCheck, Crash, files, history
    <3> QED BY <3>1, <3>2, <3>3
  <2>2. ASSUME NEW c \in Clients, ClientActs(c) PROVE Final
    <3>0. c \in Procs /\ job[c].req \in Requests
      BY <1>1, JobOf DEF Procs
    <3>1. CASE TermWrite(c)
      <4>1. job[c].req \notin Files(terminal)
        BY <1>1, <3>1 DEF TermWrite, OwnerInv, Untouched, Req
      <4>2. UNCHANGED runs /\ \A r \in Requests : r # job[c].req => terminal'[r] = terminal[r]
        BY <1>1, <3>0, <3>1 DEF TermWrite, Req, history, SchedulerTypes, TypeOK
      <4> QED BY <4>1, <4>2 DEF Files
    <3>2. CASE UNCHANGED <<terminal, runs>>
      BY <3>2
    <3>3. TermWrite(c) \/ UNCHANGED <<terminal, runs>>
      BY <2>2 DEF ClientActs, ClientStep, StartSubmit, StartCancel, SubQueued, SubRunning, SubCount,
         SubWrite, CanQueued, CanUnlink, CanRunning, CanMark, TermCheck, Crash, files, history
    <3> QED BY <3>1, <3>2, <3>3
  <2> QED BY <1>1, <2>1, <2>2, WhoActs
<1> QED BY <1>1, OnceInvariant, PTL DEF Spec, FinishedOnce
-----------------------------------------------------------------------------
(* First come, first served *)

\* The requests that were and stay queued for the first time grow older together.
LEMMA GrowOlder ==
    ASSUME SchedulerTypes, seniority \in [Requests -> Nat], OrderNext
    PROVE  /\ seniority' \in [Requests -> Nat]
           /\ \E k \in Nat : /\ \A r \in FirstTime : queued'[r] = queued[r] => seniority'[r] = seniority[r] + k
                             /\ Enqueued # {} => k > 0
           /\ \A r \in Enqueued : seniority'[r] = 0
<1> DEFINE k == Cardinality(Enqueued)
<1>1. IsFiniteSet(Enqueued)
  BY SchedulerAssumption, FS_Subset DEF Enqueued
<1>2. k \in Nat /\ (Enqueued # {} => k > 0)
  BY <1>1, FS_CardinalityType, FS_EmptySet
<1>3. seniority' = [r \in Requests |->
                      IF r \in Files(queued) \ Enqueued THEN seniority[r] + k ELSE 0]
  BY DEF OrderNext
<1> HIDE DEF k
<1>4. seniority' \in [Requests -> Nat]
  BY <1>2, <1>3
<1>5. \A r \in FirstTime : queued'[r] = queued[r] => r \in Files(queued) \ Enqueued /\ r \in Requests
  BY FileOf DEF FirstTime, Enqueued, Files
<1>6. \A r \in Enqueued : r \in Requests
  BY DEF Enqueued
<1> QED BY <1>2, <1>3, <1>4, <1>5, <1>6

\* Every step keeps sequence numbers in the order of arrival.
LEMMA ArrivalInductive ==
    ASSUME OneClient
    PROVE  SchedulerTypes /\ OwnerInv /\ ArrivalInv /\ [OrderNext]_<<vars, seniority>> => ArrivalInv'
<1> SUFFICES ASSUME SchedulerTypes, OwnerInv, ArrivalInv, [OrderNext]_<<vars, seniority>>
             PROVE  ArrivalInv'
  OBVIOUS
<1>1. CASE UNCHANGED <<vars, seniority>>
  <2>1. UNCHANGED <<queued, pc, job, seniority>>
    BY <1>1 DEF vars, files
  <2> QED BY <2>1 DEF ArrivalInv, FirstTime, Writing, Files
<1>2. CASE OrderNext
  <2>0. seniority' \in [Requests -> Nat] /\ seniority \in [Requests -> Nat]
    BY <1>2, GrowOlder DEF ArrivalInv
  <2>1. PICK k \in Nat : /\ \A r \in FirstTime : queued'[r] = queued[r] =>
                                                   seniority'[r] = seniority[r] + k
                         /\ Enqueued # {} => k > 0
    BY <1>2, GrowOlder DEF ArrivalInv
  <2>s. FirstTime \subseteq Requests
    BY DEF FirstTime, Files
  <2>a. ASSUME FirstTime' \subseteq FirstTime, \A r \in FirstTime' : queued'[r] = queued[r],
               \A c \in Writing' : \A r \in FirstTime : queued[r].seq < job'[c].ckpt.seq
        PROVE  ArrivalInv'
    <3>1. \A r, s \in FirstTime' : seniority'[r] > seniority'[s] => queued'[r].seq < queued'[s].seq
      BY <2>0, <2>1, <2>a, <2>s DEF ArrivalInv
    <3>2. \A c \in Writing' : \A r \in FirstTime' : queued'[r].seq < job'[c].ckpt.seq
      BY <2>a
    <3> QED BY <2>0, <3>1, <3>2 DEF ArrivalInv
  <2>2. ASSUME NEW w \in Workers, WorkerActs(w) PROVE ArrivalInv'
    <3>0. /\ w \in Procs /\ w \notin Clients /\ Clients \subseteq Procs /\ job[w].req \in Requests
          /\ pc[w] = "rec_requeue" => job[w].ckpt.gen # 1
      BY SchedulerAssumption, JobOf DEF Procs, SchedulerTypes
    <3>1. \A c \in Clients : pc'[c] = pc[c] /\ job'[c] = job[c]
      BY <2>2, <3>0, OthersFrame
    <3>2. FirstTime' \subseteq FirstTime /\ \A r \in FirstTime' : queued'[r] = queued[r]
      <4>1. CASE UNCHANGED queued
        BY <4>1 DEF FirstTime, Files
      <4>2. CASE Claim(w) /\ queued' = [queued EXCEPT ![Req(w)] = NoCheckpoint]
        BY <3>0, <4>2 DEF FirstTime, Files, NoCheckpoint, SchedulerTypes, TypeOK
      <4>3. CASE RecRequeue(w)
        BY <3>0, <4>3 DEF RecRequeue, FirstTime, Files, Req, SchedulerTypes, TypeOK
      <4> QED BY <2>2, <4>1, <4>2, <4>3, WorkerQueue
    <3> QED BY <3>1, <3>2, <2>a DEF Writing, ArrivalInv
  <2>3. ASSUME NEW c \in Clients, ClientActs(c) PROVE ArrivalInv'
    <3>0. c \in Procs /\ job[c].req \in Requests /\ \A b \in Clients : b = c
      BY JobOf DEF Procs, OneClient
    <3>1. CASE SubWrite(c)
      <4>1. /\ pc[c] = "sub_write" /\ pc'[c] = "idle" /\ job[c].ckpt.gen = 1
            /\ job[c].req \notin Files(queued)
        BY <3>0, <3>1 DEF SubWrite, Done, Goto, OwnerInv, Untouched, Req, SchedulerTypes, TypeOK
      <4>2. /\ queued'[job[c].req] = job[c].ckpt
            /\ \A r \in Requests : r # job[c].req => queued'[r] = queued[r]
        BY <3>0, <3>1 DEF SubWrite, Req, SchedulerTypes, TypeOK
      <4>3. job[c].req \in Enqueued
        BY <3>0, <4>1, <4>2 DEF Enqueued, Files
      <4>4. k > 0 /\ seniority'[job[c].req] = 0
        BY <1>2, <2>1, <4>3, GrowOlder DEF ArrivalInv
      <4>5. FirstTime' \subseteq FirstTime \cup {job[c].req} /\ job[c].req \notin FirstTime
        BY <4>1, <4>2 DEF FirstTime, Files
      <4>6. \A r \in FirstTime : /\ queued'[r] = queued[r] /\ seniority'[r] = seniority[r] + k
                                 /\ queued[r].seq < job[c].ckpt.seq
        BY <2>1, <2>s, <4>1, <4>2, <4>5 DEF ArrivalInv, Writing
      <4>7. Writing' = {}
        BY <3>0, <4>1 DEF Writing
      <4>8. \A r \in FirstTime : seniority[r] \in Nat
        BY <2>0, <2>s
      <4>9. ASSUME NEW r \in FirstTime', NEW s \in FirstTime', seniority'[r] > seniority'[s]
            PROVE  queued'[r].seq < queued'[s].seq
        <5>1. r \in FirstTime
          <6>1. seniority'[s] \in Nat
            BY <2>0 DEF FirstTime, Files
          <6> QED BY <4>4, <4>5, <4>9, <6>1
        <5>2. CASE s \in FirstTime
          BY <4>6, <4>8, <4>9, <5>1, <5>2 DEF ArrivalInv
        <5>3. CASE s = job[c].req
          BY <4>2, <4>6, <5>1, <5>3
        <5> QED BY <4>5, <5>2, <5>3
      <4> QED BY <2>0, <4>7, <4>9 DEF ArrivalInv
    <3>2. CASE ~SubWrite(c)
      <4>1. UNCHANGED queued
        <5>1. ~CanUnlink(c)
          BY DEF CanUnlink, OwnerInv, Cancelling
        <5> QED BY <2>3, <3>2, <5>1, ClientFiles
      <4>2. FirstTime' = FirstTime
        BY <4>1 DEF FirstTime, Files
      <4>3. ASSUME pc'[c] = "sub_write"
            PROVE  \A r \in FirstTime : queued[r].seq < job'[c].ckpt.seq
        <5>1. SubCount(c)
          BY <2>3, <3>0, <3>2, <4>3 DEF ClientActs, ClientStep, StartSubmit, StartCancel, SubQueued,
             SubRunning, CanQueued, CanUnlink, CanRunning, CanMark, TermCheck, TermWrite, Crash,
             Terminate, Done, Goto, SchedulerTypes, TypeOK
        <5> DEFINE j == [gen |-> 1, seq |-> NextSequence(Files(queued)), staged |-> FALSE]
        <5>2. job' = [job EXCEPT ![c].ckpt = j]
          BY <3>0, <4>3, <5>1 DEF SubCount, Terminate, Goto, SchedulerTypes, TypeOK
        <5>3. j.seq = NextSequence(Files(queued))
          OBVIOUS
        <5> HIDE DEF j
        <5>4. job'[c].ckpt = j
          BY <3>0, <5>2, CkptIs
        <5> QED BY <5>3, <5>4, NextSequenceIs DEF FirstTime, Files, SchedulerTypes
      <4> QED BY <3>0, <4>1, <4>2, <4>3, <2>a DEF Writing
    <3> QED BY <3>1, <3>2
  <2>4. CASE UNCHANGED vars
    <3>1. UNCHANGED <<queued, pc, job>>
      BY <2>4 DEF vars, files
    <3> QED BY <3>1, <2>a DEF ArrivalInv, FirstTime, Writing, Files
  <2>5. [Next]_vars
    BY <1>2 DEF OrderNext
  <2> QED BY <2>2, <2>3, <2>4, <2>5, WhoActs
<1> QED BY <1>1, <1>2

\* First come, first served among equals, for one worker and one client that
\* submits every id once: whatever was dispatched, killed and recovered meanwhile,
\* _queue_sort_key never takes the later of two first submits of one priority and
\* pool, although the numbers it sorts by are reused.
THEOREM EqualsAreInOrder ==
    ASSUME OneWorker, OneClient, MayCancel = FALSE, MayResubmit = FALSE
    PROVE  OrderSpec => EqualsInOrder
<1> DEFINE InOrder ==
      \A w \in Workers : Choose(w) /\ job'[w] # Fresh =>
         LET s == job'[w].req IN
         ~ \E r \in Files(queued) :
            /\ Prio[r] = Prio[s] /\ PoolRank(r) = PoolRank(s)
            /\ queued[r].gen = 1 /\ queued[s].gen = 1
            /\ seniority[r] > seniority[s]
<1>1. OrderSpec => Spec
  <2>1. OrderInit => Init
    BY DEF OrderInit
  <2>2. [OrderNext]_<<vars, seniority>> => [Next]_vars
    BY DEF OrderNext
  <2> QED BY <2>1, <2>2, PTL DEF OrderSpec, Spec
<1>2. OrderInit => ArrivalInv
  <2> SUFFICES ASSUME OrderInit PROVE ArrivalInv
    OBVIOUS
  <2>1. FirstTime = {} /\ Writing = {}
    BY DEF OrderInit, Init, FirstTime, Writing, Files, NoCheckpoint, Procs
  <2> QED BY <2>1 DEF OrderInit, ArrivalInv
<1>3. ASSUME SchedulerTypes, ArrivalInv PROVE [InOrder]_<<vars, seniority>>
  <2> SUFFICES ASSUME NEW w \in Workers, Choose(w), job'[w] # Fresh,
                      NEW r \in Files(queued), Prio[r] = Prio[job'[w].req],
                      PoolRank(r) = PoolRank(job'[w].req),
                      queued[r].gen = 1, queued[job'[w].req].gen = 1,
                      seniority[r] > seniority[job'[w].req]
               PROVE  FALSE
    OBVIOUS
  <2>0. w \in Procs
    BY DEF Procs
  <2>1. PICK s \in NextQueued : job' = [job EXCEPT ![w].req = s, ![w].ckpt = queued[s]]
    BY <1>3, <2>0 DEF Choose, Done, SchedulerTypes, TypeOK
  <2>2. job'[w].req = s
    <3>1. job'[w] = [job[w] EXCEPT !.req = s, !.ckpt = queued[s]] /\ job[w] \in Locals
      BY <1>3, <2>0, <2>1, JobOf DEF SchedulerTypes, TypeOK
    <3> QED BY <3>1 DEF Locals
  <2> DEFINE S == {queued[q].seq : q \in Files(queued)}
             L == Max(S)
  <2>3. s \in Files(queued) /\ Before(s, r, L)
    BY <2>1 DEF NextQueued
  <2>4. r \in Requests /\ s \in Requests
    BY <2>3 DEF Files
  <2>5. queued[r].seq < queued[s].seq
    BY <1>3, <2>2, <2>3 DEF ArrivalInv, FirstTime
  <2>6. Prio[r] = Prio[s] /\ Prio[s] \in Int /\ queued[r].seq \in Nat /\ queued[s].seq \in Nat
    BY <1>3, <2>2, <2>4, FileOf, SchedulerAssumption
  <2>7. L \in Int
    <3> DEFINE f == [q \in Requests |-> queued[q].seq]
    <3>1. f \in [Requests -> Nat] /\ \A q \in Requests : f[q] = queued[q].seq
      BY <1>3 DEF SchedulerTypes, TypeOK, Checkpoint
    <3>2. Files(queued) \in SUBSET Requests /\ Files(queued) # {}
      BY DEF Files
    <3>3. PICK m \in Files(queued) : \A q \in Files(queued) : f[m] >= f[q]
      <4> HIDE DEF f
      <4> QED BY <3>1, <3>2, LargestExists
    <3>4. queued[m].seq \in S /\ \A y \in S : queued[m].seq >= y
      BY <3>1, <3>2, <3>3
    <3>5. L \in S
      BY <3>4 DEF Max
    <3> QED BY <1>3, <3>2, <3>5, FileOf
  <2> HIDE DEF L
  <2> QED BY <2>2, <2>3, <2>5, <2>6, <2>7 DEF Before, EffectivePriority
<1> QED BY <1>1, <1>2, <1>3, OnceInvariant, ArrivalInductive, PTL DEF OrderSpec, EqualsInOrder
=============================================================================
