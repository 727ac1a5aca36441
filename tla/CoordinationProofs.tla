-------------------------- MODULE CoordinationProofs --------------------------
(***************************************************************************)
(* Proofs about the two protocols by which processes that share a          *)
(* directory keep out of each other's way: the spool and the lane ledger.  *)
(***************************************************************************)
EXTENDS Spool, Lanes, FiniteSetTheorems, SequenceTheorems, TLAPS
-----------------------------------------------------------------------------
(***************************************************************************)
(* The spool, for any number of senders, messages, sends and kills.        *)
(* TypeOK holds of every instance.  That an expired message stays dead     *)
(* needs one receiver; that the imports are one chain without duplicates   *)
(* needs, besides, that no two senders queue the same message.             *)
(***************************************************************************)
OneReceiver == \A q, r \in Receivers : q = r
OwnMessages == \A s, t \in Senders : s # t => SendsOf[s] \cap SendsOf[t] = {}

Sending == {"write_message", "write_signature"}
Verified == {"dup_check", "chain_check", "ttl_check", "import"}
Receiving == {"read_signature", "quarantine", "dead_letter", "ack"} \cup Verified
Reconciling == {"reconcile", "rebuild"}

IsJob(j) == j = [msg |-> j.msg, sig |-> j.sig, late |-> j.late, ack |-> j.ack, todo |-> j.todo]

\* TypeOK with what each process has in hand at each of its steps.
SpoolTypes ==
    /\ TypeOK
    /\ sigs = [m \in Messages |-> sigs[m]]
    /\ \A m \in Messages : sigs[m].seq \in 0..sends
    /\ job = [p \in Procs |-> job[p]]
    /\ \A p \in Procs : IsJob(job[p])
    /\ \A s \in Senders : /\ pc[s] \in {"idle"} \cup Sending
                          /\ pc[s] \in Sending => /\ Msg(s) \in SendsOf[s]
                                                  /\ IsSig(job[s].sig, Msg(s))
                                                  /\ job[s].sig.seq \in 1..sends
    /\ \A r \in Receivers : /\ pc[r] \in {"idle"} \cup Receiving \cup Reconciling
                            /\ pc[r] \in Receiving => Msg(r) \in queued
                            /\ pc[r] \in Verified => job[r].sig.seq \in 1..sends
                            /\ pc[r] = "rebuild" => Msg(r) \in imported

\* A signature file is never replaced by an older one.
Ahead == \A s \in Senders : pc[s] \in Sending => sigs[Msg(s)].seq < job[s].sig.seq

\* The signatures of the imported messages are as new as those they were
\* accepted with, and the one about to be accepted is newer than all of these.
ChainInv ==
    /\ \A c \in chain : c.seq \in 1..sends
    /\ \A c \in chain : \E m \in imported : c.seq <= sigs[m].seq
    /\ \A r \in Receivers : pc[r] \in Verified => job[r].sig.seq <= sigs[Msg(r)].seq
    /\ \A r \in Receivers : pc[r] \in {"ttl_check", "import"} =>
                              \A c \in chain : c.seq < job[r].sig.seq
    /\ OneChain

\* What is about to be imported has no duplicate among the imports.
KeyInv ==
    /\ NoDuplicateImport
    /\ \A r \in Receivers : pc[r] \in {"chain_check", "ttl_check", "import"} =>
                              \A m \in imported : Key[m] # Key[Msg(r)]

\* What a receiver saw of the clock is still true of the acknowledgements.
ExpiryInv ==
    /\ \A m \in Messages : acks[m] = "EXPIRED" => m \in expired
    /\ \A r \in Receivers :
         /\ pc[r] \in {"read_signature", "dup_check", "chain_check", "ttl_check"} =>
              IF job[r].late THEN Msg(r) \in expired ELSE acks[Msg(r)] # "EXPIRED"
         /\ pc[r] = "import" => acks[Msg(r)] # "EXPIRED"
         /\ pc[r] \in {"quarantine", "dead_letter", "import", "ack"} =>
              (job[r].ack = "EXPIRED" => Msg(r) \in expired)
-----------------------------------------------------------------------------
(* Typing *)

\* The latest signature is none, or one of the set with the highest number.
LEMMA LatestIs ==
    ASSUME NEW S, NEW s \in Latest(S)
    PROVE  \/ S = {} /\ s = NoSig
           \/ s \in S /\ \A t \in S : t.seq <= s.seq
  BY DEF Latest

\* What a step of one process has to show for the types to be kept: what it
\* writes, and what the process has in hand after it.
FilesTyped ==
    /\ queued \subseteq queued' /\ queued' \subseteq Messages
    /\ imported \subseteq imported' /\ imported' \subseteq queued'
    /\ sigs' = [m \in Messages |-> sigs'[m]]
    /\ \A m \in Messages : /\ sigs'[m] = NoSig \/ IsSig(sigs'[m], m)
                           /\ sigs'[m].seq \in 0..sends'
    /\ acks' \in [Messages -> AckStatus]
    /\ quarantine' \subseteq queued' /\ dlq' \subseteq queued' /\ UNCHANGED world
    /\ sends' \in 0..MaxSends /\ sends <= sends' /\ crashes' \in 0..MaxCrashes
Moves(p, step, j) ==
    /\ pc' = [pc EXCEPT ![p] = step] /\ job' = [job EXCEPT ![p] = j]
    /\ step \in Steps /\ IsJob(j)
    /\ j.ack \in AckStatus /\ j.todo \subseteq imported'
    /\ step # "idle" => j.msg \in Messages \/ step = "reconcile"
    /\ p \in Senders => /\ step \in {"idle"} \cup Sending
                        /\ step \in Sending => /\ j.msg \in SendsOf[p]
                                               /\ IsSig(j.sig, j.msg)
                                               /\ j.sig.seq \in 1..sends'
    /\ p \in Receivers => /\ step \in {"idle"} \cup Receiving \cup Reconciling
                          /\ step \in Receiving => j.msg \in queued'
                          /\ step \in Verified => j.sig.seq \in 1..sends'
                          /\ step = "rebuild" => j.msg \in imported'

\* A typed move of one process keeps the types.
LEMMA TypesStep ==
    ASSUME SpoolTypes, NEW p \in Procs, NEW j, NEW step, Moves(p, step, j), FilesTyped
    PROVE  SpoolTypes'
<1>1. /\ job' = [q \in Procs |-> job'[q]] /\ job'[p] = j /\ pc'[p] = step
      /\ \A q \in Procs : q # p => job'[q] = job[q] /\ pc'[q] = pc[q]
      /\ pc' \in [Procs -> Steps]
  BY DEF SpoolTypes, TypeOK, Moves
<1>2. \A q \in Procs : IsJob(job'[q])
  BY <1>1 DEF SpoolTypes, Moves
<1>3. sends \in Nat /\ sends' \in Nat /\ \A k \in 1..sends : k \in 1..sends'
  BY SpoolAssumption DEF SpoolTypes, TypeOK, FilesTyped
<1>4. TypeOK'
  <2>1. \A q \in Procs : /\ job'[q].ack \in AckStatus
                         /\ job'[q].todo \in SUBSET imported'
                         /\ pc'[q] # "idle" => job'[q].msg \in Messages \/ pc'[q] = "reconcile"
    BY <1>1 DEF SpoolTypes, TypeOK, Msg, Moves, FilesTyped
  <2> QED BY <1>1, <2>1 DEF SpoolTypes, TypeOK, Msg, world, IsSig, FilesTyped
<1>5. ASSUME NEW s \in Senders
      PROVE  /\ pc'[s] \in {"idle"} \cup Sending
             /\ pc'[s] \in Sending => /\ job'[s].msg \in SendsOf[s]
                                      /\ IsSig(job'[s].sig, job'[s].msg)
                                      /\ job'[s].sig.seq \in 1..sends'
  BY <1>1, <1>3 DEF SpoolTypes, Procs, Msg, Moves, FilesTyped
<1>6. ASSUME NEW r \in Receivers
      PROVE  /\ pc'[r] \in {"idle"} \cup Receiving \cup Reconciling
             /\ pc'[r] \in Receiving => job'[r].msg \in queued'
             /\ pc'[r] \in Verified => job'[r].sig.seq \in 1..sends'
             /\ pc'[r] = "rebuild" => job'[r].msg \in imported'
  BY <1>1, <1>3 DEF SpoolTypes, Procs, Msg, Moves, FilesTyped
<1> QED BY <1>1, <1>2, <1>4, <1>5, <1>6 DEF SpoolTypes, Msg, IsJob, IsSig, FilesTyped

\* The facts about a process that SpoolTypes gives.
LEMMA JobOf ==
    ASSUME SpoolTypes, NEW p \in Procs
    PROVE  /\ IsJob(job[p]) /\ job[p].ack \in AckStatus /\ job[p].todo \subseteq imported
           /\ pc[p] # "idle" => job[p].msg \in Messages \/ pc[p] = "reconcile"
           /\ \A j : [job EXCEPT ![p] = j][p] = j
           /\ sends \in 0..MaxSends /\ sends \in Nat /\ crashes \in 0..MaxCrashes
           /\ queued \subseteq Messages /\ imported \subseteq queued
           /\ quarantine \subseteq queued /\ dlq \subseteq queued
           /\ acks \in [Messages -> AckStatus]
           /\ sigs = [m \in Messages |-> sigs[m]]
           /\ \A m \in Messages : /\ sigs[m] = NoSig \/ IsSig(sigs[m], m)
                                  /\ sigs[m].seq \in 0..sends
  BY SpoolAssumption DEF SpoolTypes, TypeOK, Msg

\* Ending a call keeps the types.
LEMMA DoneTypes ==
    ASSUME SpoolTypes, NEW p \in Procs, Done(p), UNCHANGED <<files, world, sends>>,
           crashes' \in 0..MaxCrashes
    PROVE  SpoolTypes'
<1>1. /\ IsJob(Fresh) /\ Fresh.ack \in AckStatus /\ Fresh.todo = {} /\ "idle" \in Steps
      /\ "idle" \notin Sending /\ "idle" \notin Receiving /\ "idle" \notin Verified
  BY DEF IsJob, Fresh, AckStatus, Steps, Sending, Receiving, Verified
<1>2. pc' = [pc EXCEPT ![p] = "idle"] /\ job' = [job EXCEPT ![p] = Fresh]
  BY DEF Done, Goto
<1>3. /\ UNCHANGED <<queued, sigs, imported, acks, quarantine, dlq, sends>> /\ UNCHANGED world
  BY DEF files
<1> HIDE DEF Fresh
<1>4. FilesTyped
  BY <1>3, JobOf DEF FilesTyped
<1>5. Moves(p, "idle", Fresh)
  BY <1>1, <1>2 DEF Moves
<1> QED BY <1>4, <1>5, TypesStep

\* The steps of a sender keep the types.
LEMMA SenderTypes ==
    ASSUME SpoolTypes, NEW s \in Senders, StartQueue(s) \/ SenderStep(s)
    PROVE  SpoolTypes'
<1>0. s \in Procs /\ s \notin Receivers /\ IsJob(job[s])
  BY SpoolAssumption DEF Procs, SpoolTypes
<1>1. CASE StartQueue(s)
  <2>1. PICK m \in SendsOf[s], prior \in Latest(AllSigs) :
          job' = [job EXCEPT ![s].msg = m,
                             ![s].sig = [msg |-> m, seq |-> prior.seq + 1, prev |-> prior]]
    BY <1>1 DEF StartQueue
  <2> DEFINE g == [msg |-> m, seq |-> prior.seq + 1, prev |-> prior]
             j == [[job[s] EXCEPT !.msg = m] EXCEPT !.sig = g]
  <2>2. job' = [job EXCEPT ![s] = j] /\ pc' = [pc EXCEPT ![s] = "write_message"]
    BY <1>1, <2>1 DEF StartQueue, Goto
  <2>3. m \in Messages
    BY SpoolAssumption
  <2>4. sends' = sends + 1 /\ sends' \in 0..MaxSends /\ sends \in Nat
    BY <1>0, <1>1, JobOf, SpoolAssumption DEF StartQueue
  <2>5. prior.seq \in 0..sends
    <3>1. CASE prior = NoSig
      BY <2>4, <3>1 DEF NoSig
    <3>2. CASE prior \in AllSigs
      BY <1>0, <3>2, JobOf DEF AllSigs
    <3> QED BY <3>1, <3>2, LatestIs
  <2>6. g.seq \in 1..sends' /\ IsSig(g, m) /\ \A k \in 0..sends : k \in 0..sends'
    BY <2>4, <2>5, SpoolAssumption DEF IsSig
  <2>7. /\ IsJob(j) /\ j.msg = m /\ j.sig = g /\ j.ack = job[s].ack /\ j.todo = job[s].todo
    <3> DEFINE k == [job[s] EXCEPT !.msg = m]
    <3>1. IsJob(k) /\ k.msg = m /\ k.ack = job[s].ack /\ k.todo = job[s].todo
      BY <1>0 DEF IsJob
    <3> HIDE DEF k
    <3>2. /\ IsJob([k EXCEPT !.sig = g]) /\ [k EXCEPT !.sig = g].msg = k.msg
          /\ [k EXCEPT !.sig = g].sig = g /\ [k EXCEPT !.sig = g].ack = k.ack
          /\ [k EXCEPT !.sig = g].todo = k.todo
      BY <3>1 DEF IsJob
    <3> QED BY <3>1, <3>2 DEF k
  <2>8. /\ UNCHANGED <<queued, sigs, imported, acks, quarantine, dlq, crashes>>
        /\ UNCHANGED world
    BY <1>1 DEF StartQueue, files
  <2>9. "write_message" \in Steps /\ "write_message" \in Sending
    BY DEF Steps, Sending
  <2> HIDE DEF g, j
  <2>10. FilesTyped
    BY <1>0, <2>4, <2>6, <2>8, JobOf DEF FilesTyped
  <2>11. Moves(s, "write_message", j)
    BY <1>0, <2>2, <2>3, <2>6, <2>7, <2>8, <2>9, JobOf DEF Moves
  <2> QED BY <1>0, <2>10, <2>11, TypesStep
<1>2. CASE WriteMessage(s)
  <2>1. /\ pc' = [pc EXCEPT ![s] = "write_signature"] /\ job' = [job EXCEPT ![s] = job[s]]
        /\ queued' = queued \cup {job[s].msg} /\ pc[s] \in Sending
        /\ UNCHANGED <<sigs, imported, acks, quarantine, dlq, sends, crashes>>
        /\ UNCHANGED world
    <3>1. [job EXCEPT ![s] = job[s]] = job
      BY <1>0 DEF SpoolTypes
    <3> QED BY <1>0, <1>2, <3>1 DEF WriteMessage, Goto, Msg, bounds, Sending
  <2>2. /\ job[s].msg \in SendsOf[s] /\ job[s].msg \in Messages /\ IsSig(job[s].sig, job[s].msg)
        /\ job[s].sig.seq \in 1..sends
    BY <2>1, SpoolAssumption DEF SpoolTypes, Msg
  <2>3. "write_signature" \in Steps /\ "write_signature" \in Sending
    BY DEF Steps, Sending
  <2>4. FilesTyped
    BY <1>0, <2>1, <2>2, JobOf DEF FilesTyped
  <2>5. Moves(s, "write_signature", job[s])
    BY <1>0, <2>1, <2>2, <2>3, JobOf DEF Moves
  <2> QED BY <1>0, <2>4, <2>5, TypesStep
<1>3. CASE WriteSignature(s)
  <2>1. /\ pc' = [pc EXCEPT ![s] = "idle"] /\ job' = [job EXCEPT ![s] = Fresh]
        /\ sigs' = [sigs EXCEPT ![job[s].msg] = job[s].sig] /\ pc[s] \in Sending
        /\ UNCHANGED <<queued, imported, acks, quarantine, dlq, sends, crashes>>
        /\ UNCHANGED world
    BY <1>0, <1>3 DEF WriteSignature, Done, Goto, Msg, bounds, Sending
  <2>2. /\ job[s].msg \in Messages /\ IsSig(job[s].sig, job[s].msg)
        /\ job[s].sig.seq \in 1..sends
    BY <2>1, SpoolAssumption DEF SpoolTypes, Msg
  <2>3. /\ sigs' = [m \in Messages |-> sigs'[m]]
        /\ \A m \in Messages : /\ sigs'[m] = NoSig \/ IsSig(sigs'[m], m)
                               /\ sigs'[m].seq \in 0..sends
    <3>1. /\ sigs = [m \in Messages |-> sigs[m]]
          /\ \A m \in Messages : /\ sigs[m] = NoSig \/ IsSig(sigs[m], m)
                                 /\ sigs[m].seq \in 0..sends
      BY <1>0, JobOf
    <3>2. \A m \in Messages : sigs'[m] = IF m = job[s].msg THEN job[s].sig ELSE sigs[m]
      BY <2>1, <3>1
    <3>3. job[s].sig.seq \in 0..sends
      BY <1>0, <2>2, JobOf
    <3> QED BY <2>1, <2>2, <3>1, <3>2, <3>3
  <2>4. /\ IsJob(Fresh) /\ Fresh.ack \in AckStatus /\ Fresh.todo = {} /\ "idle" \in Steps
        /\ "idle" \notin Sending
    BY DEF IsJob, Fresh, AckStatus, Steps, Sending
  <2> HIDE DEF Fresh
  <2>5. FilesTyped
    BY <1>0, <2>1, <2>3, JobOf DEF FilesTyped
  <2>6. Moves(s, "idle", Fresh)
    BY <1>0, <2>1, <2>4 DEF Moves
  <2> QED BY <1>0, <2>5, <2>6, TypesStep
<1> QED BY <1>1, <1>2, <1>3 DEF SenderStep

\* The steps of receive keep the types.
LEMMA ReceiveTypes ==
    ASSUME SpoolTypes, NEW r \in Receivers,
           \/ StartReceive(r) \/ ReadSignature(r) \/ DupCheck(r) \/ ChainCheck(r)
           \/ TtlCheck(r) \/ Quarantine(r) \/ DeadLetter(r) \/ Import(r) \/ WriteAck(r)
    PROVE  SpoolTypes'
<1>0. r \in Procs /\ r \notin Senders /\ [job EXCEPT ![r] = job[r]] = job /\ IsJob(job[r])
  BY SpoolAssumption DEF Procs, SpoolTypes
<1>1. CASE \E m \in queued : job' = [job EXCEPT ![r].msg = m, ![r].late = m \in expired]
           /\ StartReceive(r)
  <2>1. PICK m \in queued : job' = [job EXCEPT ![r].msg = m, ![r].late = m \in expired]
    BY <1>1
  <2> DEFINE k == [job[r] EXCEPT !.msg = m]
             j == [k EXCEPT !.late = m \in expired]
  <2>2. IsJob(k) /\ k.msg = m /\ k.ack = job[r].ack /\ k.todo = job[r].todo
    BY <1>0 DEF IsJob
  <2>3. job' = [job EXCEPT ![r] = j] /\ pc' = [pc EXCEPT ![r] = "read_signature"]
    <3>1. job' = [job EXCEPT ![r] = j]
      BY <2>1
    <3>2. pc' = [pc EXCEPT ![r] = "read_signature"]
      BY <1>1 DEF StartReceive, Goto
    <3> QED BY <3>1, <3>2
  <2> HIDE DEF k
  <2>4. IsJob(j) /\ j.msg = m /\ j.ack = job[r].ack /\ j.todo = job[r].todo
    BY <2>2 DEF IsJob
  <2> HIDE DEF j
  <2>5. /\ UNCHANGED <<queued, sigs, imported, acks, quarantine, dlq, sends, crashes>>
        /\ UNCHANGED world
    BY <1>1 DEF StartReceive, files, bounds
  <2>6. /\ "read_signature" \in Steps /\ "read_signature" \in Receiving
        /\ "read_signature" \notin Verified
    BY DEF Steps, Receiving, Verified
  <2>7. FilesTyped
    BY <1>0, <2>5, JobOf DEF FilesTyped
  <2>8. Moves(r, "read_signature", j)
    BY <1>0, <2>3, <2>4, <2>5, <2>6, JobOf DEF Moves
  <2> QED BY <1>0, <2>7, <2>8, TypesStep
<1>2. ASSUME pc[r] \in Receiving, UNCHANGED <<files, world, bounds>>,
             NEW step \in {"dup_check", "chain_check", "ttl_check", "import", "quarantine",
                           "dead_letter"},
             pc' = [pc EXCEPT ![r] = step],
             step \in {"chain_check", "ttl_check", "import"} => pc[r] \in Verified,
             \/ UNCHANGED job /\ step # "dup_check"
             \/ \E a \in AckStatus : job' = [job EXCEPT ![r].ack = a] /\ step # "dup_check"
             \/ /\ step = "dup_check" /\ sigs[job[r].msg] # NoSig
                /\ job' = [job EXCEPT ![r].sig = sigs[job[r].msg]]
      PROVE  SpoolTypes'
  <2>1. job[r].msg \in queued /\ job[r].msg \in Messages
    BY <1>0, <1>2, JobOf DEF SpoolTypes, Msg
  <2>2. pc[r] \in Verified => job[r].sig.seq \in 1..sends
    BY DEF SpoolTypes
  <2>3. /\ UNCHANGED <<queued, sigs, imported, acks, quarantine, dlq, sends, crashes>>
        /\ UNCHANGED world
    BY <1>2 DEF files, bounds
  <2>4. FilesTyped
    BY <1>0, <2>3, JobOf DEF FilesTyped
  <2>5. step \in Steps /\ step \in Receiving /\ step # "rebuild" /\ step # "idle"
    BY DEF Steps, Receiving, Verified
  <2>6. step \in Verified => step = "dup_check" \/ pc[r] \in Verified
    BY <1>2 DEF Verified
  <2>7. CASE UNCHANGED job /\ step # "dup_check"
    <3>1. Moves(r, step, job[r])
      BY <1>0, <1>2, <2>1, <2>2, <2>3, <2>5, <2>6, <2>7, JobOf DEF Moves
    <3> QED BY <1>0, <2>4, <3>1, TypesStep
  <2>8. CASE \E a \in AckStatus : job' = [job EXCEPT ![r].ack = a] /\ step # "dup_check"
    <3>1. PICK a \in AckStatus : job' = [job EXCEPT ![r].ack = a] /\ step # "dup_check"
      BY <2>8
    <3> DEFINE j == [job[r] EXCEPT !.ack = a]
    <3>2. /\ IsJob(j) /\ j.msg = job[r].msg /\ j.sig = job[r].sig /\ j.ack = a
          /\ j.todo = job[r].todo
      BY <1>0 DEF IsJob
    <3>3. job' = [job EXCEPT ![r] = j]
      BY <3>1
    <3> HIDE DEF j
    <3>4. Moves(r, step, j)
      BY <1>0, <1>2, <2>1, <2>2, <2>3, <2>5, <2>6, <3>1, <3>2, <3>3, JobOf DEF Moves
    <3> QED BY <1>0, <2>4, <3>4, TypesStep
  <2>9. CASE /\ step = "dup_check" /\ sigs[job[r].msg] # NoSig
             /\ job' = [job EXCEPT ![r].sig = sigs[job[r].msg]]
    <3> DEFINE j == [job[r] EXCEPT !.sig = sigs[job[r].msg]]
    <3>1. /\ IsJob(j) /\ j.msg = job[r].msg /\ j.sig = sigs[job[r].msg] /\ j.ack = job[r].ack
          /\ j.todo = job[r].todo
      BY <1>0 DEF IsJob
    <3>2. job' = [job EXCEPT ![r] = j]
      BY <2>9
    <3>3. sigs[job[r].msg].seq \in 1..sends
      BY <1>0, <2>1, <2>9, JobOf DEF IsSig
    <3> HIDE DEF j
    <3>4. Moves(r, step, j)
      BY <1>0, <1>2, <2>1, <2>3, <2>5, <2>6, <3>1, <3>2, <3>3, JobOf DEF Moves
    <3> QED BY <1>0, <2>4, <3>4, TypesStep
  <2> QED BY <1>2, <2>7, <2>8, <2>9
<1>3. CASE ReadSignature(r)
  BY <1>2, <1>3 DEF ReadSignature, Goto, Receiving, Verified, AckStatus, Msg
<1>4. CASE DupCheck(r)
  <2>1. CASE Done(r)
    BY <1>0, <1>4, <2>1, DoneTypes, JobOf DEF DupCheck, bounds
  <2>2. CASE Goto(r, "chain_check") /\ UNCHANGED job
    BY <1>2, <1>4, <2>2 DEF DupCheck, Goto, Receiving, Verified
  <2> QED BY <1>4, <2>1, <2>2 DEF DupCheck
<1>5. CASE ChainCheck(r)
  <2>1. CASE Goto(r, "ttl_check") /\ UNCHANGED job
    BY <1>2, <1>5, <2>1 DEF ChainCheck, Goto, Receiving, Verified
  <2>2. CASE Goto(r, "quarantine") /\ job' = [job EXCEPT ![r].ack = "QUARANTINED"]
    BY <1>2, <1>5, <2>2 DEF ChainCheck, Goto, Receiving, Verified, AckStatus
  <2> QED BY <1>5, <2>1, <2>2 DEF ChainCheck
<1>6. CASE TtlCheck(r)
  BY <1>2, <1>6 DEF TtlCheck, Goto, Receiving, Verified, AckStatus
<1>7. CASE Quarantine(r) \/ DeadLetter(r) \/ Import(r)
  <2>1. /\ pc[r] \in Receiving /\ pc' = [pc EXCEPT ![r] = "ack"] /\ UNCHANGED job
        /\ UNCHANGED <<queued, sigs, acks, sends, crashes>> /\ UNCHANGED world
        /\ imported' \in {imported, imported \cup {job[r].msg}}
        /\ quarantine' \in {quarantine, quarantine \cup {job[r].msg}}
        /\ dlq' \in {dlq, dlq \cup {job[r].msg}}
    BY <1>7 DEF Quarantine, DeadLetter, Import, Goto, Receiving, Verified, Msg, bounds
  <2>2. job[r].msg \in queued /\ job[r].msg \in Messages
    BY <1>0, <2>1, JobOf DEF SpoolTypes, Msg
  <2>3. FilesTyped
    BY <1>0, <2>1, <2>2, JobOf DEF FilesTyped
  <2>4. "ack" \in Steps /\ "ack" \in Receiving /\ "ack" \notin Verified
    BY DEF Steps, Receiving, Verified
  <2>5. Moves(r, "ack", job[r])
    BY <1>0, <2>1, <2>2, <2>4, JobOf DEF Moves
  <2> QED BY <1>0, <2>3, <2>5, TypesStep
<1>8. CASE WriteAck(r)
  <2>1. /\ pc' = [pc EXCEPT ![r] = "idle"] /\ job' = [job EXCEPT ![r] = Fresh]
        /\ acks' = [acks EXCEPT ![job[r].msg] = job[r].ack]
        /\ UNCHANGED <<queued, sigs, imported, quarantine, dlq, sends, crashes>>
        /\ UNCHANGED world
    BY <1>8 DEF WriteAck, Done, Goto, Msg, bounds
  <2>2. acks' \in [Messages -> AckStatus]
    BY <1>0, <2>1, JobOf
  <2>3. FilesTyped
    BY <1>0, <2>1, <2>2, JobOf DEF FilesTyped
  <2>4. /\ IsJob(Fresh) /\ Fresh.ack \in AckStatus /\ Fresh.todo = {} /\ "idle" \in Steps
        /\ "idle" \notin Receiving /\ "idle" \notin Verified
    BY DEF IsJob, Fresh, AckStatus, Steps, Receiving, Verified
  <2> HIDE DEF Fresh
  <2>5. Moves(r, "idle", Fresh)
    BY <1>0, <2>1, <2>4 DEF Moves
  <2> QED BY <1>0, <2>3, <2>5, TypesStep
<1> QED BY <1>1, <1>3, <1>4, <1>5, <1>6, <1>7, <1>8 DEF StartReceive

\* The steps of reconcile_acknowledgements keep the types.
LEMMA ReconcileTypes ==
    ASSUME SpoolTypes, NEW r \in Receivers,
           StartReconcile(r) \/ Reconcile(r) \/ RebuildAck(r)
    PROVE  SpoolTypes'
<1>0. r \in Procs /\ r \notin Senders /\ [job EXCEPT ![r] = job[r]] = job /\ IsJob(job[r])
  BY SpoolAssumption DEF Procs, SpoolTypes
<1>1. /\ \A step \in Reconciling : step \in Steps /\ step \notin Receiving /\ step \notin Verified
      /\ "reconcile" \in Reconciling /\ "rebuild" \in Reconciling
  BY DEF Steps, Reconciling, Receiving, Verified
<1>2. ASSUME NEW step \in Reconciling, NEW T \in SUBSET imported, pc' = [pc EXCEPT ![r] = step],
             UNCHANGED <<queued, sigs, imported, quarantine, dlq, sends, crashes>>,
             UNCHANGED world, acks' \in [Messages -> AckStatus],
             job' = [job EXCEPT ![r].todo = T], step = "reconcile"
      PROVE  SpoolTypes'
  <2> DEFINE j == [job[r] EXCEPT !.todo = T]
  <2>1. IsJob(j) /\ j.msg = job[r].msg /\ j.ack = job[r].ack /\ j.todo = T
    BY <1>0 DEF IsJob
  <2>2. job' = [job EXCEPT ![r] = j]
    BY <1>2
  <2> HIDE DEF j
  <2>3. FilesTyped
    BY <1>0, <1>2, JobOf DEF FilesTyped
  <2>4. Moves(r, step, j)
    BY <1>0, <1>1, <1>2, <2>1, <2>2, JobOf DEF Moves
  <2> QED BY <1>0, <2>3, <2>4, TypesStep
<1>3. CASE StartReconcile(r)
  BY <1>0, <1>1, <1>2, <1>3, JobOf DEF StartReconcile, Goto, files, bounds
<1>4. CASE Reconcile(r)
  <2>1. CASE Done(r)
    BY <1>0, <1>4, <2>1, DoneTypes, JobOf DEF Reconcile, bounds
  <2>2. ASSUME NEW m \in job[r].todo, job' = [job EXCEPT ![r].todo = @ \ {m}], UNCHANGED pc
        PROVE  SpoolTypes'
    <3>1. job' = [job EXCEPT ![r].todo = job[r].todo \ {m}] /\ job[r].todo \ {m} \subseteq imported
      BY <1>0, <2>2, JobOf
    <3>2. pc' = [pc EXCEPT ![r] = "reconcile"]
      BY <1>0, <1>4, <2>2 DEF Reconcile, SpoolTypes, TypeOK
    <3>3. /\ UNCHANGED <<queued, sigs, imported, acks, quarantine, dlq, sends, crashes>>
          /\ UNCHANGED world
      BY <1>4 DEF Reconcile, files, bounds
    <3> QED BY <1>0, <1>1, <1>2, <3>1, <3>2, <3>3, JobOf
  <2>3. ASSUME NEW m \in job[r].todo, job' = [job EXCEPT ![r].msg = m], Goto(r, "rebuild")
        PROVE  SpoolTypes'
    <3> DEFINE j == [job[r] EXCEPT !.msg = m]
    <3>1. IsJob(j) /\ j.msg = m /\ j.ack = job[r].ack /\ j.todo = job[r].todo
      BY <1>0 DEF IsJob
    <3>2. job' = [job EXCEPT ![r] = j] /\ pc' = [pc EXCEPT ![r] = "rebuild"]
      BY <2>3 DEF Goto
    <3> HIDE DEF j
    <3>3. m \in imported /\ m \in Messages
      BY <1>0, <2>3, JobOf
    <3>4. /\ UNCHANGED <<queued, sigs, imported, acks, quarantine, dlq, sends, crashes>>
          /\ UNCHANGED world
      BY <1>4 DEF Reconcile, files, bounds
    <3>5. FilesTyped
      BY <1>0, <3>4, JobOf DEF FilesTyped
    <3>6. Moves(r, "rebuild", j)
      BY <1>0, <1>1, <3>1, <3>2, <3>3, <3>4, JobOf DEF Moves
    <3> QED BY <1>0, <3>5, <3>6, TypesStep
  <2> QED BY <1>4, <2>1, <2>2, <2>3 DEF Reconcile
<1>5. CASE RebuildAck(r)
  <2>1. job' = [job EXCEPT ![r].todo = job[r].todo \ {Msg(r)}]
        /\ job[r].todo \ {Msg(r)} \subseteq imported
    BY <1>0, <1>5, JobOf DEF RebuildAck
  <2>2. /\ pc' = [pc EXCEPT ![r] = "reconcile"]
        /\ UNCHANGED <<queued, sigs, imported, quarantine, dlq, sends, crashes>>
        /\ UNCHANGED world
    BY <1>5 DEF RebuildAck, Goto, bounds
  <2>3. acks' \in [Messages -> AckStatus]
    BY <1>0, <1>5, JobOf DEF RebuildAck, AckStatus
  <2> QED BY <1>0, <1>1, <1>2, <2>1, <2>2, <2>3
<1> QED BY <1>3, <1>4, <1>5

\* Every step keeps the types.
LEMMA TypesInductive == SpoolTypes /\ [Next]_vars => SpoolTypes'
<1> SUFFICES ASSUME SpoolTypes, [Next]_vars PROVE SpoolTypes'
  OBVIOUS
<1>1. ASSUME NEW s \in Senders, StartQueue(s) \/ SenderStep(s) PROVE SpoolTypes'
  BY <1>1, SenderTypes
<1>2. ASSUME NEW r \in Receivers, StartReceive(r) \/ StartReconcile(r) \/ ReceiverStep(r)
      PROVE  SpoolTypes'
  BY <1>2, ReceiveTypes, ReconcileTypes DEF ReceiverStep
<1>3. ASSUME NEW p \in Procs, Crash(p) PROVE SpoolTypes'
  <2>1. crashes' \in 0..MaxCrashes
    BY <1>3, JobOf, SpoolAssumption DEF Crash
  <2> QED BY <1>3, <2>1, DoneTypes DEF Crash
<1>4. CASE Expire \/ Revoke \/ DeadLetterByHand \/ UNCHANGED vars
  <2>1. /\ UNCHANGED <<queued, sigs, imported, acks, quarantine, pc, job, sends, crashes>>
        /\ expired' \in SUBSET MayExpire /\ revoked' \in BOOLEAN /\ dlq' \in SUBSET queued
    BY <1>4 DEF Expire, Revoke, DeadLetterByHand, vars, files, world, bounds, SpoolTypes, TypeOK
  <2>2. TypeOK'
    <3>1. TypeOK
      BY DEF SpoolTypes
    <3>2. queued' = queued /\ imported' = imported /\ sigs' = sigs /\ pc' = pc /\ job' = job
      BY <2>1
    <3> QED BY <2>1, <3>1, <3>2 DEF TypeOK, Msg
  <2>3. queued' = queued /\ imported' = imported /\ sigs' = sigs /\ pc' = pc /\ job' = job
        /\ sends' = sends
    BY <2>1
  <2> QED BY <2>2, <2>3 DEF SpoolTypes, Msg
<1> QED BY <1>1, <1>2, <1>3, <1>4 DEF Next

\* SpoolTypes holds from the empty spool on.
LEMMA TypesInvariant == Spec => []SpoolTypes
<1>1. Init => SpoolTypes
  <2> SUFFICES ASSUME Init PROVE SpoolTypes
    OBVIOUS
  <2>1. NoSig.seq = 0 /\ IsJob(Fresh) /\ Fresh.ack = "none" /\ Fresh.todo = {}
    BY DEF NoSig, IsJob, Fresh
  <2>2. \A p \in Procs : job[p] = Fresh /\ pc[p] = "idle"
    BY DEF Init
  <2> HIDE DEF Fresh
  <2>3. TypeOK
    <3>1. acks \in [Messages -> AckStatus] /\ pc \in [Procs -> Steps]
      BY DEF Init, AckStatus, Steps
    <3>2. \A p \in Procs : /\ job[p].ack \in AckStatus /\ job[p].todo \in SUBSET imported
                           /\ pc[p] # "idle" => Msg(p) \in Messages \/ pc[p] = "reconcile"
      BY <2>1, <2>2 DEF AckStatus
    <3>3. /\ queued = {} /\ imported = {} /\ quarantine = {} /\ dlq = {} /\ expired = {}
          /\ \A m \in Messages : sigs[m] = NoSig
          /\ sends \in 0..MaxSends /\ crashes \in 0..MaxCrashes
      BY SpoolAssumption DEF Init
    <3>4. revoked \in BOOLEAN
      BY Zenon DEF Init
    <3> QED BY <3>1, <3>2, <3>3, <3>4 DEF TypeOK
  <2>4. /\ sigs = [m \in Messages |-> sigs[m]] /\ job = [p \in Procs |-> job[p]]
        /\ \A m \in Messages : sigs[m].seq \in 0..sends
    BY <2>1 DEF Init
  <2>5. \A p \in Procs : IsJob(job[p])
    BY <2>1, <2>2
  <2> QED BY <2>2, <2>3, <2>4, <2>5 DEF SpoolTypes, Sending, Receiving, Verified, Procs
<1> QED BY <1>1, TypesInductive, PTL DEF Spec

\* Whatever senders, receivers, kills, expiry and revocation do, every file and
\* every call in progress keeps its type: in particular only queued messages are
\* imported, quarantined or dead-lettered, and a signature file is always one of
\* its own message.
THEOREM SpoolTypeCorrect == Spec => []TypeOK
<1>1. SpoolTypes => TypeOK
  BY DEF SpoolTypes
<1> QED BY <1>1, TypesInvariant, PTL
-----------------------------------------------------------------------------
(* One receiver: what it decided is still true when it writes *)

\* A step of a process leaves the calls of the others alone.
LEMMA OthersFrame ==
    ASSUME SpoolTypes, NEW p \in Procs, NEW step, pc' = [pc EXCEPT ![p] = step],
           NEW j, job' = [job EXCEPT ![p] = j]
    PROVE  /\ pc'[p] = step /\ job'[p] = j
           /\ \A q \in Procs : q # p => pc'[q] = pc[q] /\ job'[q] = job[q]
  BY DEF SpoolTypes, TypeOK

\* Steps that decide nothing: receivers are where they were or idle, and of what
\* they look at only the clock, the signature files and the bounds move on.
Quiet ==
    /\ UNCHANGED <<imported, chain, acks>>
    /\ \A r \in Receivers : pc'[r] = "idle" \/ (pc'[r] = pc[r] /\ job'[r] = job[r])
    /\ expired \subseteq expired'
    /\ sends <= sends'

\* Everything but the steps of receivers is quiet.
LEMMA QuietSteps ==
    ASSUME SpoolTypes,
           \/ \E s \in Senders : StartQueue(s) \/ SenderStep(s)
           \/ \E p \in Procs : Crash(p)
           \/ Expire \/ Revoke \/ DeadLetterByHand \/ UNCHANGED vars
    PROVE  Quiet
<1>0. sends \in Nat
  BY SpoolAssumption DEF SpoolTypes, TypeOK
<1>1. ASSUME NEW s \in Senders, StartQueue(s) \/ SenderStep(s) PROVE Quiet
  <2>0. s \in Procs /\ \A r \in Receivers : r \in Procs /\ r # s
    BY SpoolAssumption DEF Procs
  <2>1. \A r \in Receivers : pc'[r] = pc[r] /\ job'[r] = job[r]
    BY <1>1, <2>0 DEF SpoolTypes, TypeOK, StartQueue, SenderStep, WriteMessage, WriteSignature,
                     Done, Goto
  <2>2. UNCHANGED <<imported, chain, acks, expired>> /\ sends <= sends'
    BY <1>0, <1>1 DEF StartQueue, SenderStep, WriteMessage, WriteSignature, files, world, bounds
  <2> QED BY <2>1, <2>2 DEF Quiet
<1>2. ASSUME NEW p \in Procs, Crash(p) PROVE Quiet
  <2>1. \A r \in Receivers : pc'[r] = "idle" \/ (pc'[r] = pc[r] /\ job'[r] = job[r])
    BY <1>2 DEF SpoolTypes, TypeOK, Crash, Done, Goto, Procs
  <2>2. UNCHANGED <<imported, chain, acks, expired, sends>>
    BY <1>2 DEF Crash, files, world
  <2> QED BY <1>0, <2>1, <2>2 DEF Quiet
<1>3. CASE Expire \/ Revoke \/ DeadLetterByHand \/ UNCHANGED vars
  <2>1. UNCHANGED <<imported, chain, acks, pc, job, sends>> /\ expired \subseteq expired'
    BY <1>3 DEF Expire, Revoke, DeadLetterByHand, vars, files, world, bounds
  <2> QED BY <1>0, <2>1 DEF Quiet
<1> QED BY <1>1, <1>2, <1>3

\* The rest are steps of receivers.
LEMMA StepKinds ==
    ASSUME SpoolTypes, [Next]_vars
    PROVE  \/ Quiet
           \/ \E r \in Receivers : StartReceive(r) \/ StartReconcile(r) \/ ReceiverStep(r)
  BY QuietSteps DEF Next

\* What a step of a receiver may change; the other receivers do not exist.
LEMMA ReceiverFrame ==
    ASSUME SpoolTypes, OneReceiver, NEW r \in Receivers,
           StartReceive(r) \/ StartReconcile(r) \/ ReceiverStep(r)
    PROVE  /\ UNCHANGED <<sigs, expired, sends>>
           /\ \A q \in Receivers : q = r
           /\ \A s \in Senders : pc'[s] = pc[s] /\ job'[s] = job[s]
           /\ r \in Procs /\ IsJob(job[r])
           /\ pc[r] \in Receiving => Msg(r) \in Messages
<1>0. r \in Procs /\ IsJob(job[r]) /\ \A s \in Senders : s \in Procs /\ s # r
  BY SpoolAssumption DEF Procs, SpoolTypes
<1>1. \A s \in Senders : pc'[s] = pc[s] /\ job'[s] = job[s]
  BY <1>0 DEF SpoolTypes, TypeOK, StartReceive, StartReconcile, ReceiverStep, ReadSignature,
              DupCheck, ChainCheck, TtlCheck, Quarantine, DeadLetter, Import, WriteAck,
              Reconcile, RebuildAck, Done, Goto
<1>2. UNCHANGED <<sigs, expired, sends>>
  BY DEF StartReceive, StartReconcile, ReceiverStep, ReadSignature,
         DupCheck, ChainCheck, TtlCheck, Quarantine, DeadLetter, Import, WriteAck,
         Reconcile, RebuildAck, files, world, bounds
<1>3. pc[r] \in Receiving => Msg(r) \in Messages
  BY DEF SpoolTypes, TypeOK
<1> QED BY <1>0, <1>1, <1>2, <1>3 DEF OneReceiver

\* The receiver's call after each of its steps: where it is and what it has in hand.
LEMMA ReceiverMoves ==
    ASSUME SpoolTypes, NEW r \in Receivers,
           StartReceive(r) \/ StartReconcile(r) \/ ReceiverStep(r)
    PROVE  \/ /\ StartReceive(r) /\ pc'[r] = "read_signature"
              /\ job'[r].late = (job'[r].msg \in expired)
           \/ /\ pc'[r] \in {"idle"} \cup Reconciling
           \/ /\ ReadSignature(r) /\ pc'[r] = "dup_check" /\ job'[r].sig = sigs[Msg(r)]
              /\ job'[r].msg = job[r].msg /\ job'[r].late = job[r].late
           \/ /\ ReadSignature(r) \/ ChainCheck(r)
              /\ pc'[r] = "quarantine" /\ job'[r].msg = job[r].msg
              /\ job'[r].ack = "QUARANTINED"
           \/ /\ DupCheck(r) /\ pc'[r] = "chain_check" /\ UNCHANGED job
           \/ /\ ChainCheck(r) /\ pc'[r] = "ttl_check" /\ UNCHANGED job
           \/ /\ TtlCheck(r) /\ job[r].late /\ pc'[r] = "dead_letter"
              /\ job'[r].msg = job[r].msg
           \/ /\ TtlCheck(r) /\ ~job[r].late /\ pc'[r] = "import"
              /\ job'[r].msg = job[r].msg /\ job'[r].sig = job[r].sig
              /\ job'[r].ack = "ACKNOWLEDGED"
           \/ /\ Quarantine(r) \/ DeadLetter(r) \/ Import(r)
              /\ pc'[r] = "ack" /\ UNCHANGED job
<1>0. r \in Procs /\ IsJob(job[r]) /\ pc \in [Procs -> Steps] /\ DOMAIN job = Procs
  BY DEF Procs, SpoolTypes, TypeOK
<1>1. CASE StartReceive(r)
  <2>1. PICK m \in queued : job' = [job EXCEPT ![r].msg = m, ![r].late = m \in expired]
    BY <1>1 DEF StartReceive
  <2>2. job'[r] = [[job[r] EXCEPT !.msg = m] EXCEPT !.late = m \in expired]
    BY <1>0, <2>1
  <2> DEFINE k == [job[r] EXCEPT !.msg = m]
  <2>3. k = [msg |-> m, sig |-> job[r].sig, late |-> job[r].late, ack |-> job[r].ack,
             todo |-> job[r].todo]
    BY <1>0 DEF IsJob
  <2> HIDE DEF k
  <2>4. [k EXCEPT !.late = m \in expired].late = (m \in expired)
        /\ [k EXCEPT !.late = m \in expired].msg = m
    BY <2>3
  <2>5. pc'[r] = "read_signature"
    BY <1>0, <1>1 DEF StartReceive, Goto
  <2>6. job'[r].late = (job'[r].msg \in expired)
    BY <2>2, <2>4 DEF k
  <2> QED BY <1>1, <2>5, <2>6
<1>2. CASE StartReconcile(r) \/ Reconcile(r) \/ RebuildAck(r) \/ WriteAck(r)
  BY <1>0, <1>2 DEF StartReconcile, Reconcile, RebuildAck, WriteAck, Done, Goto, Reconciling
<1>3. CASE ReadSignature(r)
  <2>1. ASSUME job' = [job EXCEPT ![r].sig = sigs[Msg(r)]], Goto(r, "dup_check")
        PROVE  /\ pc'[r] = "dup_check" /\ job'[r].sig = sigs[Msg(r)]
               /\ job'[r].msg = job[r].msg /\ job'[r].late = job[r].late
    <3>1. job'[r] = [job[r] EXCEPT !.sig = sigs[Msg(r)]]
      BY <1>0, <2>1
    <3> QED BY <1>0, <2>1, <3>1 DEF IsJob, Goto
  <2>2. ASSUME job' = [job EXCEPT ![r].ack = "QUARANTINED"], Goto(r, "quarantine")
        PROVE  /\ pc'[r] = "quarantine" /\ job'[r].msg = job[r].msg
               /\ job'[r].ack = "QUARANTINED"
    <3>1. job'[r] = [job[r] EXCEPT !.ack = "QUARANTINED"]
      BY <1>0, <2>2
    <3> QED BY <1>0, <2>2, <3>1 DEF IsJob, Goto
  <2> QED BY <1>3, <2>1, <2>2 DEF ReadSignature
<1>4. CASE DupCheck(r)
  BY <1>0, <1>4 DEF DupCheck, Done, Goto
<1>5. CASE ChainCheck(r)
  <2>1. CASE Goto(r, "ttl_check") /\ UNCHANGED job
    BY <1>0, <1>5, <2>1 DEF Goto
  <2>2. CASE Goto(r, "quarantine") /\ job' = [job EXCEPT ![r].ack = "QUARANTINED"]
    <3>1. job'[r] = [job[r] EXCEPT !.ack = "QUARANTINED"]
      BY <1>0, <2>2
    <3>2. pc'[r] = "quarantine" /\ job'[r].msg = job[r].msg /\ job'[r].ack = "QUARANTINED"
      BY <1>0, <2>2, <3>1 DEF IsJob, Goto
    <3> QED BY <1>5, <3>2
  <2> QED BY <1>5, <2>1, <2>2 DEF ChainCheck
<1>6. CASE TtlCheck(r)
  <2>1. ASSUME NEW a, job' = [job EXCEPT ![r].ack = a]
        PROVE  /\ job'[r].msg = job[r].msg /\ job'[r].sig = job[r].sig /\ job'[r].ack = a
    <3>1. job'[r] = [job[r] EXCEPT !.ack = a]
      BY <1>0, <2>1
    <3> QED BY <1>0, <3>1 DEF IsJob
  <2> QED BY <1>0, <1>6, <2>1 DEF TtlCheck, Goto
<1>7. CASE Quarantine(r) \/ DeadLetter(r) \/ Import(r)
  BY <1>0, <1>7 DEF Quarantine, DeadLetter, Import, Goto
<1> QED BY <1>1, <1>2, <1>3, <1>4, <1>5, <1>6, <1>7 DEF ReceiverStep

\* What is written by which step of a receiver.
LEMMA ReceiverWrites ==
    ASSUME NEW r \in Receivers, StartReceive(r) \/ StartReconcile(r) \/ ReceiverStep(r)
    PROVE  /\ Import(r) \/ UNCHANGED <<imported, chain>>
           /\ WriteAck(r) \/ RebuildAck(r) \/ UNCHANGED acks
<1>1. Import(r) \/ UNCHANGED <<imported, chain>>
  BY DEF StartReceive, StartReconcile, ReceiverStep, ReadSignature, DupCheck, ChainCheck,
         TtlCheck, Quarantine, DeadLetter, Reconcile, RebuildAck, WriteAck, files
<1>2. WriteAck(r) \/ RebuildAck(r) \/ UNCHANGED acks
  BY DEF StartReceive, StartReconcile, ReceiverStep, ReadSignature, DupCheck, ChainCheck,
         TtlCheck, Quarantine, DeadLetter, Import, Reconcile, files
<1> QED BY <1>1, <1>2

\* The duplicate check still holds when the message is imported.
LEMMA KeyInductive ==
    ASSUME SpoolTypes, OneReceiver, KeyInv, [Next]_vars
    PROVE  KeyInv'
<1>1. CASE Quiet
  <2>1. imported' = imported
    BY <1>1 DEF Quiet
  <2>2. NoDuplicateImport'
    BY <2>1 DEF KeyInv, NoDuplicateImport
  <2>3. ASSUME NEW r \in Receivers, pc'[r] \in {"chain_check", "ttl_check", "import"}
        PROVE  \A m \in imported : Key[m] # Key[job'[r].msg]
    BY <1>1, <2>3 DEF Quiet, KeyInv, Msg
  <2> QED BY <2>1, <2>2, <2>3 DEF KeyInv, Msg
<1>2. ASSUME NEW r \in Receivers, StartReceive(r) \/ StartReconcile(r) \/ ReceiverStep(r)
      PROVE  KeyInv'
  <2>0. \A q \in Receivers : q = r
    BY DEF OneReceiver
  <2>1. CASE Import(r)
    <3>1. /\ imported' = imported \cup {Msg(r)} /\ pc[r] = "import"
          /\ pc'[r] \notin {"chain_check", "ttl_check", "import"}
      BY <1>2, <2>1, ReceiverMoves DEF Import, Goto, SpoolTypes, TypeOK, Procs
    <3>2. NoDuplicateImport'
      BY <3>1 DEF KeyInv, NoDuplicateImport
    <3> QED BY <2>0, <3>1, <3>2 DEF KeyInv
  <2>2. CASE ~Import(r)
    <3>1. imported' = imported
      BY <1>2, <2>2, ReceiverWrites
    <3>2. NoDuplicateImport'
      BY <3>1 DEF KeyInv, NoDuplicateImport
    <3>3. pc'[r] \in {"chain_check", "ttl_check", "import"} =>
            /\ job'[r].msg = job[r].msg
            /\ \A m \in imported : Key[m] # Key[Msg(r)]
      <4>1. CASE DupCheck(r) /\ pc'[r] = "chain_check" /\ UNCHANGED job
        BY <4>1 DEF DupCheck, Done, Goto, SpoolTypes, TypeOK, Procs
      <4>2. CASE ChainCheck(r) /\ pc'[r] = "ttl_check" /\ UNCHANGED job
        BY <4>2 DEF ChainCheck, KeyInv
      <4>3. CASE TtlCheck(r) /\ pc'[r] = "import" /\ job'[r].msg = job[r].msg
        BY <4>3 DEF TtlCheck, KeyInv
      <4> QED BY <1>2, <4>1, <4>2, <4>3, ReceiverMoves DEF Reconciling
    <3> QED BY <2>0, <3>1, <3>2, <3>3 DEF KeyInv, Msg
  <2> QED BY <2>1, <2>2
<1> QED BY <1>1, <1>2, StepKinds

\* What the receiver read of the clock still holds when it writes.
LEMMA ExpiryInductive ==
    ASSUME SpoolTypes, OneReceiver, ExpiryInv, [Next]_vars
    PROVE  ExpiryInv'
<1>1. CASE Quiet
  BY <1>1 DEF Quiet, ExpiryInv, Msg
<1>2. ASSUME NEW r \in Receivers, StartReceive(r) \/ StartReconcile(r) \/ ReceiverStep(r)
      PROVE  ExpiryInv'
  <2>0. /\ \A q \in Receivers : q = r
        /\ expired' = expired /\ acks \in [Messages -> AckStatus]
        /\ pc[r] \in Receiving => Msg(r) \in Messages
    BY <1>2, ReceiverFrame DEF OneReceiver, SpoolTypes, TypeOK
  <2> DEFINE Facts(q) ==
        /\ pc[q] \in {"read_signature", "dup_check", "chain_check", "ttl_check"} =>
             IF job[q].late THEN Msg(q) \in expired ELSE acks[Msg(q)] # "EXPIRED"
        /\ pc[q] = "import" => acks[Msg(q)] # "EXPIRED"
        /\ pc[q] \in {"quarantine", "dead_letter", "import", "ack"} =>
             (job[q].ack = "EXPIRED" => Msg(q) \in expired)
  <2>1. Facts(r) /\ \A m \in Messages : acks[m] = "EXPIRED" => m \in expired
    BY DEF ExpiryInv
  <2>2. SUFFICES Facts(r)' /\ \A m \in Messages : acks'[m] = "EXPIRED" => m \in expired
    BY <2>0 DEF ExpiryInv
  <2>3. CASE WriteAck(r) \/ RebuildAck(r)
    <3>1. \A m \in Messages : acks'[m] = "EXPIRED" => m \in expired
      BY <2>0, <2>1, <2>3 DEF WriteAck, RebuildAck, Receiving
    <3>2. pc'[r] \in {"idle", "reconcile"}
      BY <2>3 DEF WriteAck, RebuildAck, Done, Goto, SpoolTypes, TypeOK, Procs
    <3> QED BY <3>1, <3>2
  <2>4. CASE ~(WriteAck(r) \/ RebuildAck(r))
    <3>1. acks' = acks
      BY <1>2, <2>4, ReceiverWrites
    <3>2. CASE StartReceive(r) /\ pc'[r] = "read_signature"
               /\ job'[r].late = (job'[r].msg \in expired)
      <4>1. job'[r].msg \in queued'
        BY <1>2, <3>2, TypesInductive DEF SpoolTypes, Receiving, Msg
      <4>2. job'[r].msg \in Messages
        BY <1>2, <3>2, <4>1 DEF SpoolTypes, TypeOK, StartReceive, files
      <4> QED BY <2>0, <2>1, <3>1, <3>2, <4>2 DEF Msg
    <3>3. CASE pc'[r] \in {"idle"} \cup Reconciling
      BY <2>1, <3>1, <3>3 DEF Reconciling
    <3>4. CASE /\ ReadSignature(r) /\ pc'[r] = "dup_check"
               /\ job'[r].msg = job[r].msg /\ job'[r].late = job[r].late
      BY <2>0, <2>1, <3>1, <3>4 DEF ReadSignature, Msg
    <3>5. CASE pc'[r] = "quarantine" /\ job'[r].ack = "QUARANTINED"
      BY <2>1, <3>1, <3>5
    <3>6. CASE \/ DupCheck(r) /\ pc'[r] = "chain_check" /\ UNCHANGED job
               \/ ChainCheck(r) /\ pc'[r] = "ttl_check" /\ UNCHANGED job
      BY <2>0, <2>1, <3>1, <3>6 DEF DupCheck, ChainCheck, Msg
    <3>7. CASE /\ TtlCheck(r) /\ job[r].late /\ pc'[r] = "dead_letter"
               /\ job'[r].msg = job[r].msg
      BY <2>0, <2>1, <3>1, <3>7 DEF TtlCheck, Msg
    <3>8. CASE /\ TtlCheck(r) /\ ~job[r].late /\ pc'[r] = "import"
               /\ job'[r].msg = job[r].msg /\ job'[r].ack = "ACKNOWLEDGED"
      BY <2>0, <2>1, <3>1, <3>8 DEF TtlCheck, Msg
    <3>9. CASE /\ Quarantine(r) \/ DeadLetter(r) \/ Import(r)
               /\ pc'[r] = "ack" /\ UNCHANGED job
      BY <2>0, <2>1, <3>1, <3>9 DEF Quarantine, DeadLetter, Import, Msg
    <3> QED BY <1>2, <3>2, <3>3, <3>4, <3>5, <3>6, <3>7, <3>8, <3>9, ReceiverMoves
  <2> QED BY <2>3, <2>4
<1> QED BY <1>1, <1>2, StepKinds
-----------------------------------------------------------------------------
(* Own messages: signature files only move forward, and the imports are one chain *)

\* Only write_signature writes a signature file, and only forward.
LEMMA SigsForward ==
    ASSUME SpoolTypes, Ahead, [Next]_vars
    PROVE  \A m \in Messages : sigs[m].seq <= sigs'[m].seq
<1>0. /\ sigs = [m \in Messages |-> sigs[m]]
      /\ \A m \in Messages : sigs[m].seq \in Nat
  BY SpoolAssumption DEF SpoolTypes, TypeOK
<1>1. ASSUME NEW s \in Senders, WriteSignature(s)
      PROVE  \A m \in Messages : sigs[m].seq <= sigs'[m].seq
  <2>1. pc[s] \in Sending /\ sigs' = [sigs EXCEPT ![Msg(s)] = job[s].sig]
    BY <1>1 DEF WriteSignature, Sending
  <2>2. sigs[Msg(s)].seq < job[s].sig.seq /\ job[s].sig.seq \in Nat
    <3>1. sends \in Nat
      BY SpoolAssumption DEF SpoolTypes, TypeOK
    <3>2. sigs[Msg(s)].seq < job[s].sig.seq
      BY <2>1 DEF Ahead
    <3>3. job[s].sig.seq \in 1..sends
      BY <2>1 DEF SpoolTypes
    <3> QED BY <3>1, <3>2, <3>3
  <2>3. \A m \in Messages : sigs'[m] = IF m = Msg(s) THEN job[s].sig ELSE sigs[m]
    BY <1>0, <2>1
  <2> QED BY <1>0, <2>2, <2>3
<1>2. CASE sigs' = sigs
  BY <1>0, <1>2
<1> QED BY <1>1, <1>2
       DEF Next, SenderStep, StartQueue, WriteMessage, StartReceive, StartReconcile, ReceiverStep,
           ReadSignature, DupCheck, ChainCheck, TtlCheck, Quarantine, DeadLetter, Import, WriteAck,
           Reconcile, RebuildAck, Crash, Expire, Revoke, DeadLetterByHand, vars, files

\* A new signature has a higher number than every file, and the file of its
\* message changes only when its own sender writes it.
LEMMA AheadInductive ==
    ASSUME SpoolTypes, OwnMessages, Ahead, [Next]_vars
    PROVE  Ahead'
<1>0. /\ sigs = [m \in Messages |-> sigs[m]]
      /\ \A m \in Messages : sigs[m].seq \in Nat
      /\ \A s \in Senders : s \in Procs /\ IsJob(job[s])
      /\ pc \in [Procs -> Steps] /\ DOMAIN job = Procs
  <2>1. \A s \in Senders : s \in Procs
    BY DEF Procs
  <2>2. pc \in [Procs -> Steps] /\ sends \in Nat
    BY SpoolAssumption DEF SpoolTypes, TypeOK
  <2>3. /\ sigs = [m \in Messages |-> sigs[m]] /\ DOMAIN job = Procs
        /\ \A m \in Messages : sigs[m].seq \in 0..sends
        /\ \A p \in Procs : IsJob(job[p])
    BY DEF SpoolTypes
  <2> QED BY <2>1, <2>2, <2>3
<1>1. ASSUME NEW s \in Senders, StartQueue(s) PROVE Ahead'
  <2>1. PICK m \in SendsOf[s], prior \in Latest(AllSigs) :
          job' = [job EXCEPT ![s].msg = m,
                             ![s].sig = [msg |-> m, seq |-> prior.seq + 1, prev |-> prior]]
    BY <1>1 DEF StartQueue
  <2> DEFINE g == [msg |-> m, seq |-> prior.seq + 1, prev |-> prior]
             k == [job[s] EXCEPT !.msg = m]
  <2>2. job'[s] = [k EXCEPT !.sig = g]
    BY <1>0, <2>1
  <2>3. k = [msg |-> m, sig |-> job[s].sig, late |-> job[s].late, ack |-> job[s].ack,
             todo |-> job[s].todo]
    <3>1. IsJob(job[s])
      BY <1>0
    <3> QED BY <3>1 DEF IsJob
  <2> HIDE DEF k
  <2>4. job'[s].msg = m /\ job'[s].sig = g /\ g.seq = prior.seq + 1
    BY <2>2, <2>3
  <2> HIDE DEF g
  <2>5. m \in Messages /\ prior.seq \in Nat /\ sigs[m].seq <= prior.seq
    <3>1. m \in Messages
      BY SpoolAssumption
    <3>2. NoSig.seq = 0
      BY DEF NoSig
    <3>3. CASE AllSigs = {} /\ prior = NoSig
      BY <3>1, <3>2, <3>3 DEF AllSigs
    <3>4. CASE prior \in AllSigs /\ \A t \in AllSigs : t.seq <= prior.seq
      <4>1. prior.seq \in Nat
        BY <1>0, <3>4 DEF AllSigs
      <4>2. CASE sigs[m] = NoSig
        BY <3>1, <3>2, <4>1, <4>2
      <4>3. CASE sigs[m] # NoSig
        BY <3>1, <3>4, <4>1, <4>3 DEF AllSigs
      <4> QED BY <3>1, <4>1, <4>2, <4>3
    <3> QED BY <3>3, <3>4, LatestIs
  <2>6. sigs' = sigs /\ \A t \in Senders : t # s => pc'[t] = pc[t] /\ job'[t] = job[t]
    BY <1>0, <1>1, <2>1 DEF StartQueue, Goto, files
  <2>7. sigs[m].seq \in Nat /\ sigs[m].seq < job'[s].sig.seq
    BY <1>0, <2>4, <2>5
  <2> QED BY <2>4, <2>6, <2>7 DEF Ahead, Msg
<1>2. ASSUME NEW s \in Senders, WriteSignature(s) PROVE Ahead'
  <2>1. pc[s] \in Sending /\ sigs' = [sigs EXCEPT ![Msg(s)] = job[s].sig] /\ pc'[s] = "idle"
    BY <1>0, <1>2 DEF WriteSignature, Sending, Done, Goto
  <2>2. \A t \in Senders : t # s => pc'[t] = pc[t] /\ job'[t] = job[t]
    BY <1>0, <1>2 DEF WriteSignature, Done, Goto
  <2>3. ASSUME NEW t \in Senders, t # s, pc[t] \in Sending
        PROVE  sigs'[Msg(t)] = sigs[Msg(t)]
    <3>1. Msg(t) \in SendsOf[t] /\ Msg(s) \in SendsOf[s] /\ Msg(t) \in Messages
      BY <2>1, <2>3, SpoolAssumption DEF SpoolTypes
    <3>2. Msg(t) # Msg(s)
      BY <2>3, <3>1 DEF OwnMessages
    <3> QED BY <1>0, <2>1, <3>1, <3>2
  <2>4. "idle" \notin Sending
    BY DEF Sending
  <2> QED BY <2>1, <2>2, <2>3, <2>4 DEF Ahead, Msg
<1>3. CASE /\ sigs' = sigs
           /\ \A s \in Senders : \/ pc'[s] = "idle"
                                 \/ job'[s] = job[s] /\ (pc'[s] \in Sending => pc[s] \in Sending)
  BY <1>3 DEF Ahead, Msg, Sending
<1>4. ASSUME NEW s \in Senders, WriteMessage(s) PROVE Ahead'
  <2>1. /\ sigs' = sigs /\ job' = job /\ pc[s] \in Sending
        /\ \A t \in Senders : t # s => pc'[t] = pc[t]
    BY <1>0, <1>4 DEF WriteMessage, Goto, Sending
  <2> QED BY <1>3, <2>1
<1>5. ASSUME NEW r \in Receivers, StartReceive(r) \/ StartReconcile(r) \/ ReceiverStep(r)
      PROVE  Ahead'
  <2>1. \A s \in Senders : s # r
    BY SpoolAssumption
  <2>2. sigs' = sigs
    BY <1>5 DEF StartReceive, StartReconcile, ReceiverStep, ReadSignature, DupCheck, ChainCheck,
           TtlCheck, Quarantine, DeadLetter, Import, WriteAck, Reconcile, RebuildAck, files
  <2>3. \A s \in Senders : pc'[s] = pc[s] /\ job'[s] = job[s]
    BY <1>0, <1>5, <2>1 DEF StartReceive, StartReconcile, ReceiverStep, ReadSignature, DupCheck,
           ChainCheck, TtlCheck, Quarantine, DeadLetter, Import, WriteAck, Reconcile, RebuildAck,
           Done, Goto
  <2> QED BY <1>3, <2>2, <2>3
<1>6. ASSUME NEW p \in Procs, Crash(p) PROVE Ahead'
  <2>1. /\ sigs' = sigs
        /\ \A s \in Senders : pc'[s] = "idle" \/ (job'[s] = job[s] /\ pc'[s] = pc[s])
    BY <1>0, <1>6 DEF Crash, Done, Goto, files
  <2> QED BY <1>3, <2>1
<1>7. CASE Expire \/ Revoke \/ DeadLetterByHand \/ UNCHANGED vars
  <2>1. UNCHANGED <<sigs, pc, job>>
    BY <1>7 DEF Expire, Revoke, DeadLetterByHand, vars, files
  <2> QED BY <1>3, <2>1
<1> QED BY <1>1, <1>2, <1>4, <1>5, <1>6, <1>7 DEF Next, SenderStep

\* The chain check still holds when the message is imported: the signature that
\* is accepted is newer than all that were accepted before.
LEMMA ChainInductive ==
    ASSUME SpoolTypes, OneReceiver, Ahead, ChainInv, [Next]_vars
    PROVE  ChainInv'
<1>0. /\ \A m \in Messages : sigs[m].seq \in Nat /\ sigs'[m].seq \in Nat
      /\ \A m \in Messages : sigs[m].seq <= sigs'[m].seq
      /\ sends \in Nat /\ sends' \in Nat /\ imported \subseteq Messages
      /\ \A c \in chain : c.seq \in Nat /\ c.seq \in 1..sends
  <2>1. SpoolTypes'
    BY TypesInductive
  <2>2. sends \in Nat /\ sends' \in Nat /\ imported \subseteq Messages
    BY <2>1, SpoolAssumption DEF SpoolTypes, TypeOK
  <2>3. \A m \in Messages : sigs[m].seq \in 0..sends /\ sigs'[m].seq \in 0..sends'
    BY <2>1 DEF SpoolTypes
  <2>4. \A c \in chain : c.seq \in 1..sends
    BY DEF ChainInv
  <2> QED BY <2>2, <2>3, <2>4, SigsForward
<1>1. CASE Quiet
  <2>1. UNCHANGED <<imported, chain>> /\ sends <= sends'
    BY <1>1 DEF Quiet
  <2>2. \A c \in chain : c.seq \in 1..sends'
    BY <1>0, <2>1
  <2>3. ASSUME NEW c \in chain PROVE \E m \in imported : c.seq <= sigs'[m].seq
    <3>1. PICK m \in imported : c.seq <= sigs[m].seq
      BY DEF ChainInv
    <3>2. c.seq <= sigs'[m].seq
      BY <1>0, <3>1
    <3> QED BY <3>2
  <2>4. ASSUME NEW r \in Receivers, pc'[r] \in Verified
        PROVE  /\ job'[r].sig.seq <= sigs'[job'[r].msg].seq
               /\ pc'[r] \in {"ttl_check", "import"} => \A c \in chain : c.seq < job'[r].sig.seq
    <3>1. pc'[r] = pc[r] /\ job'[r] = job[r]
      BY <1>1, <2>4 DEF Quiet, Verified
    <3>2. /\ job[r].sig.seq <= sigs[Msg(r)].seq
          /\ pc[r] \in {"ttl_check", "import"} => \A c \in chain : c.seq < job[r].sig.seq
      BY <2>4, <3>1 DEF ChainInv
    <3>3. Msg(r) \in Messages /\ job[r].sig.seq \in Nat
      <4>1. Msg(r) \in queued /\ job[r].sig.seq \in 1..sends
        BY <2>4, <3>1 DEF SpoolTypes, Receiving
      <4> QED BY <1>0, <4>1 DEF SpoolTypes, TypeOK
    <3> QED BY <1>0, <3>1, <3>2, <3>3 DEF Msg
  <2>5. OneChain'
    BY <2>1 DEF ChainInv, OneChain
  <2> QED BY <2>1, <2>2, <2>3, <2>4, <2>5 DEF ChainInv, Msg, Verified
<1>2. ASSUME NEW r \in Receivers, StartReceive(r) \/ StartReconcile(r) \/ ReceiverStep(r)
      PROVE  ChainInv'
  <2>0. /\ UNCHANGED <<sigs, sends>> /\ \A q \in Receivers : q = r
        /\ pc[r] \in Receiving => Msg(r) \in Messages
    BY <1>2, ReceiverFrame
  <2>1. CASE Import(r)
    <3>1. /\ pc[r] = "import" /\ imported' = imported \cup {Msg(r)}
          /\ chain' = chain \cup {job[r].sig} /\ pc'[r] \notin Verified
      BY <1>2, <2>1 DEF Import, Goto, SpoolTypes, TypeOK, Procs, Verified
    <3>2. /\ job[r].sig.seq \in 1..sends /\ job[r].sig.seq <= sigs[Msg(r)].seq
          /\ \A c \in chain : c.seq < job[r].sig.seq
      BY <3>1 DEF ChainInv, SpoolTypes, Verified
    <3>3. OneChain'
      BY <1>0, <3>1, <3>2 DEF ChainInv, OneChain
    <3>4. \A c \in chain' : c.seq \in 1..sends'
      BY <1>0, <2>0, <3>1, <3>2
    <3>5. \A c \in chain' : \E m \in imported' : c.seq <= sigs'[m].seq
      BY <2>0, <3>1, <3>2 DEF ChainInv
    <3> QED BY <2>0, <3>1, <3>3, <3>4, <3>5 DEF ChainInv, Verified
  <2>2. CASE ~Import(r)
    <3>1. UNCHANGED <<imported, chain>>
      BY <1>2, <2>2, ReceiverWrites
    <3>2. /\ \A c \in chain' : c.seq \in 1..sends'
          /\ \A c \in chain' : \E m \in imported' : c.seq <= sigs'[m].seq
          /\ OneChain'
      BY <2>0, <3>1 DEF ChainInv, OneChain
    <3>3. ASSUME pc'[r] \in Verified
          PROVE  /\ job'[r].sig.seq <= sigs'[job'[r].msg].seq
                 /\ pc'[r] \in {"ttl_check", "import"} => \A c \in chain : c.seq < job'[r].sig.seq
      <4>1. CASE /\ ReadSignature(r) /\ pc'[r] = "dup_check" /\ job'[r].sig = sigs[Msg(r)]
                 /\ job'[r].msg = job[r].msg
        BY <1>0, <2>0, <4>1 DEF ReadSignature, Msg, Receiving
      <4>2. CASE DupCheck(r) /\ pc'[r] = "chain_check" /\ UNCHANGED job
        BY <2>0, <4>2 DEF DupCheck, Msg, Verified, ChainInv
      <4>3. CASE ChainCheck(r) /\ pc'[r] = "ttl_check" /\ UNCHANGED job
        <5>1. pc[r] \in Verified /\ job[r].sig.seq <= sigs[Msg(r)].seq
          BY <4>3 DEF ChainCheck, Verified, ChainInv
        <5>2. PICK last \in Latest(ImportedSigs) : last # NoSig => job[r].sig.seq = last.seq + 1
          BY <4>3 DEF ChainCheck, Goto, SpoolTypes, TypeOK, Procs
        <5>3. ASSUME NEW c \in chain PROVE c.seq < job[r].sig.seq
          <6>1. PICK m \in imported : c.seq <= sigs[m].seq
            BY DEF ChainInv
          <6>2. sigs[m] # NoSig
            <7>1. c.seq \in Nat \ {0} /\ sigs[m].seq \in Nat
              BY <1>0, <6>1
            <7> QED BY <6>1, <7>1 DEF NoSig
          <6>3. sigs[m] \in ImportedSigs
            BY <6>2 DEF ImportedSigs
          <6>4. last \in ImportedSigs /\ sigs[m].seq <= last.seq
            BY <6>3, LatestIs
          <6>5. last # NoSig /\ last.seq \in Nat
            BY <1>0, <6>4 DEF ImportedSigs
          <6> QED BY <1>0, <5>2, <6>1, <6>4, <6>5
        <5> QED BY <2>0, <4>3, <5>1, <5>3 DEF Msg
      <4>4. CASE /\ TtlCheck(r) /\ pc'[r] = "import"
                 /\ job'[r].msg = job[r].msg /\ job'[r].sig = job[r].sig
        BY <2>0, <4>4 DEF TtlCheck, Msg, Verified, ChainInv
      <4> QED BY <1>2, <3>3, <4>1, <4>2, <4>3, <4>4, ReceiverMoves DEF Reconciling, Verified
    <3> QED BY <2>0, <3>1, <3>2, <3>3 DEF ChainInv, Msg, Verified
  <2> QED BY <2>1, <2>2
<1> QED BY <1>1, <1>2, StepKinds

\* With one receiver, and senders that do not queue each other's messages, the
\* imports are one chain - of two signatures with one number only one was ever
\* accepted - and nothing is imported twice, itself or under another id: for any
\* number of senders racing for the next number, repeated deliveries, requeues,
\* expiries, revocation and kills anywhere.
THEOREM ImportsAreSound ==
    ASSUME OneReceiver, OwnMessages PROVE Spec => []ImportsSound
<1>1. Init => Ahead /\ ChainInv /\ KeyInv
  <2> SUFFICES ASSUME Init PROVE Ahead /\ ChainInv /\ KeyInv
    OBVIOUS
  <2>1. \A p \in Procs : pc[p] = "idle"
    BY DEF Init
  <2>2. chain = {} /\ imported = {}
    BY DEF Init
  <2>3. \A p \in Senders \cup Receivers : pc[p] = "idle"
    BY <2>1 DEF Procs
  <2> QED BY <2>2, <2>3
         DEF Ahead, ChainInv, KeyInv, OneChain, NoDuplicateImport, Sending, Verified
<1>2. SpoolTypes /\ Ahead /\ ChainInv /\ KeyInv /\ [Next]_vars => Ahead' /\ ChainInv' /\ KeyInv'
  BY AheadInductive, ChainInductive, KeyInductive
<1>3. SpoolTypes /\ ChainInv /\ KeyInv => ImportsSound
  BY DEF SpoolTypes, ChainInv, KeyInv, ImportsSound
<1> QED BY <1>1, <1>2, <1>3, TypesInvariant, PTL DEF Spec

\* With one receiver a message that was acknowledged as EXPIRED is never imported
\* afterwards, whoever queues it again and however often it is delivered.
THEOREM ExpiredNeverImported ==
    ASSUME OneReceiver PROVE Spec => ExpiredStaysDead
<1> DEFINE Dead == \A m \in imported' \ imported : acks[m] # "EXPIRED"
<1>1. Init => ExpiryInv
  <2> SUFFICES ASSUME Init PROVE ExpiryInv
    OBVIOUS
  <2>1. \A r \in Receivers : pc[r] = "idle"
    BY DEF Init, Procs
  <2>2. \A m \in Messages : acks[m] # "EXPIRED"
    BY DEF Init
  <2> QED BY <2>1, <2>2 DEF ExpiryInv
<1>2. SpoolTypes /\ ExpiryInv /\ [Next]_vars => ExpiryInv'
  BY ExpiryInductive
<1>3. SpoolTypes /\ ExpiryInv /\ [Next]_vars => [Dead]_vars
  <2> SUFFICES ASSUME SpoolTypes, ExpiryInv, [Next]_vars PROVE Dead
    OBVIOUS
  <2>1. CASE imported' = imported
    BY <2>1
  <2>2. ASSUME NEW r \in Receivers, Import(r) PROVE Dead
    BY <2>2 DEF Import, ExpiryInv
  <2> QED BY <2>1, <2>2, StepKinds, ReceiverWrites DEF Quiet
<1> QED BY <1>1, <1>2, <1>3, TypesInvariant, PTL DEF Spec, ExpiredStaysDead

-----------------------------------------------------------------------------
(***************************************************************************)
(* The lane ledger, for any number of agents, lanes, paths and caps.       *)
(* Agents load, change and save at any moment.  What agents believe needs   *)
(* lane ids that no two of them share (OwnIds).                            *)
(***************************************************************************)
\* No two agents use one lane id.
IdsOf == [a \in Agents |-> {q.id : q \in RequestsOf[a]}]
OwnIds == \A a, b \in Agents : a # b => IdsOf[a] \cap IdsOf[b] = {}

\* A ledger in which every claim of the policy is respected.
Sound(L) ==
    /\ Cardinality(Active(L)) <= cap
    /\ \A i, j \in Active(L) : i # j =>
         /\ ~SetsOverlap(L[i].paths, L[j].paths)
         /\ L[i].worktree # L[j].worktree
         /\ L[i].id # L[j].id

\* A ledger that bears out a claim: its entry is there as long as its lease is
\* live, and an active entry of that id is the claimed one.
Backs(L, c) ==
    c # NoLane =>
      /\ c.age < Ttl => \E i \in Active(L) : L[i].id = c.id
      /\ \A i \in Active(L) : L[i].id = c.id => L[i].paths = c.paths /\ L[i].age = c.age

\* The second ledger has every entry of the first, and revives none.
Continues(L, M) ==
    \A i \in DOMAIN L : /\ i \in DOMAIN M
                        /\ L[i].status # "active" => M[i].status # "active"

\* Claims name lanes of their agent.
OwnClaims == \A a \in Agents : /\ holds[a] # NoLane => holds[a].id \in IdsOf[a]
                               /\ claim[a] # NoLane => claim[a].id \in IdsOf[a]

\* What an agent has in memory.  A copy that is not stale is the file, or what one
\* operation made of it; as long as no save was lost, it bears out every belief.
MemoryOf(a) ==
    /\ agentPc[a] # "idle" => Sound(mem[a])
    /\ agentPc[a] = "loaded" /\ ~stale[a] => mem[a] = disk
    /\ agentPc[a] = "save" /\ ~stale[a] => Continues(disk, mem[a])
    /\ agentPc[a] = "save" /\ ~stale[a] /\ ~raced =>
         /\ Backs(mem[a], claim[a])
         /\ \A b \in Agents : b # a => Backs(mem[a], holds[b])
Memory == \A a \in Agents : MemoryOf(a)

LanesInv ==
    /\ OwnClaims
    /\ Sound(disk)
    /\ ~raced => \A a \in Agents : Backs(disk, holds[a])
    /\ Memory
-----------------------------------------------------------------------------
(* Typing *)

\* A function over the positions of a ledger with lanes as values is a ledger.
LEMMA LedgerMap ==
    ASSUME NEW L \in Seq(Lane), NEW M, M = [i \in DOMAIN L |-> M[i]],
           \A i \in DOMAIN L : M[i] \in Lane
    PROVE  M \in Seq(Lane) /\ DOMAIN M = DOMAIN L
<1>1. DOMAIN L = 1..Len(L) /\ Len(L) \in Nat
  BY LenProperties
<1>2. M \in [1..Len(L) -> Lane]
  BY <1>1
<1> QED BY <1>1, <1>2

\* What an agent that holds a lane knows about it.
LEMMA ClaimShape ==
    ASSUME NEW c \in Claims, c # NoLane
    PROVE  /\ c = [id |-> c.id, paths |-> c.paths, age |-> c.age]
           /\ c.id \in LaneIds /\ c.paths \in OwnedPaths /\ c.age \in 0..Ttl
           /\ \A n \in 0..Ttl : /\ [c EXCEPT !.age = n] \in Claims
                                /\ [c EXCEPT !.age = n].id = c.id
                                /\ [c EXCEPT !.age = n].paths = c.paths
                                /\ [c EXCEPT !.age = n].age = n
<1>1. PICK l \in Lane : c = [id |-> l.id, paths |-> l.paths, age |-> l.age]
  BY DEF Claims
<1>2. /\ c = [id |-> c.id, paths |-> c.paths, age |-> c.age]
      /\ c.id \in LaneIds /\ c.paths \in OwnedPaths /\ c.age \in 0..Ttl
  BY <1>1 DEF Lane
<1>3. ASSUME NEW n \in 0..Ttl
      PROVE  /\ [c EXCEPT !.age = n] \in Claims
             /\ [c EXCEPT !.age = n].id = c.id
             /\ [c EXCEPT !.age = n].paths = c.paths
             /\ [c EXCEPT !.age = n].age = n
  <2> DEFINE k == [l EXCEPT !.age = n]
  <2>1. k \in Lane /\ k.id = l.id /\ k.paths = l.paths /\ k.age = n
    BY DEF Lane
  <2>2. [c EXCEPT !.age = n] = [id |-> k.id, paths |-> k.paths, age |-> k.age]
    BY <1>1, <2>1
  <2> QED BY <1>1, <2>1, <2>2 DEF Claims
<1> QED BY <1>2, <1>3

\* Time passing keeps a ledger a ledger and changes nothing but ages.
LEMMA AgedLedger ==
    ASSUME NEW L \in Seq(Lane)
    PROVE  /\ Aged(L) \in Seq(Lane) /\ DOMAIN Aged(L) = DOMAIN L
           /\ Active(Aged(L)) = Active(L)
           /\ \A i \in DOMAIN L : /\ Aged(L)[i].id = L[i].id
                                  /\ Aged(L)[i].worktree = L[i].worktree
                                  /\ Aged(L)[i].paths = L[i].paths
                                  /\ Aged(L)[i].status = L[i].status
           /\ \A i \in Active(L) : Aged(L)[i].age = Older(L[i].age)
<1>0. \A i \in DOMAIN L : L[i] \in Lane
  BY ElementOfSeq, LenProperties
<1>1. \A n \in 0..Ttl : Older(n) \in 0..Ttl
  BY LanesAssumption DEF Older
<1>2. \A l \in Lane : /\ [l EXCEPT !.age = Older(@)] \in Lane
                      /\ [l EXCEPT !.age = Older(@)].id = l.id
                      /\ [l EXCEPT !.age = Older(@)].worktree = l.worktree
                      /\ [l EXCEPT !.age = Older(@)].paths = l.paths
                      /\ [l EXCEPT !.age = Older(@)].status = l.status
                      /\ [l EXCEPT !.age = Older(@)].age = Older(l.age)
  BY <1>1 DEF Lane
<1>3. \A i \in DOMAIN L : Aged(L)[i] = IF L[i].status = "active"
                                       THEN [L[i] EXCEPT !.age = Older(@)] ELSE L[i]
  BY DEF Aged
<1>4. Aged(L) = [i \in DOMAIN L |-> Aged(L)[i]] /\ \A i \in DOMAIN L : Aged(L)[i] \in Lane
  BY <1>0, <1>2, <1>3 DEF Aged
<1>5. Aged(L) \in Seq(Lane) /\ DOMAIN Aged(L) = DOMAIN L
  BY <1>4, LedgerMap
<1>6. \A i \in DOMAIN L : /\ Aged(L)[i].id = L[i].id
                          /\ Aged(L)[i].worktree = L[i].worktree
                          /\ Aged(L)[i].paths = L[i].paths
                          /\ Aged(L)[i].status = L[i].status
                          /\ L[i].status = "active" => Aged(L)[i].age = Older(L[i].age)
  BY <1>0, <1>2, <1>3
<1> QED BY <1>5, <1>6 DEF Active

\* Entries changed in place keep the ledger a ledger.
LEMMA ChangedLedger ==
    ASSUME NEW L \in Seq(Lane), NEW k \in DOMAIN L, NEW n \in 0..Ttl, NEW s \in Statuses
    PROVE  /\ [L EXCEPT ![k].age = n] \in Seq(Lane)
           /\ [L EXCEPT ![k].status = s] \in Seq(Lane)
<1>1. L[k] \in Lane /\ k \in 1..Len(L)
  BY ElementOfSeq, LenProperties
<1>2. [L[k] EXCEPT !.age = n] \in Lane /\ [L[k] EXCEPT !.status = s] \in Lane
  BY <1>1 DEF Lane
<1>3. /\ [L EXCEPT ![k] = [L[k] EXCEPT !.age = n]] \in Seq(Lane)
      /\ [L EXCEPT ![k] = [L[k] EXCEPT !.status = s]] \in Seq(Lane)
  BY <1>1, <1>2, ExceptSeq
<1> QED BY <1>3

\* What expire_leases leaves is a ledger.
Stopped(L) == [i \in DOMAIN L |-> IF Lapsed(L[i]) THEN [L[i] EXCEPT !.status = "stopped"]
                                                  ELSE L[i]]
\* Expiring leases stops the lapsed lanes and leaves the others alone.
LEMMA StoppedLedger ==
    ASSUME NEW L \in Seq(Lane)
    PROVE  /\ Stopped(L) \in Seq(Lane) /\ DOMAIN Stopped(L) = DOMAIN L
           /\ \A i \in DOMAIN L :
                \/ ~Lapsed(L[i]) /\ Stopped(L)[i] = L[i]
                \/ Lapsed(L[i]) /\ Stopped(L)[i].status = "stopped"
<1>0. \A i \in DOMAIN L : L[i] \in Lane
  BY ElementOfSeq, LenProperties
<1>1. \A l \in Lane : /\ [l EXCEPT !.status = "stopped"] \in Lane
                      /\ [l EXCEPT !.status = "stopped"].status = "stopped"
  BY DEF Lane, Statuses
<1>2. \A i \in DOMAIN L : Stopped(L)[i] = IF Lapsed(L[i]) THEN [L[i] EXCEPT !.status = "stopped"]
                                                          ELSE L[i]
  BY DEF Stopped
<1>3. Stopped(L) = [i \in DOMAIN L |-> Stopped(L)[i]] /\ \A i \in DOMAIN L : Stopped(L)[i] \in Lane
  BY <1>0, <1>1, <1>2 DEF Stopped
<1>4. Stopped(L) \in Seq(Lane) /\ DOMAIN Stopped(L) = DOMAIN L
  BY <1>3, LedgerMap
<1> QED BY <1>0, <1>1, <1>2, <1>4

\* The aged claim of an agent.
LEMMA AgedClaims ==
    ASSUME NEW c \in Claims
    PROVE  /\ AgedClaim(c) \in Claims
           /\ c # NoLane => /\ AgedClaim(c).id = c.id /\ AgedClaim(c).paths = c.paths
                            /\ AgedClaim(c).age = Older(c.age)
<1>1. CASE c = NoLane
  BY <1>1 DEF AgedClaim
<1>2. CASE c # NoLane
  <2>1. c.age \in 0..Ttl /\ Older(c.age) \in 0..Ttl
    BY <1>2, ClaimShape, LanesAssumption DEF Older
  <2>2. AgedClaim(c) = [c EXCEPT !.age = Older(c.age)]
    BY <1>2, ClaimShape DEF AgedClaim
  <2> QED BY <1>2, <2>1, <2>2, ClaimShape
<1> QED BY <1>1, <1>2

\* A step that applies an operation keeps the types.
LEMMA ApplyTyped ==
    ASSUME LanesTypeOK, NEW a \in Agents, NEW L \in Seq(Lane), NEW c \in Claims,
           Apply(a, L, c), UNCHANGED cap
    PROVE  LanesTypeOK'
  BY DEF LanesTypeOK, Apply

\* The step of an agent keeps the types.
LEMMA AgentTyped ==
    ASSUME LanesTypeOK, NEW a \in Agents, AgentStep(a), UNCHANGED cap
    PROVE  LanesTypeOK'
<1>0. mem[a] \in Seq(Lane) /\ holds[a] \in Claims /\ NoLane \in Claims /\ 0 \in 0..Ttl
  BY LanesAssumption DEF LanesTypeOK, Claims
<1>1. CASE Acquire(a)
  <2>1. PICK q \in RequestsOf[a] :
          LET l == [id |-> q.id, worktree |-> q.worktree, paths |-> q.paths,
                    age |-> 0, status |-> "active"]
          IN  \/ Apply(a, Append(mem[a], l), [id |-> q.id, paths |-> q.paths, age |-> 0])
              \/ Give(a) /\ UNCHANGED holds
    BY <1>1 DEF Acquire
  <2> DEFINE l == [id |-> q.id, worktree |-> q.worktree, paths |-> q.paths,
                   age |-> 0, status |-> "active"]
             c == [id |-> q.id, paths |-> q.paths, age |-> 0]
  <2>2. l \in Lane
    BY <1>0, LanesAssumption DEF Lane, Statuses
  <2>3. c \in Claims
    BY <2>2 DEF Claims
  <2>4. Append(mem[a], l) \in Seq(Lane)
    BY <1>0, <2>2
  <2> HIDE DEF l, c
  <2>5. CASE Apply(a, Append(mem[a], l), c)
    BY <2>3, <2>4, <2>5, ApplyTyped
  <2>6. CASE Give(a) /\ UNCHANGED holds
    BY <2>6, EmptySeq DEF LanesTypeOK, Give
  <2> QED BY <2>1, <2>5, <2>6 DEF l, c
<1>2. CASE Heartbeat(a)
  <2>1. CASE Give(a) /\ holds' = [holds EXCEPT ![a] = NoLane]
    BY <1>0, <2>1, EmptySeq DEF LanesTypeOK, Give
  <2>2. ASSUME NEW i \in DOMAIN mem[a], holds[a] # NoLane,
               Apply(a, [mem[a] EXCEPT ![i].age = 0], [holds[a] EXCEPT !.age = 0])
        PROVE  LanesTypeOK'
    <3>1. [mem[a] EXCEPT ![i].age = 0] \in Seq(Lane)
      BY <1>0, ChangedLedger DEF Statuses
    <3>2. [holds[a] EXCEPT !.age = 0] \in Claims
      BY <1>0, <2>2, ClaimShape
    <3> QED BY <2>2, <3>1, <3>2, ApplyTyped
  <2> QED BY <1>2, <2>1, <2>2 DEF Heartbeat, Active
<1>3. CASE Release(a)
  <2>1. CASE Give(a) /\ UNCHANGED holds
    BY <2>1, EmptySeq DEF LanesTypeOK, Give
  <2>2. ASSUME NEW i \in DOMAIN mem[a],
               Apply(a, [mem[a] EXCEPT ![i].status = "released"], NoLane)
        PROVE  LanesTypeOK'
    <3>1. [mem[a] EXCEPT ![i].status = "released"] \in Seq(Lane)
      BY <1>0, ChangedLedger DEF Statuses
    <3> QED BY <1>0, <2>2, <3>1, ApplyTyped
  <2> QED BY <1>3, <2>1, <2>2 DEF Release
<1>4. CASE ExpireLeases(a)
  <2>1. Apply(a, Stopped(mem[a]), holds[a])
    BY <1>4 DEF ExpireLeases, Stopped
  <2> QED BY <1>0, <2>1, StoppedLedger, ApplyTyped
<1>5. CASE Save(a)
  BY <1>0, <1>5, EmptySeq DEF LanesTypeOK, Save
<1> QED BY <1>1, <1>2, <1>3, <1>4, <1>5 DEF AgentStep

\* Whatever the agents do, the ledger and what they know of it keep their
\* types: no operation writes an entry that is not a lane of the schema.
THEOREM LanesTypeCorrect == LanesSpec => []LanesTypeOK
<1>1. LanesInit => LanesTypeOK
  BY EmptySeq DEF LanesInit, LanesTypeOK, Claims
<1>2. LanesTypeOK /\ [LanesNext]_laneVars => LanesTypeOK'
  <2> SUFFICES ASSUME LanesTypeOK, [LanesNext]_laneVars PROVE LanesTypeOK'
    OBVIOUS
  <2>0. NoLane \in Claims /\ << >> \in Seq(Lane)
    BY EmptySeq DEF Claims
  <2>1. ASSUME NEW a \in Agents, Load(a), UNCHANGED cap PROVE LanesTypeOK'
    BY <2>1 DEF Load, LanesTypeOK
  <2>2. ASSUME NEW a \in Agents, AgentStep(a), UNCHANGED cap PROVE LanesTypeOK'
    BY <2>2, AgentTyped
  <2>3. ASSUME NEW a \in Agents, Die(a), UNCHANGED cap PROVE LanesTypeOK'
    BY <2>0, <2>3 DEF Die, LanesTypeOK
  <2>4. CASE Tick /\ UNCHANGED cap
    <3>1. Aged(disk) \in Seq(Lane) /\ \A a \in Agents : Aged(mem[a]) \in Seq(Lane)
      BY AgedLedger DEF LanesTypeOK
    <3>2. \A a \in Agents : AgedClaim(claim[a]) \in Claims /\ AgedClaim(holds[a]) \in Claims
      BY AgedClaims DEF LanesTypeOK
    <3> QED BY <2>4, <3>1, <3>2 DEF Tick, LanesTypeOK
  <2>5. CASE UNCHANGED laneVars
    BY <2>5 DEF laneVars, ledgerVars, LanesTypeOK
  <2> QED BY <2>1, <2>2, <2>3, <2>4, <2>5 DEF LanesNext
<1> QED BY <1>1, <1>2, PTL DEF LanesSpec
-----------------------------------------------------------------------------
(* The ledger stays consistent *)

\* Two paths overlap whichever is asked first.
LEMMA OverlapSymmetric ==
    ASSUME NEW P \in OwnedPaths, NEW Q \in OwnedPaths, SetsOverlap(P, Q)
    PROVE  SetsOverlap(Q, P)
<1>1. PICK p \in P, q \in Q : PathsOverlap(p, q)
  BY DEF SetsOverlap
<1>2. Len(p) \in Nat /\ Len(q) \in Nat
  BY LanesAssumption
<1>3. PathsOverlap(q, p)
  BY <1>1, <1>2 DEF PathsOverlap
<1> QED BY <1>3 DEF SetsOverlap

\* The active lanes of a ledger are finitely many.
LEMMA ActiveFinite ==
    ASSUME NEW L \in Seq(Lane)
    PROVE  IsFiniteSet(Active(L)) /\ Cardinality(Active(L)) \in Nat
<1>1. DOMAIN L = 1..Len(L) /\ Len(L) \in Nat
  BY LenProperties
<1>2. IsFiniteSet(DOMAIN L)
  BY <1>1, FS_Interval
<1>3. IsFiniteSet(Active(L))
  BY <1>2, FS_Subset DEF Active
<1> QED BY <1>3, FS_CardinalityType

\* A ledger stays sound when lanes stop being active and the others keep who
\* they are.
LEMMA SoundShrinks ==
    ASSUME NEW L \in Seq(Lane), NEW M \in Seq(Lane), Sound(L), cap \in Nat,
           Active(M) \subseteq Active(L),
           \A i \in Active(M) : /\ M[i].id = L[i].id /\ M[i].worktree = L[i].worktree
                                /\ M[i].paths = L[i].paths
    PROVE  Sound(M)
<1>1. /\ Cardinality(Active(M)) <= Cardinality(Active(L))
      /\ Cardinality(Active(L)) \in Nat /\ Cardinality(Active(M)) \in Nat
  BY ActiveFinite, FS_Subset
<1>2. Cardinality(Active(M)) <= cap
  BY <1>1 DEF Sound
<1> QED BY <1>2 DEF Sound

\* The checks of acquire_lane are enough for the lane to be added.
LEMMA SoundAcquire ==
    ASSUME NEW L \in Seq(Lane), NEW l \in Lane, Sound(L), MayAcquire(L, l), cap \in Nat,
           l.status = "active"
    PROVE  /\ Sound(Append(L, l))
           /\ Active(Append(L, l)) = Active(L) \cup {Len(L) + 1}
           /\ Append(L, l)[Len(L) + 1] = l
           /\ \A i \in DOMAIN L : i \in DOMAIN Append(L, l) /\ Append(L, l)[i] = L[i]
<1> DEFINE M == Append(L, l)
<1>1. DOMAIN L = 1..Len(L) /\ Len(L) \in Nat
  BY LenProperties
<1>2. /\ M \in Seq(Lane) /\ DOMAIN M = 1..(Len(L) + 1)
      /\ M[Len(L) + 1] = l /\ \A i \in DOMAIN L : i \in DOMAIN M /\ M[i] = L[i]
  BY <1>1
<1>3. Active(M) = Active(L) \cup {Len(L) + 1} /\ Len(L) + 1 \notin Active(L)
  BY <1>1, <1>2 DEF Active
<1> HIDE DEF M
<1>4. Cardinality(Active(M)) = Cardinality(Active(L)) + 1
  BY <1>3, ActiveFinite, FS_AddElement
<1>5. Cardinality(Active(M)) <= cap
  BY <1>4, ActiveFinite DEF MayAcquire
<1>6. ASSUME NEW i \in Active(L)
      PROVE  /\ M[i] = L[i]
             /\ ~SetsOverlap(l.paths, M[i].paths) /\ ~SetsOverlap(M[i].paths, l.paths)
             /\ M[i].worktree # l.worktree /\ M[i].id # l.id
  <2>1. M[i] = L[i] /\ L[i] \in Lane
    BY <1>2, ElementOfSeq, LenProperties DEF Active
  <2>2. M[i].paths \in OwnedPaths /\ l.paths \in OwnedPaths
    BY <2>1 DEF Lane
  <2> QED BY <2>1, <2>2, OverlapSymmetric DEF MayAcquire
<1>7. Sound(M)
  BY <1>2, <1>3, <1>5, <1>6 DEF Sound
<1> QED BY <1>2, <1>3, <1>7 DEF M

\* A copy that is not stale bears out every belief as long as no save was lost.
LEMMA LoadedBacks ==
    ASSUME LanesInv, NEW a \in Agents, agentPc[a] = "loaded", ~stale[a], ~raced
    PROVE  \A b \in Agents : /\ Backs(mem[a], holds[b])
                             /\ holds[b] # NoLane => holds[b].id \in IdsOf[b]
BY DEF LanesInv, Memory, MemoryOf, OwnClaims

\* An agent whose operation keeps the ledger sound, bears out its own claim and
\* leaves the claims of the others as they are, keeps the invariant.
LEMMA ApplyKeeps ==
    ASSUME LanesTypeOK, LanesInv, NEW a \in Agents, agentPc[a] = "loaded",
           NEW L \in Seq(Lane), NEW c, Apply(a, L, c), UNCHANGED cap, Sound(L),
           ~stale[a] /\ ~raced => Backs(L, c) /\ \A b \in Agents : b # a => Backs(L, holds[b]),
           Continues(mem[a], L), c # NoLane => c.id \in IdsOf[a]
    PROVE  LanesInv'
<1>0. /\ UNCHANGED <<disk, holds, cap, stale, raced>>
      /\ mem'[a] = L /\ claim'[a] = c /\ agentPc'[a] = "save"
      /\ \A b \in Agents : b # a => /\ agentPc'[b] = agentPc[b] /\ mem'[b] = mem[b]
                                    /\ claim'[b] = claim[b]
  BY DEF Apply, LanesTypeOK
<1>2. OwnClaims'
  BY <1>0 DEF OwnClaims, LanesInv
<1>3. Sound(disk)' /\ (~raced' => \A b \in Agents : Backs(disk, holds[b])')
  BY <1>0 DEF LanesInv, Sound, Backs
<1>4. ASSUME NEW b \in Agents PROVE MemoryOf(b)'
  <2>1. CASE b = a
    <3>1. ~stale[a] => mem[a] = disk
      BY DEF LanesInv, Memory, MemoryOf
    <3>2. Sound(mem[a])'
      BY <1>0 DEF Sound
    <3>3. ~stale'[a] => Continues(disk, mem[a])'
      BY <1>0, <3>1 DEF Continues
    <3>4. ~stale'[a] /\ ~raced' => /\ Backs(mem[a], claim[a])'
                                  /\ \A d \in Agents : d # a => Backs(mem[a], holds[d])'
      BY <1>0 DEF Backs
    <3> QED BY <1>0, <2>1, <3>2, <3>3, <3>4 DEF MemoryOf
  <2>2. CASE b # a
    BY <1>0, <2>2 DEF LanesInv, Memory, MemoryOf, Sound, Continues, Backs
  <2> QED BY <2>1, <2>2
<1> QED BY <1>2, <1>3, <1>4 DEF LanesInv, Memory, MemoryOf

\* An agent that gives up its turn without saving keeps the invariant.
LEMMA GiveKeeps ==
    ASSUME LanesTypeOK, LanesInv, NEW a \in Agents, agentPc'[a] = "idle",
           UNCHANGED <<disk, cap, raced>>,
           \A b \in Agents : b # a => /\ mem'[b] = mem[b] /\ agentPc'[b] = agentPc[b]
                                      /\ holds'[b] = holds[b] /\ claim'[b] = claim[b]
                                      /\ stale'[b] = stale[b],
           holds'[a] \in {holds[a], NoLane}, claim'[a] \in {claim[a], NoLane}
    PROVE  LanesInv'
<1>2. OwnClaims'
  BY DEF OwnClaims, LanesInv
<1>3. Sound(disk)'
  BY DEF LanesInv, Sound
<1>4. ASSUME ~raced', NEW b \in Agents PROVE Backs(disk, holds[b])'
  BY <1>4 DEF LanesInv, Backs
<1>5. ASSUME NEW b \in Agents PROVE MemoryOf(b)'
  <2>1. CASE b = a
    BY <2>1 DEF MemoryOf
  <2>2. CASE b # a
    <3>1. /\ mem'[b] = mem[b] /\ agentPc'[b] = agentPc[b] /\ claim'[b] = claim[b]
          /\ holds'[b] = holds[b] /\ stale'[b] = stale[b]
      BY <2>2
    <3>2. agentPc[b] # "idle" => Sound(mem[b])'
      BY <3>1 DEF LanesInv, Memory, MemoryOf, Sound
    <3>3. agentPc[b] = "save" /\ ~stale[b] => Continues(disk, mem[b])'
      BY <3>1 DEF LanesInv, Memory, MemoryOf, Continues
    <3>4. ASSUME agentPc[b] = "save", ~stale[b], ~raced
          PROVE  /\ Backs(mem[b], claim[b])'
                 /\ \A d \in Agents : d # b => Backs(mem[b], holds[d])'
      BY <3>1, <3>4 DEF LanesInv, Memory, MemoryOf, Backs
    <3> QED BY <3>1, <3>2, <3>3, <3>4 DEF LanesInv, Memory, MemoryOf
  <2> QED BY <2>1, <2>2
<1> QED BY <1>2, <1>3, <1>4, <1>5 DEF LanesInv, Memory, MemoryOf

\* Only lanes of the agent are changed, so the others' claims are borne out.
LEMMA OthersUntouched ==
    ASSUME OwnIds, NEW a \in Agents, NEW b \in Agents, b # a, NEW L, NEW M,
           holds[b] # NoLane => holds[b].id \in IdsOf[b], Backs(M, holds[b]),
           \A i \in Active(M) : M[i].id \notin IdsOf[a] => i \in Active(L) /\ L[i] = M[i],
           \A i \in Active(L) : L[i].id \in IdsOf[a] \/ (i \in Active(M) /\ L[i] = M[i])
    PROVE  Backs(L, holds[b])
<1>1. CASE holds[b] = NoLane
  BY <1>1 DEF Backs
<1>2. CASE holds[b] # NoLane
  <2>1. holds[b].id \notin IdsOf[a]
    BY <1>2 DEF OwnIds
  <2> QED BY <1>2, <2>1 DEF Backs
<1> QED BY <1>1, <1>2

\* acquire_lane keeps the invariant.
LEMMA AcquireKeeps ==
    ASSUME LanesTypeOK, LanesInv, OwnIds, NEW a \in Agents, Acquire(a), UNCHANGED cap
    PROVE  LanesInv'
<1>0. /\ agentPc[a] = "loaded" /\ mem[a] \in Seq(Lane) /\ cap \in Nat
      /\ Sound(mem[a]) /\ holds[a] = NoLane
  BY LanesAssumption DEF Acquire, LanesInv, Memory, MemoryOf, LanesTypeOK
<1>1. CASE Give(a) /\ UNCHANGED holds
  <2>1. /\ agentPc'[a] = "idle" /\ UNCHANGED <<disk, cap, raced>>
        /\ \A b \in Agents : b # a => /\ mem'[b] = mem[b] /\ agentPc'[b] = agentPc[b]
                                      /\ holds'[b] = holds[b] /\ claim'[b] = claim[b]
                                      /\ stale'[b] = stale[b]
        /\ holds'[a] = holds[a] /\ claim'[a] = claim[a]
    BY <1>1 DEF Give, LanesTypeOK
  <2> QED BY <2>1, GiveKeeps
<1>2. CASE ~(Give(a) /\ UNCHANGED holds)
  <2>1. PICK q \in RequestsOf[a] :
          LET l == [id |-> q.id, worktree |-> q.worktree, paths |-> q.paths,
                    age |-> 0, status |-> "active"]
          IN  /\ MayAcquire(mem[a], l)
              /\ Apply(a, Append(mem[a], l), [id |-> q.id, paths |-> q.paths, age |-> 0])
    BY <1>0, <1>2 DEF Acquire
  <2> DEFINE id == q.id
             P == q.paths
             l == [id |-> id, worktree |-> q.worktree, paths |-> P,
                   age |-> 0, status |-> "active"]
             c == [id |-> id, paths |-> P, age |-> 0]
             L == Append(mem[a], l)
  <2>0. /\ id \in LaneIds /\ q.worktree \in Worktrees /\ P \in OwnedPaths /\ id \in IdsOf[a]
    BY LanesAssumption DEF IdsOf
  <2>2. /\ l \in Lane /\ l.status = "active" /\ l.id = id /\ l.paths = P /\ l.age = 0
        /\ c.id = id /\ c.paths = P /\ c.age = 0
    BY <2>0, LanesAssumption DEF Lane, Statuses
  <2>3. MayAcquire(mem[a], l) /\ Apply(a, L, c)
    BY <2>1
  <2> HIDE DEF id, P, l, c
  <2>4. L \in Seq(Lane)
    BY <1>0, <2>2
  <2>5. /\ Sound(L) /\ Active(L) = Active(mem[a]) \cup {Len(mem[a]) + 1} /\ L[Len(mem[a]) + 1] = l
        /\ \A i \in DOMAIN mem[a] : i \in DOMAIN L /\ L[i] = mem[a][i]
    BY <1>0, <2>2, <2>3, SoundAcquire
  <2> HIDE DEF L
  <2>6. \A i \in Active(mem[a]) : i \in Active(L) /\ L[i] = mem[a][i] /\ L[i].id # id
    BY <2>2, <2>3, <2>5 DEF Active, MayAcquire
  <2>7. Backs(L, c)
    BY <2>2, <2>5, <2>6 DEF Backs
  <2>8. ASSUME ~stale[a], ~raced PROVE \A b \in Agents : b # a => Backs(L, holds[b])
    <3>1. \A i \in Active(mem[a]) : i \in Active(L) /\ L[i] = mem[a][i]
      BY <2>6
    <3>2. \A i \in Active(L) : L[i].id \in IdsOf[a] \/ (i \in Active(mem[a]) /\ L[i] = mem[a][i])
      BY <2>0, <2>2, <2>5, <2>6
    <3> SUFFICES ASSUME NEW b \in Agents, b # a PROVE Backs(L, holds[b])
      OBVIOUS
    <3>3. Backs(mem[a], holds[b]) /\ (holds[b] # NoLane => holds[b].id \in IdsOf[b])
      BY <1>0, <2>8, LoadedBacks
    <3> QED BY <3>1, <3>2, <3>3, OthersUntouched
  <2>9. Continues(mem[a], L)
    BY <2>5 DEF Continues
  <2> QED BY <1>0, <2>0, <2>2, <2>3, <2>4, <2>5, <2>7, <2>8, <2>9, ApplyKeeps
<1> QED BY <1>1, <1>2

\* heartbeat keeps the invariant.
LEMMA HeartbeatKeeps ==
    ASSUME LanesTypeOK, LanesInv, OwnIds, NEW a \in Agents, Heartbeat(a), UNCHANGED cap
    PROVE  LanesInv'
<1>0. /\ agentPc[a] = "loaded" /\ mem[a] \in Seq(Lane) /\ cap \in Nat
      /\ Sound(mem[a]) /\ holds[a] # NoLane /\ holds[a] \in Claims
      /\ holds[a].id \in IdsOf[a]
  BY LanesAssumption DEF Heartbeat, LanesInv, Memory, MemoryOf, LanesTypeOK, OwnClaims
<1>1. CASE Give(a) /\ holds' = [holds EXCEPT ![a] = NoLane]
  <2>1. /\ agentPc'[a] = "idle" /\ UNCHANGED <<disk, cap, raced>>
        /\ \A b \in Agents : b # a => /\ mem'[b] = mem[b] /\ agentPc'[b] = agentPc[b]
                                      /\ holds'[b] = holds[b] /\ claim'[b] = claim[b]
                                      /\ stale'[b] = stale[b]
        /\ holds'[a] = NoLane /\ claim'[a] = claim[a]
    BY <1>1 DEF Give, LanesTypeOK
  <2> QED BY <2>1, GiveKeeps
<1>2. CASE ~(Give(a) /\ holds' = [holds EXCEPT ![a] = NoLane])
  <2>1. PICK k \in Active(mem[a]) :
          /\ mem[a][k].id = holds[a].id
          /\ Apply(a, [mem[a] EXCEPT ![k].age = 0], [holds[a] EXCEPT !.age = 0])
    BY <1>0, <1>2 DEF Heartbeat
  <2> DEFINE L == [mem[a] EXCEPT ![k].age = 0]
             c == [holds[a] EXCEPT !.age = 0]
  <2>2. c.id = holds[a].id /\ c.paths = holds[a].paths /\ c.age = 0
    BY <1>0, ClaimShape, LanesAssumption
  <2>3. k \in DOMAIN mem[a] /\ mem[a][k] \in Lane
    BY <1>0, ElementOfSeq, LenProperties DEF Active
  <2>4. L \in Seq(Lane)
    <3>1. 0 \in 0..Ttl /\ "active" \in Statuses
      BY LanesAssumption DEF Statuses
    <3> QED BY <1>0, <2>3, <3>1, ChangedLedger
  <2>5. /\ DOMAIN L = DOMAIN mem[a]
        /\ \A i \in DOMAIN mem[a] : /\ i # k => L[i] = mem[a][i]
                                    /\ L[i].id = mem[a][i].id /\ L[i].worktree = mem[a][i].worktree
                                    /\ L[i].paths = mem[a][i].paths /\ L[i].status = mem[a][i].status
        /\ L[k].age = 0
    <3>1. /\ [mem[a][k] EXCEPT !.age = 0].id = mem[a][k].id
          /\ [mem[a][k] EXCEPT !.age = 0].worktree = mem[a][k].worktree
          /\ [mem[a][k] EXCEPT !.age = 0].paths = mem[a][k].paths
          /\ [mem[a][k] EXCEPT !.age = 0].status = mem[a][k].status
          /\ [mem[a][k] EXCEPT !.age = 0].age = 0
      BY <2>3 DEF Lane
    <3>2. \A i \in DOMAIN mem[a] : L[i] = IF i = k THEN [mem[a][k] EXCEPT !.age = 0] ELSE mem[a][i]
      BY <2>3
    <3> QED BY <2>3, <3>1, <3>2
  <2>6. Apply(a, L, c)
    BY <2>1
  <2> HIDE DEF L, c
  <2>7. Active(L) = Active(mem[a])
    BY <2>5 DEF Active
  <2>8. Sound(L)
    BY <1>0, <2>4, <2>5, <2>7, SoundShrinks DEF Active
  <2>9. \A i \in Active(mem[a]) : mem[a][i].id = holds[a].id => i = k
    BY <1>0, <2>1 DEF Sound
  <2>10. ASSUME ~stale[a], ~raced PROVE Backs(L, c)
    BY <1>0, <2>10, LoadedBacks, <2>1, <2>2, <2>3, <2>5, <2>7, <2>9 DEF Backs, Active
  <2>11. ASSUME ~stale[a], ~raced PROVE \A b \in Agents : b # a => Backs(L, holds[b])
    <3>1. \A i \in Active(mem[a]) : mem[a][i].id \notin IdsOf[a] => i \in Active(L) /\ L[i] = mem[a][i]
      BY <1>0, <2>1, <2>5, <2>7 DEF Active
    <3>2. \A i \in Active(L) : L[i].id \in IdsOf[a] \/ (i \in Active(mem[a]) /\ L[i] = mem[a][i])
      BY <1>0, <2>1, <2>5, <2>7 DEF Active
    <3> SUFFICES ASSUME NEW b \in Agents, b # a PROVE Backs(L, holds[b])
      OBVIOUS
    <3>3. Backs(mem[a], holds[b]) /\ (holds[b] # NoLane => holds[b].id \in IdsOf[b])
      BY <1>0, <2>11, LoadedBacks
    <3> QED BY <3>1, <3>2, <3>3, OthersUntouched
  <2>12. Continues(mem[a], L)
    BY <2>5 DEF Continues
  <2> QED BY <1>0, <2>2, <2>4, <2>6, <2>8, <2>10, <2>11, <2>12, ApplyKeeps
<1> QED BY <1>1, <1>2

\* release_lane keeps the invariant.
LEMMA ReleaseKeeps ==
    ASSUME LanesTypeOK, LanesInv, OwnIds, NEW a \in Agents, Release(a), UNCHANGED cap
    PROVE  LanesInv'
<1>0. /\ agentPc[a] = "loaded" /\ mem[a] \in Seq(Lane) /\ cap \in Nat
      /\ Sound(mem[a]) /\ holds[a] # NoLane /\ holds[a].id \in IdsOf[a]
  BY LanesAssumption DEF Release, LanesInv, Memory, MemoryOf, LanesTypeOK, OwnClaims
<1>1. CASE Give(a) /\ UNCHANGED holds
  <2>1. /\ agentPc'[a] = "idle" /\ UNCHANGED <<disk, cap, raced>>
        /\ \A b \in Agents : b # a => /\ mem'[b] = mem[b] /\ agentPc'[b] = agentPc[b]
                                      /\ holds'[b] = holds[b] /\ claim'[b] = claim[b]
                                      /\ stale'[b] = stale[b]
        /\ holds'[a] = holds[a] /\ claim'[a] = claim[a]
    BY <1>1 DEF Give, LanesTypeOK
  <2> QED BY <2>1, GiveKeeps
<1>2. CASE ~(Give(a) /\ UNCHANGED holds)
  <2>1. PICK k \in DOMAIN mem[a] :
          mem[a][k].id = holds[a].id /\ Apply(a, [mem[a] EXCEPT ![k].status = "released"], NoLane)
    BY <1>0, <1>2 DEF Release
  <2> DEFINE s == "released"
             L == [mem[a] EXCEPT ![k].status = s]
  <2>2. mem[a][k] \in Lane /\ s \in Statuses /\ s # "active" /\ 0 \in 0..Ttl
    BY <1>0, ElementOfSeq, LenProperties, LanesAssumption DEF Statuses
  <2>3. L \in Seq(Lane)
    BY <1>0, <2>2, ChangedLedger
  <2>4. DOMAIN L = DOMAIN mem[a] /\ L[k].status = s /\ \A i \in DOMAIN mem[a] : i # k => L[i] = mem[a][i]
    <3>1. [mem[a][k] EXCEPT !.status = s].status = s
      BY <2>2 DEF Lane
    <3>2. \A i \in DOMAIN mem[a] : L[i] = IF i = k THEN [mem[a][k] EXCEPT !.status = s] ELSE mem[a][i]
      OBVIOUS
    <3> QED BY <3>1, <3>2
  <2>5. Apply(a, L, NoLane)
    BY <2>1
  <2> HIDE DEF L
  <2>6. Active(L) = Active(mem[a]) \ {k} /\ \A i \in Active(L) : L[i] = mem[a][i]
    BY <2>2, <2>4 DEF Active
  <2>7. Sound(L)
    BY <1>0, <2>3, <2>6, SoundShrinks
  <2>8. ASSUME ~stale[a], ~raced PROVE \A b \in Agents : b # a => Backs(L, holds[b])
    <3>1. \A i \in Active(mem[a]) : mem[a][i].id \notin IdsOf[a] => i \in Active(L) /\ L[i] = mem[a][i]
      BY <1>0, <2>1, <2>6
    <3>2. \A i \in Active(L) : L[i].id \in IdsOf[a] \/ (i \in Active(mem[a]) /\ L[i] = mem[a][i])
      BY <2>6
    <3> SUFFICES ASSUME NEW b \in Agents, b # a PROVE Backs(L, holds[b])
      OBVIOUS
    <3>3. Backs(mem[a], holds[b]) /\ (holds[b] # NoLane => holds[b].id \in IdsOf[b])
      BY <1>0, <2>8, LoadedBacks
    <3> QED BY <3>1, <3>2, <3>3, OthersUntouched
  <2>9. Continues(mem[a], L)
    BY <2>2, <2>4 DEF Continues
  <2>10. Backs(L, NoLane)
    BY DEF Backs
  <2> QED BY <1>0, <2>3, <2>5, <2>7, <2>8, <2>9, <2>10, ApplyKeeps
<1> QED BY <1>1, <1>2

\* expire_leases keeps the invariant: it stops no lane whose lease is live.
LEMMA ExpireKeeps ==
    ASSUME LanesTypeOK, LanesInv, NEW a \in Agents, ExpireLeases(a), UNCHANGED cap
    PROVE  LanesInv'
<1>0. /\ agentPc[a] = "loaded" /\ mem[a] \in Seq(Lane) /\ cap \in Nat
      /\ Sound(mem[a])
  BY LanesAssumption DEF ExpireLeases, LanesInv, Memory, MemoryOf, LanesTypeOK
<1> DEFINE L == Stopped(mem[a])
<1>1. Apply(a, L, holds[a])
  BY <1>0 DEF ExpireLeases, Stopped
<1>2. /\ L \in Seq(Lane) /\ DOMAIN L = DOMAIN mem[a]
      /\ \A i \in DOMAIN mem[a] : \/ ~Lapsed(mem[a][i]) /\ L[i] = mem[a][i]
                                  \/ Lapsed(mem[a][i]) /\ L[i].status = "stopped"
  BY <1>0, StoppedLedger
<1> HIDE DEF L
<1>3. /\ Active(L) \subseteq Active(mem[a])
      /\ \A i \in Active(L) : L[i] = mem[a][i]
      /\ \A i \in Active(mem[a]) : i \notin Active(L) => ~(mem[a][i].age < Ttl)
  <2>1. \A i \in DOMAIN mem[a] : mem[a][i].age \in Nat
    <3>1. \A i \in DOMAIN mem[a] : mem[a][i] \in Lane
      BY <1>0, ElementOfSeq, LenProperties
    <3> QED BY <3>1, LanesAssumption DEF Lane
  <2>2. \A i \in DOMAIN mem[a] : mem[a][i].status = "active" /\ mem[a][i].age < Ttl => ~Lapsed(mem[a][i])
    BY <2>1, LanesAssumption DEF Lapsed
  <2>3. \A i \in DOMAIN mem[a] : Lapsed(mem[a][i]) => mem[a][i].status = "active"
    BY DEF Lapsed
  <2> QED BY <1>2, <2>2, <2>3 DEF Active
<1>4. Sound(L)
  BY <1>0, <1>2, <1>3, SoundShrinks
<1>5. ASSUME ~stale[a], ~raced PROVE \A b \in Agents : Backs(L, holds[b])
  BY <1>0, <1>3, <1>5, LoadedBacks DEF Backs
<1>6. Continues(mem[a], L)
  BY <1>2 DEF Continues, Lapsed
<1>7. holds[a] # NoLane => holds[a].id \in IdsOf[a]
  BY DEF LanesInv, OwnClaims
<1> QED BY <1>0, <1>1, <1>2, <1>4, <1>5, <1>6, <1>7, ApplyKeeps

\* save_ledger keeps the invariant: what is saved was computed from the file, or the
\* save is lost on the others and noted.
LEMMA SaveKeeps ==
    ASSUME LanesTypeOK, LanesInv, NEW a \in Agents, Save(a), UNCHANGED cap
    PROVE  LanesInv'
<1>0. /\ disk' = mem[a] /\ holds'[a] = claim[a] /\ claim'[a] = NoLane /\ agentPc'[a] = "idle"
      /\ UNCHANGED cap /\ agentPc[a] = "save" /\ raced' = (raced \/ stale[a])
      /\ \A b \in Agents : b # a => /\ agentPc'[b] = agentPc[b] /\ mem'[b] = mem[b]
                                    /\ holds'[b] = holds[b] /\ claim'[b] = claim[b]
                                    /\ stale'[b] = (agentPc[b] # "idle")
  BY DEF Save, LanesTypeOK
<1>2. OwnClaims'
  BY <1>0 DEF OwnClaims, LanesInv
<1>3. Sound(disk)'
  BY <1>0 DEF LanesInv, Memory, MemoryOf, Sound
<1>4. ASSUME ~raced', NEW b \in Agents PROVE Backs(disk, holds[b])'
  <2>1. ~raced /\ ~stale[a]
    BY <1>0, <1>4
  <2> QED BY <1>0, <2>1 DEF LanesInv, Memory, MemoryOf, Backs
<1>5. ASSUME NEW b \in Agents PROVE MemoryOf(b)'
  <2>1. CASE b = a
    BY <1>0, <2>1 DEF MemoryOf
  <2>2. CASE b # a
    <3>1. agentPc[b] # "idle" => Sound(mem[b])'
      BY <1>0, <2>2 DEF LanesInv, Memory, MemoryOf, Sound
    <3> QED BY <1>0, <2>2, <3>1 DEF MemoryOf
  <2> QED BY <2>1, <2>2
<1> QED BY <1>2, <1>3, <1>4, <1>5 DEF LanesInv, Memory, MemoryOf

\* Time passing keeps a claim borne out.
LEMMA AgedBacks ==
    ASSUME NEW L \in Seq(Lane), NEW c \in Claims, Backs(L, c)
    PROVE  Backs(Aged(L), AgedClaim(c))
<1>1. CASE c = NoLane
  BY <1>1 DEF AgedClaim, Backs
<1>2. CASE c # NoLane
  <2>1. c.age \in 0..Ttl /\ (Older(c.age) < Ttl => c.age < Ttl)
    BY <1>2, ClaimShape, LanesAssumption DEF Older
  <2>2. \A i \in Active(L) : i \in DOMAIN L
    BY DEF Active
  <2> QED BY <1>2, <2>1, <2>2, AgedLedger, AgedClaims DEF Backs
<1> QED BY <1>1, <1>2

\* Time passing loses no entry and revives none.
LEMMA AgedContinues ==
    ASSUME NEW L \in Seq(Lane), NEW M \in Seq(Lane), Continues(L, M)
    PROVE  Continues(Aged(L), Aged(M))
<1>1. /\ DOMAIN Aged(L) = DOMAIN L /\ DOMAIN Aged(M) = DOMAIN M
      /\ \A i \in DOMAIN L : Aged(L)[i].status = L[i].status
      /\ \A i \in DOMAIN M : Aged(M)[i].status = M[i].status
  BY AgedLedger
<1> QED BY <1>1 DEF Continues

\* Time passing keeps the invariant.
LEMMA TickKeeps ==
    ASSUME LanesTypeOK, LanesInv, Tick, UNCHANGED cap
    PROVE  LanesInv'
<1>0. /\ disk' = Aged(disk) /\ UNCHANGED <<agentPc, cap, stale, raced>>
      /\ \A a \in Agents : /\ mem'[a] = Aged(mem[a]) /\ claim'[a] = AgedClaim(claim[a])
                           /\ holds'[a] = AgedClaim(holds[a])
      /\ disk \in Seq(Lane) /\ cap \in Nat
      /\ \A a \in Agents : mem[a] \in Seq(Lane) /\ claim[a] \in Claims /\ holds[a] \in Claims
  BY LanesAssumption DEF Tick, LanesTypeOK
<1>1. ASSUME NEW L \in Seq(Lane), Sound(L) PROVE Sound(Aged(L))
  <2>1. \A i \in Active(L) : i \in DOMAIN L
    BY DEF Active
  <2> QED BY <1>0, <1>1, <2>1, AgedLedger, SoundShrinks
<1>3. OwnClaims'
  <2>1. \A c \in Claims : AgedClaim(c) # NoLane => c # NoLane /\ AgedClaim(c).id = c.id
    BY AgedClaims DEF AgedClaim
  <2> QED BY <1>0, <2>1 DEF OwnClaims, LanesInv
<1>4. Sound(disk)'
  <2>1. Sound(Aged(disk))
    BY <1>0, <1>1 DEF LanesInv
  <2> QED BY <1>0, <2>1 DEF Sound
<1>5. ASSUME ~raced, NEW a \in Agents PROVE Backs(disk, holds[a])'
  <2>1. Backs(Aged(disk), AgedClaim(holds[a]))
    BY <1>0, <1>5, AgedBacks DEF LanesInv
  <2> QED BY <1>0, <2>1 DEF Backs
<1>6. ASSUME NEW a \in Agents PROVE MemoryOf(a)'
  <2>0. disk' = Aged(disk) /\ mem'[a] = Aged(mem[a])
    BY <1>0
  <2>1. agentPc[a] # "idle" => Sound(mem[a])'
    <3>1. agentPc[a] # "idle" => Sound(Aged(mem[a]))
      BY <1>0, <1>1 DEF LanesInv, Memory, MemoryOf
    <3> QED BY <1>0, <2>0, <3>1 DEF Sound
  <2>2. agentPc[a] = "loaded" /\ ~stale[a] => mem'[a] = disk'
    BY <2>0 DEF LanesInv, Memory, MemoryOf
  <2>3. agentPc[a] = "save" /\ ~stale[a] => Continues(disk, mem[a])'
    <3>1. agentPc[a] = "save" /\ ~stale[a] => Continues(Aged(disk), Aged(mem[a]))
      BY <1>0, AgedContinues DEF LanesInv, Memory, MemoryOf
    <3> QED BY <2>0, <3>1, Zenon DEF Continues
  <2>4. ASSUME agentPc[a] = "save", ~stale[a], ~raced PROVE Backs(mem[a], claim[a])'
    <3>1. Backs(Aged(mem[a]), AgedClaim(claim[a]))
      BY <1>0, <2>4, AgedBacks DEF LanesInv, Memory, MemoryOf
    <3> QED BY <1>0, <3>1 DEF Backs
  <2>5. ASSUME agentPc[a] = "save", ~stale[a], ~raced, NEW b \in Agents, b # a
        PROVE  Backs(mem[a], holds[b])'
    <3>1. Backs(Aged(mem[a]), AgedClaim(holds[b]))
      BY <1>0, <2>5, AgedBacks DEF LanesInv, Memory, MemoryOf
    <3> QED BY <1>0, <3>1 DEF Backs
  <2> QED BY <1>0, <2>1, <2>2, <2>3, <2>4, <2>5 DEF MemoryOf
<1> QED BY <1>0, <1>3, <1>4, <1>5, <1>6 DEF LanesInv, Memory

\* Every step of the ledger keeps the invariant.
LEMMA LanesInductive ==
    ASSUME OwnIds, LanesTypeOK, LanesInv, [LanesNext]_laneVars
    PROVE  LanesInv'
<1>1. ASSUME NEW a \in Agents, Load(a), UNCHANGED cap PROVE LanesInv'
  <2>0. /\ UNCHANGED <<disk, holds, claim, cap, stale, raced>> /\ mem'[a] = disk
        /\ agentPc'[a] = "loaded"
        /\ \A b \in Agents : b # a => agentPc'[b] = agentPc[b] /\ mem'[b] = mem[b]
    BY <1>1 DEF Load, LanesTypeOK
  <2>1. OwnClaims'
    BY <2>0 DEF LanesInv, OwnClaims
  <2>2. Sound(disk)' /\ (~raced' => \A b \in Agents : Backs(disk, holds[b])')
    BY <2>0 DEF LanesInv, Sound, Backs
  <2>3. ASSUME NEW b \in Agents PROVE MemoryOf(b)'
    <3>1. CASE b = a
      <4>1. Sound(mem[a])'
        BY <2>0 DEF LanesInv, Sound
      <4> QED BY <2>0, <3>1, <4>1 DEF MemoryOf
    <3>2. CASE b # a
      BY <2>0, <3>2 DEF LanesInv, Memory, MemoryOf, Sound, Continues, Backs
    <3> QED BY <3>1, <3>2
  <2> QED BY <2>1, <2>2, <2>3 DEF LanesInv, Memory
<1>2. ASSUME NEW a \in Agents, AgentStep(a), UNCHANGED cap PROVE LanesInv'
  BY <1>2, AcquireKeeps, HeartbeatKeeps, ReleaseKeeps, ExpireKeeps, SaveKeeps DEF AgentStep
<1>3. ASSUME NEW a \in Agents, Die(a), UNCHANGED cap PROVE LanesInv'
  <2>1. /\ agentPc'[a] = "idle" /\ UNCHANGED <<disk, cap, raced>>
        /\ \A b \in Agents : b # a => /\ mem'[b] = mem[b] /\ agentPc'[b] = agentPc[b]
                                      /\ holds'[b] = holds[b] /\ claim'[b] = claim[b]
                                      /\ stale'[b] = stale[b]
        /\ holds'[a] = NoLane /\ claim'[a] = NoLane
    BY <1>3 DEF Die, LanesTypeOK
  <2> QED BY <2>1, GiveKeeps
<1>4. CASE Tick /\ UNCHANGED cap
  BY <1>4, TickKeeps
<1>5. CASE UNCHANGED laneVars
  <2>1. UNCHANGED <<disk, mem, agentPc, claim, holds, stale, raced, cap>>
    BY <1>5 DEF laneVars, ledgerVars
  <2> QED BY <2>1 DEF LanesInv, OwnClaims, Sound, Backs, Memory, MemoryOf, Continues
<1> QED BY <1>1, <1>2, <1>3, <1>4, <1>5 DEF LanesNext

\* The invariant holds from the empty ledger on.
LEMMA LanesInvariant ==
    ASSUME OwnIds PROVE LanesSpec => []LanesInv
<1>1. LanesInit => LanesInv
  <2> SUFFICES ASSUME LanesInit PROVE LanesInv
    OBVIOUS
  <2>1. Active(disk) = {} /\ cap \in Nat
    BY LanesAssumption DEF LanesInit, Active
  <2>2. Sound(disk)
    BY <2>1, FS_EmptySet DEF Sound
  <2> QED BY <2>2 DEF LanesInit, LanesInv, OwnClaims, Backs, Memory, MemoryOf
<1>2. LanesTypeOK /\ LanesInv /\ [LanesNext]_laneVars => LanesInv'
  BY LanesInductive
<1> QED BY <1>1, <1>2, LanesTypeCorrect, PTL DEF LanesSpec

\* However agents that name their own lanes interleave, the file never has more
\* active lanes than the cap or two that own one path, worktree or id; and until a
\* save replaces a file its agent never saw, an agent whose lease is live finds its
\* lane in the file, and no other agent's lane overlaps it - for any number of
\* agents, lanes and paths, any caps and any time to live.
THEOREM LedgerIsSound ==
    ASSUME OwnIds PROVE LanesSpec => []LedgerSound
<1>1. LanesTypeOK /\ LanesInv => LedgerSound
  <2> SUFFICES ASSUME LanesTypeOK, LanesInv PROVE LedgerSound
    OBVIOUS
  <2>1. LedgerConsistent
    BY DEF LanesInv, Sound, LedgerConsistent
  <2>2. ~raced => HoldersListed
    BY DEF LanesInv, Backs, HoldersListed
  <2>3. ASSUME ~raced PROVE HoldersDisjoint
    <3> SUFFICES ASSUME NEW a \in Agents, NEW b \in Agents, a # b,
                        holds[a] # NoLane, holds[b] # NoLane,
                        holds[a].age < Ttl, holds[b].age < Ttl
                 PROVE  ~SetsOverlap(holds[a].paths, holds[b].paths)
      BY DEF HoldersDisjoint
    <3>1. PICK i \in Active(disk) : disk[i].id = holds[a].id /\ disk[i].paths = holds[a].paths
      BY <2>2, <2>3 DEF HoldersListed
    <3>2. PICK j \in Active(disk) : disk[j].id = holds[b].id /\ disk[j].paths = holds[b].paths
      BY <2>2, <2>3 DEF HoldersListed
    <3>3. i # j
      BY <3>1, <3>2 DEF LanesInv, OwnClaims, OwnIds
    <3> QED BY <2>1, <3>1, <3>2, <3>3 DEF LedgerConsistent
  <2> QED BY <2>1, <2>2, <2>3 DEF LedgerSound
<1> QED BY <1>1, LanesTypeCorrect, LanesInvariant, PTL

\* What an agent saves continues the file, unless the file changed since it was loaded.
TurnInv ==
    \A a \in Agents : /\ agentPc[a] = "loaded" /\ ~stale[a] => mem[a] = disk
                      /\ agentPc[a] = "save" /\ ~stale[a] => Continues(disk, mem[a])

\* An operation that continues the loaded ledger keeps the invariant.
LEMMA TurnApply ==
    ASSUME LanesTypeOK, TurnInv, NEW a \in Agents, agentPc[a] = "loaded", NEW L, NEW c,
           Apply(a, L, c), Continues(mem[a], L)
    PROVE  TurnInv'
<1>0. /\ disk' = disk /\ mem'[a] = L /\ agentPc'[a] = "save" /\ stale' = stale
      /\ \A b \in Agents : b # a => agentPc'[b] = agentPc[b] /\ mem'[b] = mem[b]
  BY DEF Apply, LanesTypeOK
<1>1. ~stale[a] => Continues(disk, mem[a])'
  BY <1>0 DEF Continues, TurnInv
<1>2. ASSUME NEW b \in Agents, b # a, agentPc[b] = "save", ~stale[b] PROVE Continues(disk, mem[b])'
  BY <1>0, <1>2 DEF Continues, TurnInv
<1> QED BY <1>0, <1>1, <1>2 DEF TurnInv

\* An agent's turn ends, or others' copies stay as they are.
LEMMA TurnEnds ==
    ASSUME LanesTypeOK, TurnInv, NEW a \in Agents, agentPc' = [agentPc EXCEPT ![a] = "idle"],
           mem' = [mem EXCEPT ![a] = << >>],
           \/ disk' = disk /\ stale' = [stale EXCEPT ![a] = FALSE]
           \/ stale' = [b \in Agents |-> b # a /\ agentPc[b] # "idle"]
    PROVE  TurnInv'
<1>0. agentPc'[a] = "idle" /\ \A b \in Agents : b # a => agentPc'[b] = agentPc[b] /\ mem'[b] = mem[b]
  BY DEF LanesTypeOK
<1>2. CASE disk' = disk /\ stale' = [stale EXCEPT ![a] = FALSE]
  <2>1. ASSUME NEW b \in Agents, b # a PROVE stale'[b] = stale[b]
    BY <1>2, <2>1 DEF LanesTypeOK
  <2> QED BY <1>0, <1>2, <2>1 DEF TurnInv, Continues
<1>3. CASE stale' = [b \in Agents |-> b # a /\ agentPc[b] # "idle"]
  BY <1>0, <1>3 DEF TurnInv
<1> QED BY <1>2, <1>3

\* However the agents interleave, a save that replaces the file its agent loaded loses
\* no entry and makes no released or stopped lane active again, whatever ids they use.
THEOREM StoppedStaysStopped ==
    LanesSpec => NeverRevived
<1> DEFINE Kept == \/ StaleSave
                   \/ \A i \in DOMAIN disk :
                        /\ i \in DOMAIN disk'
                        /\ disk[i].status # "active" => disk'[i].status # "active"
<1>1. LanesInit => TurnInv
  BY DEF LanesInit, TurnInv
<1>2. LanesTypeOK /\ TurnInv /\ [LanesNext]_laneVars => TurnInv'
  <2> SUFFICES ASSUME LanesTypeOK, TurnInv, [LanesNext]_laneVars PROVE TurnInv'
    OBVIOUS
  <2>1. ASSUME NEW a \in Agents, Load(a) PROVE TurnInv'
    <3>1. /\ disk' = disk /\ stale' = stale /\ mem'[a] = disk /\ agentPc'[a] = "loaded"
          /\ \A b \in Agents : b # a => agentPc'[b] = agentPc[b] /\ mem'[b] = mem[b]
      BY <2>1 DEF Load, LanesTypeOK
    <3> QED BY <3>1 DEF TurnInv, Continues
  <2>2. ASSUME NEW a \in Agents, Acquire(a) \/ Heartbeat(a) \/ Release(a) \/ ExpireLeases(a)
        PROVE  TurnInv'
    <3>0. agentPc[a] = "loaded" /\ mem[a] \in Seq(Lane)
      BY <2>2 DEF Acquire, Heartbeat, Release, ExpireLeases, TurnInv, LanesTypeOK
    <3>1. CASE Give(a)
      BY <3>1, TurnEnds DEF Give
    <3>2. CASE Acquire(a) /\ ~Give(a)
      <4>1. PICK l, c : Apply(a, Append(mem[a], l), c)
        BY <3>0, <3>2 DEF Acquire
      <4>2. Continues(mem[a], Append(mem[a], l))
        BY <3>0 DEF Continues
      <4> QED BY <3>0, <4>1, <4>2, TurnApply
    <3>3. CASE Heartbeat(a) /\ ~Give(a)
      <4>0. PICK k \in Active(mem[a]) : \E c : Apply(a, [mem[a] EXCEPT ![k].age = 0], c)
        BY <3>0, <3>3 DEF Heartbeat
      <4>1. PICK c : Apply(a, [mem[a] EXCEPT ![k].age = 0], c)
        BY <4>0
      <4>2. Continues(mem[a], [mem[a] EXCEPT ![k].age = 0])
        BY DEF Continues, Active
      <4> QED BY <3>0, <4>1, <4>2, TurnApply
    <3>4. CASE Release(a) /\ ~Give(a)
      <4>1. PICK k \in DOMAIN mem[a] :
              Apply(a, [mem[a] EXCEPT ![k].status = "released"], NoLane)
        BY <3>0, <3>4 DEF Release
      <4>2. [mem[a][k] EXCEPT !.status = "released"].status = "released"
        BY <3>0, ElementOfSeq, LenProperties DEF Lane
      <4>3. Continues(mem[a], [mem[a] EXCEPT ![k].status = "released"])
        BY <4>2 DEF Continues
      <4> QED BY <3>0, <4>1, <4>3, TurnApply
    <3>5. CASE ExpireLeases(a)
      <4>1. Apply(a, Stopped(mem[a]), holds[a])
        BY <3>0, <3>5 DEF ExpireLeases, Stopped
      <4>2. Continues(mem[a], Stopped(mem[a]))
        BY <3>0, StoppedLedger DEF Continues
      <4> QED BY <3>0, <4>1, <4>2, TurnApply
    <3> QED BY <2>2, <3>1, <3>2, <3>3, <3>4, <3>5
  <2>3. ASSUME NEW a \in Agents, Save(a) \/ Die(a) PROVE TurnInv'
    BY <2>3, TurnEnds DEF Save, Die
  <2>4. CASE Tick
    <3>1. /\ disk' = Aged(disk) /\ agentPc' = agentPc /\ disk \in Seq(Lane) /\ stale' = stale
          /\ \A a \in Agents : mem'[a] = Aged(mem[a]) /\ mem[a] \in Seq(Lane)
      BY <2>4 DEF Tick, LanesTypeOK
    <3>2. ASSUME NEW a \in Agents, agentPc[a] = "save", ~stale[a]
          PROVE  Continues(Aged(disk), Aged(mem[a]))
      BY <3>1, <3>2, AgedContinues DEF TurnInv
    <3>3. ASSUME NEW a \in Agents, agentPc[a] = "save", ~stale[a] PROVE Continues(disk, mem[a])'
      BY <3>1, <3>2, <3>3 DEF Continues
    <3> QED BY <3>1, <3>3 DEF TurnInv
  <2>5. CASE UNCHANGED laneVars
    BY <2>5 DEF laneVars, ledgerVars, TurnInv, Continues
  <2> QED BY <2>1, <2>2, <2>3, <2>4, <2>5 DEF LanesNext, AgentStep
<1>3. LanesTypeOK /\ TurnInv /\ [LanesNext]_laneVars => [Kept]_laneVars
  <2> SUFFICES ASSUME LanesTypeOK, TurnInv, LanesNext PROVE Kept
    OBVIOUS
  <2>1. ASSUME NEW a \in Agents, Save(a) PROVE Kept
    <3>1. CASE stale[a]
      BY <2>1, <3>1 DEF StaleSave
    <3>2. CASE ~stale[a]
      BY <2>1, <3>2 DEF Save, TurnInv, Continues
    <3> QED BY <3>1, <3>2
  <2>2. CASE Tick
    BY <2>2, AgedLedger DEF Tick, LanesTypeOK
  <2>3. CASE disk' = disk
    BY <2>3
  <2>4. ASSUME NEW a \in Agents, Acquire(a) \/ Heartbeat(a) \/ Release(a) \/ ExpireLeases(a)
        PROVE  disk' = disk
    BY <2>4 DEF Acquire, Heartbeat, Release, ExpireLeases, Apply, Give
  <2>5. ASSUME NEW a \in Agents, Load(a) \/ Die(a) PROVE disk' = disk
    BY <2>5 DEF Load, Die
  <2> HIDE DEF Kept
  <2> QED BY <2>1, <2>2, <2>3, <2>4, <2>5, Zenon DEF LanesNext, AgentStep
<1> QED BY <1>1, <1>2, <1>3, LanesTypeCorrect, PTL DEF LanesSpec, NeverRevived
=============================================================================
