------------------------------- MODULE CasProofs ------------------------------
(***************************************************************************)
(* Theorems about the ingest transaction, and about the integrity sweep    *)
(* beside it, for any number of processes, blobs, crashes and power losses.*)
(***************************************************************************)
EXTENDS CasFsck, TLAPS

\* The bytes of a blob hash to the digest the engine computes for it.
LEMMA DigestOfJob ==
    ASSUME TypeOK, NEW p \in Procs
    PROVE  /\ job[p].blob \in Blobs /\ job[p].time \in Times
           /\ D(p) \in Digests
           /\ HashesTo(job[p].blob, D(p))
           /\ MyReceipt(p) \in ReceiptId
           /\ MyReceipt(p) # NoReceipt
  BY CasAssumption DEF TypeOK, D, HashesTo, MyReceipt, ReceiptId, NoReceipt

\* An absent file is a file value.
LEMMA MissingIsFile == Missing \in File
  BY DEF Missing, File, Content

\* What a power loss leaves of a file is a file value.
LEMMA TornIsFile ==
    ASSUME NEW f \in File
    PROVE  Torn(f) \in File
  BY DEF Torn, File, Content

\* Every step, of any process and of the platform, keeps every variable in its
\* type.
THEOREM CasTypeCorrect == Spec => []TypeOK
<1>1. Init => TypeOK
  BY MissingIsFile, CasAssumption DEF Init, TypeOK, Steps, Outcomes
<1>2. TypeOK /\ [Next]_vars => TypeOK'
  <2> SUFFICES ASSUME TypeOK, [Next]_vars PROVE TypeOK'
    OBVIOUS
  <2>1. ASSUME NEW p \in Procs, Start(p) PROVE TypeOK'
    <3>1. Sources[p] \subseteq Blobs
      BY CasAssumption
    <3>2. PICK b \in Blobs, t \in Times : job' = [job EXCEPT ![p] = [blob |-> b, time |-> t]]
      BY <2>1, <3>1 DEF Start
    <3> QED BY <2>1, <3>2 DEF TypeOK, Start, Goto, files, history, faults, Steps, Outcomes
  <2>2. ASSUME NEW p \in Procs, Step(p) PROVE TypeOK'
    <3>0. /\ D(p) \in Digests /\ MyReceipt(p) \in ReceiptId
          /\ job[p].blob \in Blobs
      BY DigestOfJob
    <3> USE <3>0, MissingIsFile
    <3>1. CASE DedupCheck(p)
      BY <3>1 DEF TypeOK, DedupCheck, Goto, files, history, faults, Steps
    <3>2. CASE Capacity(p)
      BY <3>2 DEF TypeOK, Capacity, Goto, Return, files, history, faults, Steps, Outcomes
    <3>3. CASE WriteStage(p)
      <4>1. PICK c \in {job[p].blob} \cup
                       (IF job[p].blob \in FaultyBlobs THEN {Garbage} ELSE {}) :
              stage' = [stage EXCEPT ![p] = [bytes |-> c, synced |-> TRUE]]
        BY <3>3 DEF WriteStage
      <4>2. [bytes |-> c, synced |-> TRUE] \in File
        BY <4>1 DEF File, Content
      <4> QED BY <3>3, <4>1, <4>2 DEF TypeOK, WriteStage, Goto, files, history, faults, Steps
    <3>4. CASE RenameToPartial(p)
      BY <3>4 DEF TypeOK, RenameToPartial, Goto, faults, history, Steps
    <3>5. CASE Verify(p)
      BY <3>5 DEF TypeOK, Verify, Goto, Return, files, history, faults, Steps, Outcomes
    <3>6. CASE UnlinkBad(p)
      BY <3>6 DEF TypeOK, UnlinkBad, Goto, Return, faults, history, Steps, Outcomes
    <3>7. CASE PublishCheck(p)
      BY <3>7 DEF TypeOK, PublishCheck, Goto, files, history, faults, Steps
    <3>8. CASE UnlinkDup(p)
      BY <3>8 DEF TypeOK, UnlinkDup, Goto, faults, history, Steps
    <3>9. CASE Replace(p)
      <4>1. CASE ~Exists(partial[D(p)])
        BY <3>9, <4>1 DEF TypeOK, Replace, Goto, Return, files, history, faults, Steps, Outcomes
      <4>2. CASE Exists(partial[D(p)])
        <5>1. /\ pc' = [pc EXCEPT ![p] = "fsync_dirs"]
              /\ objects' = [objects EXCEPT ![D(p)] = partial[D(p)]]
              /\ partial' = [partial EXCEPT ![D(p)] = Missing]
              /\ UNCHANGED <<job, outcome, stage, durable, descriptors, receipts, history, faults>>
          BY <3>9, <4>2 DEF Replace, Goto
        <5> QED BY <5>1 DEF TypeOK, faults, history, Steps
      <4> QED BY <4>1, <4>2
    <3>10. CASE FsyncDirs(p)
      BY <3>10 DEF TypeOK, FsyncDirs, Goto, faults, history, Steps
    <3>11. CASE WriteDescriptor(p)
      BY <3>11 DEF TypeOK, WriteDescriptor, Goto, faults, history, Steps
    <3>12. CASE WriteReceipt(p)
      BY <3>12 DEF TypeOK, WriteReceipt, Goto, Return, faults, Steps, Outcomes
    <3>13. CASE DedupOutcome(p)
      BY <3>13 DEF TypeOK, DedupOutcome, Goto, Return, files, history, faults, Steps, Outcomes
    <3> QED BY <2>2, <3>1, <3>2, <3>3, <3>4, <3>5, <3>6, <3>7, <3>8, <3>9, <3>10,
               <3>11, <3>12, <3>13 DEF Step
  <2>3. ASSUME NEW p \in Procs, Crash(p) PROVE TypeOK'
    BY <2>3, MissingIsFile, CasAssumption
    DEF TypeOK, Crash, Goto, Return, files, history, Steps, Outcomes
  <2>4. CASE PowerLoss
    BY <2>4, MissingIsFile, TornIsFile, CasAssumption
    DEF TypeOK, PowerLoss, Steps, Outcomes, history
  <2>5. CASE DeletePartial
    BY <2>5, MissingIsFile DEF TypeOK, DeletePartial, faults, history
  <2>6. CASE UNCHANGED vars
    BY <2>6 DEF TypeOK, vars, files, history, faults
  <2> QED BY <2>1, <2>2, <2>3, <2>4, <2>5, <2>6 DEF Next
<1> QED BY <1>1, <1>2, PTL DEF Spec
-----------------------------------------------------------------------------
\* A step of another process, or of this one outside steps 7-10, keeps the order
\* of the commit: it leaves the committed files, history alone and enters none of the
\* steps the order is about.
LEMMA CommitFrame ==
    ASSUME TypeOK, CommitInv, NEW p \in Procs, NEW s \in Steps,
           s \notin {"fsync_dirs", "descriptor", "receipt"},
           pc' = [pc EXCEPT ![p] = s],
           \A q \in Procs \ {p} : job'[q] = job[q],
           UNCHANGED <<objects, durable, descriptors, receipts, acked>>
    PROVE  CommitInv'
<1>1. \A q \in Procs : q # p => pc'[q] = pc[q] /\ D(q)' = D(q)
  BY DEF TypeOK, D
<1>2. pc'[p] = s
  BY DEF TypeOK
<1> QED BY <1>1, <1>2 DEF CommitInv, Exists

\* A power loss takes away only what was not durable.
LEMMA CommitPowerLoss ==
    ASSUME TypeOK, CommitInv, PowerLoss
    PROVE  CommitInv'
<1>1. PICK undone \in SUBSET {d \in Digests \ durable : Exists(objects[d])} :
        /\ objects' = [d \in Digests |-> IF d \in undone THEN Missing ELSE Torn(objects[d])]
        /\ durable' = durable \cup {d \in Digests \ undone : Exists(objects[d])}
  BY DEF PowerLoss
<1>2. \A f \in File : Exists(f) => Exists(Torn(f))
  BY CasAssumption DEF Exists, Torn, File
<1>3. \A d \in durable' : Exists(objects'[d])
  BY <1>1, <1>2 DEF TypeOK, CommitInv
<1>4. durable \subseteq durable'
  BY <1>1
<1>5. /\ UNCHANGED <<descriptors, receipts, acked>>
      /\ \A q \in Procs : pc'[q] = "idle"
  BY DEF PowerLoss, history
<1> QED BY <1>3, <1>4, <1>5 DEF CommitInv, Exists

\* Every step of the engine keeps the order object, descriptor, receipt.
LEMMA CommitInductive == TypeOK /\ TypeOK' /\ CommitInv /\ [Next]_vars => CommitInv'
<1> SUFFICES ASSUME TypeOK, TypeOK', CommitInv, [Next]_vars PROVE CommitInv'
  OBVIOUS
<1>1. ASSUME NEW p \in Procs, Start(p) PROVE CommitInv'
  <2>1. \A q \in Procs \ {p} : job'[q] = job[q]
    BY <1>1 DEF Start, TypeOK
  <2>2. /\ pc' = [pc EXCEPT ![p] = "dedup_check"]
        /\ UNCHANGED <<objects, durable, descriptors, receipts, acked>>
    BY <1>1 DEF Start, Goto, files, history
  <2>3. "dedup_check" \in Steps \ {"fsync_dirs", "descriptor", "receipt"}
    BY DEF Steps
  <2> QED BY <2>1, <2>2, <2>3, CommitFrame
<1>2. ASSUME NEW p \in Procs, Crash(p) PROVE CommitInv'
  <2>1. /\ pc' = [pc EXCEPT ![p] = "idle"]
        /\ UNCHANGED <<job, objects, durable, descriptors, receipts, acked>>
    BY <1>2 DEF Crash, Goto, Return, files, history
  <2>2. "idle" \in Steps \ {"fsync_dirs", "descriptor", "receipt"}
    BY DEF Steps
  <2> QED BY <2>1, <2>2, CommitFrame
<1>3. ASSUME NEW p \in Procs, Step(p) PROVE CommitInv'
  <2>0. D(p) \in Digests /\ MyReceipt(p) \in ReceiptId /\ MyReceipt(p) # NoReceipt
    BY DigestOfJob
  <2>1. CASE \/ DedupCheck(p) \/ Capacity(p) \/ WriteStage(p) \/ RenameToPartial(p)
             \/ Verify(p) \/ UnlinkBad(p) \/ PublishCheck(p) \/ UnlinkDup(p)
             \/ DedupOutcome(p)
    <3>1. UNCHANGED <<job, objects, durable, descriptors, receipts, acked>>
      BY <2>1 DEF DedupCheck, Capacity, WriteStage, RenameToPartial, Verify, UnlinkBad,
                  PublishCheck, UnlinkDup, DedupOutcome, files, history
    <3>2. PICK s \in Steps \ {"fsync_dirs", "descriptor", "receipt"} :
            pc' = [pc EXCEPT ![p] = s]
      BY <2>1 DEF DedupCheck, Capacity, WriteStage, RenameToPartial, Verify, UnlinkBad,
                  PublishCheck, UnlinkDup, DedupOutcome, Goto, Return, Steps
    <3> QED BY <3>1, <3>2, CommitFrame
  <2>2. CASE Replace(p)
    <3>1. CASE ~Exists(partial[D(p)])
      <4>1. /\ pc' = [pc EXCEPT ![p] = "idle"]
            /\ UNCHANGED <<job, objects, durable, descriptors, receipts, acked>>
        BY <2>2, <3>1 DEF Replace, Goto, Return, files, history
      <4>2. "idle" \in Steps \ {"fsync_dirs", "descriptor", "receipt"}
        BY DEF Steps
      <4> QED BY <4>1, <4>2, CommitFrame
    <3>2. CASE Exists(partial[D(p)])
      <4>1. /\ pc' = [pc EXCEPT ![p] = "fsync_dirs"]
            /\ objects' = [objects EXCEPT ![D(p)] = partial[D(p)]]
            /\ UNCHANGED <<job, durable, descriptors, receipts, acked>>
        BY <2>2, <3>2 DEF Replace, Goto, history
      <4>2. \A d \in Digests : Exists(objects[d]) => Exists(objects'[d])
        BY <3>2, <4>1, <2>0 DEF TypeOK
      <4>3. Exists(objects'[D(p)])
        BY <3>2, <4>1, <2>0 DEF TypeOK
      <4>4. \A q \in Procs : D(q)' = D(q) /\ D(q) \in Digests
        BY <4>1, DigestOfJob DEF D
      <4>5. \A q \in Procs : pc'[q] = IF q = p THEN "fsync_dirs" ELSE pc[q]
        BY <4>1 DEF TypeOK
      <4> QED BY <4>1, <4>2, <4>3, <4>4, <4>5 DEF CommitInv, Exists, TypeOK
    <3> QED BY <3>1, <3>2
  <2>3. CASE FsyncDirs(p)
    <3>1. /\ pc[p] = "fsync_dirs"
          /\ durable' = durable \cup {D(p)}
          /\ UNCHANGED <<job, objects, descriptors, receipts, acked>>
      BY <2>3 DEF FsyncDirs, history
    <3>2. \A q \in Procs : pc'[q] = IF q = p THEN "descriptor" ELSE pc[q]
      BY <2>3 DEF FsyncDirs, Goto, TypeOK
    <3> QED BY <3>1, <3>2 DEF CommitInv, Exists, D
  <2>4. CASE WriteDescriptor(p)
    <3>1. /\ pc[p] = "descriptor"
          /\ descriptors' = [descriptors EXCEPT ![D(p)] = MyReceipt(p)]
          /\ UNCHANGED <<job, objects, durable, receipts, acked>>
      BY <2>4 DEF WriteDescriptor, history
    <3>2. \A q \in Procs : pc'[q] = IF q = p THEN "receipt" ELSE pc[q]
      BY <2>4 DEF WriteDescriptor, Goto, TypeOK
    <3>3. \A d \in Digests : /\ descriptors[d] # NoReceipt => descriptors'[d] # NoReceipt
                             /\ d # D(p) => descriptors'[d] = descriptors[d]
      BY <3>1, <2>0 DEF TypeOK
    <3>4. descriptors'[D(p)] # NoReceipt
      BY <3>1, <2>0 DEF TypeOK
    <3>5. \A q \in Procs : D(q)' = D(q) /\ D(q) \in Digests
      BY <3>1, DigestOfJob DEF D
    <3>6. \A r \in receipts : r.digest \in Digests
      BY DEF TypeOK, ReceiptId
    <3> QED BY <3>1, <3>2, <3>3, <3>4, <3>5, <3>6 DEF CommitInv, Exists
  <2>5. CASE WriteReceipt(p)
    <3>1. /\ pc[p] = "receipt"
          /\ receipts' = receipts \cup {MyReceipt(p)}
          /\ acked' = acked \cup {D(p)}
          /\ UNCHANGED <<job, objects, durable, descriptors>>
      BY <2>5 DEF WriteReceipt
    <3>2. \A q \in Procs : pc'[q] = IF q = p THEN "idle" ELSE pc[q]
      BY <2>5 DEF WriteReceipt, Goto, Return, TypeOK
    <3>3. MyReceipt(p).digest = D(p)
      BY DEF MyReceipt
    <3>4. \A q \in Procs : D(q)' = D(q)
      BY <3>1 DEF D
    <3> QED BY <3>1, <3>2, <3>3, <3>4 DEF CommitInv, Exists
  <2> QED BY <1>3, <2>1, <2>2, <2>3, <2>4, <2>5 DEF Step
<1>4. CASE PowerLoss
  BY <1>4, CommitPowerLoss
<1>5. CASE DeletePartial
  BY <1>5 DEF DeletePartial, CommitInv, Exists, D, history
<1>6. CASE UNCHANGED vars
  BY <1>6 DEF CommitInv, Exists, D, vars, files, history
<1> QED BY <1>1, <1>2, <1>3, <1>4, <1>5, <1>6 DEF Next

\* The order of the commit holds in every reachable state.
LEMMA CommitInvariant == Spec => []CommitInv
<1>1. Init => CommitInv
  BY DEF Init, CommitInv
<1> QED BY <1>1, CasTypeCorrect, CommitInductive, PTL DEF Spec

\* The receipt is the commit marker, whatever crashes and power losses happen
\* and whatever faulty writes do to the bytes.
THEOREM ReceiptIsCommitMarker == Spec => []ReceiptLast
<1>1. TypeOK /\ CommitInv => ReceiptLast
  <2> SUFFICES ASSUME TypeOK, CommitInv, NEW r \in receipts
               PROVE  r.digest \in durable /\ Exists(objects[r.digest])
                      /\ descriptors[r.digest] # NoReceipt
    BY DEF ReceiptLast
  <2>1. r.digest \in Digests
    BY DEF TypeOK, ReceiptId
  <2> QED BY <2>1 DEF CommitInv
<1> QED BY <1>1, CasTypeCorrect, CommitInvariant, PTL

\* What a completed ingest returned for is never lost.
THEOREM AcknowledgedSurvives == Spec => []AckedSurvives
<1>1. TypeOK /\ CommitInv => AckedSurvives
  <2> SUFFICES ASSUME TypeOK, CommitInv, NEW d \in acked PROVE Committed(d)
    BY DEF AckedSurvives
  <2>1. PICK r \in receipts : r.digest = d
    BY DEF CommitInv
  <2>2. d \in Digests
    BY DEF TypeOK
  <2> QED BY <2>1, <2>2 DEF CommitInv, Committed
<1> QED BY <1>1, CasTypeCorrect, CommitInvariant, PTL

\* The commit marker keeps its word, for readers of receipts and for the callers
\* that ingest returned to, for any number of processes, kills and power losses.
THEOREM CommitIsSound == Spec => []CommitSound
<1>1. ReceiptLast /\ AckedSurvives => CommitSound
  BY DEF CommitSound
<1> QED BY <1>1, ReceiptIsCommitMarker, AcknowledgedSurvives, PTL
-----------------------------------------------------------------------------
\* An absent file is good, and a power loss does not tear a good one.
LEMMA GoodFiles ==
    /\ \A d \in Digests : GoodFile(Missing, d)
    /\ \A f \in File, d \in Digests : GoodFile(f, d) => Torn(f) = f
  BY DEF GoodFile, Missing, Exists, Torn

\* A step that stages nothing and touches neither partials nor objects keeps
\* their bytes.
LEMMA IntactFrame ==
    ASSUME TypeOK, IntactInv, NEW p \in Procs, NEW s \in Steps \ {"rename"},
           pc' = [pc EXCEPT ![p] = s],
           \A q \in Procs \ {p} : job'[q] = job[q] /\ stage'[q] = stage[q],
           \A d \in Digests : partial'[d] \in {partial[d], Missing},
           UNCHANGED objects
    PROVE  IntactInv'
<1>1. \A q \in Procs : q # p => pc'[q] = pc[q] /\ D(q)' = D(q) /\ stage'[q] = stage[q]
  BY DEF TypeOK, D
<1>2. pc'[p] = s
  BY DEF TypeOK
<1>3. \A d \in Digests : GoodFile(partial'[d], d)
  BY GoodFiles DEF IntactInv
<1> QED BY <1>1, <1>2, <1>3 DEF IntactInv, GoodFile, Exists, HashesTo

\* Every step keeps the stored bytes those of their digest.
LEMMA IntactInductive ==
    ASSUME FaultyBlobs = {}, TypeOK, IntactInv, [Next]_vars
    PROVE  IntactInv'
<1>1. ASSUME NEW p \in Procs, Start(p) PROVE IntactInv'
  <2>1. \A q \in Procs \ {p} : job'[q] = job[q] /\ stage'[q] = stage[q]
    BY <1>1 DEF Start, TypeOK
  <2>2. pc' = [pc EXCEPT ![p] = "dedup_check"] /\ UNCHANGED <<partial, objects>>
    BY <1>1 DEF Start, Goto, files, history
  <2>3. "dedup_check" \in Steps \ {"rename"}
    BY DEF Steps
  <2> QED BY <2>1, <2>2, <2>3, IntactFrame
<1>2. ASSUME NEW p \in Procs, Crash(p) PROVE IntactInv'
  <2>1. \A q \in Procs \ {p} : job'[q] = job[q] /\ stage'[q] = stage[q]
    BY <1>2 DEF Crash, TypeOK
  <2>2. pc' = [pc EXCEPT ![p] = "idle"] /\ UNCHANGED <<partial, objects>>
    BY <1>2 DEF Crash, Goto, Return, files, history
  <2>3. "idle" \in Steps \ {"rename"}
    BY DEF Steps
  <2> QED BY <2>1, <2>2, <2>3, IntactFrame
<1>3. ASSUME NEW p \in Procs, Step(p) PROVE IntactInv'
  <2>0. D(p) \in Digests /\ job[p].blob \in Blobs /\ HashesTo(job[p].blob, D(p))
    BY DigestOfJob
  <2>1. CASE \/ DedupCheck(p) \/ Capacity(p) \/ Verify(p) \/ UnlinkBad(p)
             \/ PublishCheck(p) \/ UnlinkDup(p) \/ FsyncDirs(p) \/ WriteDescriptor(p)
             \/ WriteReceipt(p) \/ DedupOutcome(p)
    <3>1. /\ UNCHANGED <<job, stage, objects>>
          /\ partial' \in {partial, [partial EXCEPT ![D(p)] = Missing]}
      BY <2>1 DEF DedupCheck, Capacity, Verify, UnlinkBad, PublishCheck, UnlinkDup,
                  FsyncDirs, WriteDescriptor, WriteReceipt, DedupOutcome, files, history
    <3>2. PICK s \in Steps \ {"rename"} : pc' = [pc EXCEPT ![p] = s]
      BY <2>1 DEF DedupCheck, Capacity, Verify, UnlinkBad, PublishCheck, UnlinkDup,
                  FsyncDirs, WriteDescriptor, WriteReceipt, DedupOutcome, Goto, Return, Steps
    <3>3. \A d \in Digests : partial'[d] \in {partial[d], Missing}
      BY <3>1, <2>0 DEF TypeOK
    <3> QED BY <3>1, <3>2, <3>3, IntactFrame
  <2>2. CASE WriteStage(p)
    <3>1. /\ pc' = [pc EXCEPT ![p] = "rename"]
          /\ stage' = [stage EXCEPT ![p] = [bytes |-> job[p].blob, synced |-> TRUE]]
          /\ UNCHANGED <<job, partial, objects>>
      BY <2>2 DEF WriteStage, Goto, files, history
    <3>2. \A q \in Procs : /\ q # p => pc'[q] = pc[q] /\ stage'[q] = stage[q]
                           /\ D(q)' = D(q)
      BY <3>1 DEF TypeOK, D
    <3>3. Exists(stage'[p]) /\ GoodFile(stage'[p], D(p))
      BY <3>1, <2>0, CasAssumption DEF TypeOK, GoodFile, Exists
    <3> QED BY <3>1, <3>2, <3>3 DEF IntactInv, GoodFile, Exists, HashesTo
  <2>3. CASE RenameToPartial(p)
    <3>1. /\ pc[p] = "rename"
          /\ partial' = [partial EXCEPT ![D(p)] = stage[p]]
          /\ stage' = [stage EXCEPT ![p] = Missing]
          /\ UNCHANGED <<job, objects>>
      BY <2>3 DEF RenameToPartial
    <3>2. \A q \in Procs : /\ pc'[q] = IF q = p THEN "verify" ELSE pc[q]
                           /\ q # p => stage'[q] = stage[q]
                           /\ D(q)' = D(q)
      BY <2>3, <3>1 DEF RenameToPartial, Goto, TypeOK, D
    <3>3. \A d \in Digests : GoodFile(partial'[d], d)
      BY <3>1, <2>0 DEF IntactInv, TypeOK
    <3> QED BY <3>1, <3>2, <3>3 DEF IntactInv, GoodFile, Exists, HashesTo
  <2>4. CASE Replace(p)
    <3>1. CASE ~Exists(partial[D(p)])
      <4>1. pc' = [pc EXCEPT ![p] = "idle"] /\ UNCHANGED <<job, stage, partial, objects>>
        BY <2>4, <3>1 DEF Replace, Goto, Return, files, history
      <4>2. "idle" \in Steps \ {"rename"}
        BY DEF Steps
      <4> QED BY <4>1, <4>2, IntactFrame
    <3>2. CASE Exists(partial[D(p)])
      <4>1. /\ pc' = [pc EXCEPT ![p] = "fsync_dirs"]
            /\ objects' = [objects EXCEPT ![D(p)] = partial[D(p)]]
            /\ partial' = [partial EXCEPT ![D(p)] = Missing]
            /\ UNCHANGED <<job, stage>>
        BY <2>4, <3>2 DEF Replace, Goto
      <4>2. \A q \in Procs : /\ pc'[q] = IF q = p THEN "fsync_dirs" ELSE pc[q]
                             /\ D(q)' = D(q)
        BY <4>1 DEF TypeOK, D
      <4>3. \A d \in Digests : GoodFile(partial'[d], d) /\ GoodFile(objects'[d], d)
        BY <4>1, <2>0, GoodFiles DEF IntactInv, TypeOK
      <4> QED BY <4>1, <4>2, <4>3 DEF IntactInv, GoodFile, Exists, HashesTo
    <3> QED BY <3>1, <3>2
  <2> QED BY <1>3, <2>1, <2>2, <2>3, <2>4 DEF Step
<1>4. CASE PowerLoss
  <2>1. PICK undone \in SUBSET Digests, dropped \in SUBSET Digests, back \in SUBSET Digests :
          /\ partial' = [d \in Digests |-> IF d \in back THEN Torn(objects[d])
                                           ELSE IF d \in dropped THEN Missing
                                           ELSE Torn(partial[d])]
          /\ objects' = [d \in Digests |-> IF d \in undone THEN Missing ELSE Torn(objects[d])]
    BY <1>4 DEF PowerLoss
  <2>2. \A d \in Digests : /\ partial'[d] \in {objects[d], partial[d], Missing}
                           /\ objects'[d] \in {objects[d], Missing}
    BY <2>1, GoodFiles DEF IntactInv, TypeOK
  <2>3. \A q \in Procs : pc'[q] = "idle"
    BY <1>4 DEF PowerLoss
  <2>4. \A d \in Digests : GoodFile(partial'[d], d) /\ GoodFile(objects'[d], d)
    BY <2>2, GoodFiles DEF IntactInv
  <2> QED BY <2>3, <2>4 DEF IntactInv, GoodFile, Exists, HashesTo
<1>5. CASE DeletePartial
  <2>1. \A d \in Digests : partial'[d] \in {partial[d], Missing}
    BY <1>5 DEF DeletePartial, TypeOK
  <2>2. UNCHANGED <<pc, job, stage, objects>>
    BY <1>5 DEF DeletePartial
  <2>3. \A d \in Digests : GoodFile(partial'[d], d)
    BY <2>1, GoodFiles DEF IntactInv
  <2> QED BY <2>2, <2>3 DEF IntactInv, GoodFile, Exists, HashesTo, D
<1>6. CASE UNCHANGED vars
  BY <1>6 DEF IntactInv, GoodFile, Exists, HashesTo, D, vars, files, history
<1> QED BY <1>1, <1>2, <1>3, <1>4, <1>5, <1>6 DEF Next

\* The stored bytes are those of their digest in every reachable state.
LEMMA IntactInvariant ==
    ASSUME FaultyBlobs = {} PROVE Spec => []IntactInv
<1>1. Init => IntactInv
  BY GoodFiles DEF Init, IntactInv
<1>2. TypeOK /\ IntactInv /\ [Next]_vars => IntactInv'
  BY IntactInductive
<1> QED BY <1>1, <1>2, CasTypeCorrect, PTL DEF Spec

\* As long as the platform stores the bytes it is given, no interleaving of
\* ingests, crashes and power losses shows an object with other bytes.
THEOREM ObjectsStayIntact ==
    ASSUME FaultyBlobs = {} PROVE Spec => []ObjectsIntact
<1>1. IntactInv => ObjectsIntact
  BY DEF IntactInv, ObjectsIntact, GoodFile
<1> QED BY <1>1, IntactInvariant, PTL
-----------------------------------------------------------------------------
(* Losing the race for the shared partial. *)

\* A step of p that hides no object, and no partial without its object.
LEMMA RaceFrame ==
    ASSUME TypeOK, TypeOK', RaceInv, LostRaceMeansPublished, NEW p \in Procs,
           \A q \in Procs \ {p} : /\ pc'[q] = pc[q] /\ outcome'[q] = outcome[q]
                                  /\ job'[q] = job[q],
           \A d \in Digests : Exists(objects[d]) => Exists(objects'[d]),
           \A d \in Digests : Exists(partial[d]) => Exists(partial'[d]) \/ Exists(objects'[d]),
           pc'[p] # "unlink_bad",
           pc'[p] = "unlink_dup" => Exists(objects[D(p)])',
           pc'[p] \in {"verify", "publish_check", "replace"} =>
               Exists(partial[D(p)])' \/ Exists(objects[D(p)])',
           outcome'[p] = "oserror" => Exists(objects[D(p)])'
    PROVE  RaceInv' /\ LostRaceMeansPublished'
<1>1. \A q \in Procs \ {p} : D(q)' = D(q) /\ D(q) \in Digests
  BY DigestOfJob DEF D
<1>2. RaceInv'
  <2> SUFFICES ASSUME NEW q \in Procs
               PROVE  /\ pc'[q] # "unlink_bad"
                      /\ pc'[q] = "unlink_dup" => Exists(objects[D(q)])'
                      /\ pc'[q] \in {"verify", "publish_check", "replace"} =>
                           Exists(partial[D(q)])' \/ Exists(objects[D(q)])'
    BY DEF RaceInv
  <2>1. CASE q = p
    BY <2>1
  <2>2. CASE q # p
    BY <2>2, <1>1 DEF RaceInv
  <2> QED BY <2>1, <2>2
<1>3. LostRaceMeansPublished'
  <2> SUFFICES ASSUME NEW q \in Procs, outcome'[q] = "oserror"
               PROVE  Exists(objects[D(q)])'
    BY DEF LostRaceMeansPublished
  <2>1. CASE q = p
    BY <2>1
  <2>2. CASE q # p
    BY <2>2, <1>1 DEF LostRaceMeansPublished
  <2> QED BY <2>1, <2>2
<1> QED BY <1>2, <1>3

\* Every step keeps the object of a lost race published.
LEMMA RaceInductive ==
    ASSUME TypeOK, TypeOK', IntactInv, RaceInv, LostRaceMeansPublished, [Next]_vars
    PROVE  RaceInv' /\ LostRaceMeansPublished'
<1> USE DEF Exists
<1>1. ASSUME NEW p \in Procs, Start(p) PROVE RaceInv' /\ LostRaceMeansPublished'
  <2>1. /\ pc' = [pc EXCEPT ![p] = "dedup_check"]
        /\ outcome' = [outcome EXCEPT ![p] = "none"]
        /\ UNCHANGED <<partial, objects>>
        /\ \A q \in Procs \ {p} : job'[q] = job[q]
    BY <1>1 DEF Start, Goto, files, history, TypeOK
  <2>2. /\ pc'[p] = "dedup_check" /\ outcome'[p] = "none"
        /\ \A q \in Procs \ {p} : pc'[q] = pc[q] /\ outcome'[q] = outcome[q]
    BY <2>1 DEF TypeOK
  <2> QED BY <2>1, <2>2, RaceFrame
<1>2. ASSUME NEW p \in Procs, Crash(p) PROVE RaceInv' /\ LostRaceMeansPublished'
  <2>1. /\ pc' = [pc EXCEPT ![p] = "idle"]
        /\ outcome' = [outcome EXCEPT ![p] = "none"]
        /\ UNCHANGED <<job, partial, objects>>
    BY <1>2 DEF Crash, Return, Goto, files, history
  <2>2. /\ pc'[p] = "idle" /\ outcome'[p] = "none"
        /\ \A q \in Procs \ {p} : pc'[q] = pc[q] /\ outcome'[q] = outcome[q]
    BY <2>1 DEF TypeOK
  <2> QED BY <2>1, <2>2, RaceFrame
<1>3. ASSUME NEW p \in Procs, Step(p) PROVE RaceInv' /\ LostRaceMeansPublished'
  <2>0. D(p) \in Digests
    BY DigestOfJob
  <2>1. /\ D(p)' = D(p)
        /\ \A q \in Procs \ {p} : /\ pc'[q] = pc[q] /\ outcome'[q] = outcome[q]
                               /\ job'[q] = job[q]
    BY <1>3 DEF Step, DedupCheck, Capacity, WriteStage, RenameToPartial, Verify, UnlinkBad,
                PublishCheck, UnlinkDup, Replace, FsyncDirs, WriteDescriptor, WriteReceipt,
                DedupOutcome, Goto, Return, TypeOK, D
  <2>2. CASE DedupCheck(p) \/ Capacity(p) \/ WriteStage(p) \/ FsyncDirs(p)
             \/ WriteDescriptor(p) \/ WriteReceipt(p) \/ DedupOutcome(p)
    <3>1. UNCHANGED <<partial, objects>>
      BY <2>2 DEF DedupCheck, Capacity, WriteStage, FsyncDirs, WriteDescriptor,
                  WriteReceipt, DedupOutcome, files, history
    <3>2. /\ pc'[p] \in {"dedup_outcome", "capacity", "write_stage", "idle", "rename",
                         "descriptor", "receipt"}
          /\ outcome'[p] = outcome[p] \/ outcome'[p] # "oserror"
      BY <2>2 DEF DedupCheck, Capacity, WriteStage, FsyncDirs, WriteDescriptor,
                  WriteReceipt, DedupOutcome, Goto, Return, TypeOK
    <3> QED BY <2>0, <2>1, <3>1, <3>2, RaceFrame DEF LostRaceMeansPublished
  <2>3. CASE RenameToPartial(p)
    <3>1. /\ pc'[p] = "verify" /\ outcome'[p] = outcome[p] /\ objects' = objects
          /\ \A d \in Digests : partial'[d] = IF d = D(p) THEN stage[p] ELSE partial[d]
      BY <2>0, <2>3 DEF RenameToPartial, Goto, TypeOK
    <3>2. Exists(stage[p])
      BY <2>3 DEF RenameToPartial, IntactInv
    <3> QED BY <2>0, <2>1, <3>1, <3>2, RaceFrame DEF LostRaceMeansPublished
  <2>4. CASE Verify(p)
    <3>1. UNCHANGED <<partial, objects>> /\ pc[p] = "verify"
      BY <2>4 DEF Verify, files, history
    <3>2. Exists(partial[D(p)]) => HashesTo(partial[D(p)].bytes, D(p))
      BY <2>0 DEF IntactInv, GoodFile
    <3>3. \/ /\ ~Exists(partial[D(p)]) /\ pc'[p] = "idle"
          \/ /\ Exists(partial[D(p)]) /\ pc'[p] = "publish_check" /\ outcome'[p] = outcome[p]
      BY <2>4, <3>2 DEF Verify, Goto, Return, TypeOK
    <3>4. Exists(partial[D(p)]) \/ Exists(objects[D(p)])
      BY <3>1 DEF RaceInv
    <3> QED BY <2>0, <2>1, <3>1, <3>3, <3>4, RaceFrame DEF LostRaceMeansPublished
  <2>5. CASE UnlinkBad(p)
    BY <2>5 DEF UnlinkBad, RaceInv
  <2>6. CASE PublishCheck(p)
    <3>1. /\ UNCHANGED <<partial, objects, outcome>> /\ pc[p] = "publish_check"
          /\ pc'[p] = IF Exists(objects[D(p)]) THEN "unlink_dup" ELSE "replace"
      BY <2>6 DEF PublishCheck, Goto, files, history, TypeOK
    <3>2. Exists(partial[D(p)]) \/ Exists(objects[D(p)])
      BY <3>1 DEF RaceInv
    <3> QED BY <2>0, <2>1, <3>1, <3>2, RaceFrame DEF LostRaceMeansPublished
  <2>7. CASE UnlinkDup(p)
    <3>1. /\ UNCHANGED <<objects, outcome>> /\ pc'[p] = "dedup_outcome"
          /\ \A d \in Digests : d # D(p) => partial'[d] = partial[d]
      BY <2>0, <2>7 DEF UnlinkDup, Goto, TypeOK
    <3>2. Exists(objects[D(p)])
      BY <2>7 DEF UnlinkDup, RaceInv
    <3> QED BY <2>0, <2>1, <3>1, <3>2, RaceFrame DEF LostRaceMeansPublished
  <2>8. CASE Replace(p)
    <3>1. CASE ~Exists(partial[D(p)])
      <4>1. UNCHANGED <<partial, objects>> /\ pc[p] = "replace" /\ pc'[p] = "idle"
        BY <2>8, <3>1 DEF Replace, Return, Goto, files, history, TypeOK
      <4>2. Exists(objects[D(p)])
        BY <3>1, <4>1 DEF RaceInv
      <4> QED BY <2>0, <2>1, <4>1, <4>2, RaceFrame
    <3>2. CASE Exists(partial[D(p)])
      <4>1. /\ outcome' = outcome /\ pc'[p] = "fsync_dirs"
            /\ \A d \in Digests : d # D(p) => /\ partial'[d] = partial[d]
                                             /\ objects'[d] = objects[d]
            /\ objects'[D(p)] = partial[D(p)]
        BY <2>0, <2>8, <3>2 DEF Replace, Goto, TypeOK
      <4> QED BY <2>0, <2>1, <3>2, <4>1, RaceFrame DEF LostRaceMeansPublished
    <3> QED BY <3>1, <3>2
  <2> QED BY <1>3, <2>2, <2>3, <2>4, <2>5, <2>6, <2>7, <2>8 DEF Step
<1>4. CASE PowerLoss
  <2>1. \A q \in Procs : pc'[q] = "idle" /\ outcome'[q] = "none"
    BY <1>4 DEF PowerLoss
  <2> QED BY <2>1 DEF RaceInv, LostRaceMeansPublished
<1>5. CASE DeletePartial
  <2>1. /\ UNCHANGED <<pc, job, outcome, objects>>
        /\ \A d \in Digests : \/ partial'[d] = partial[d] \/ Exists(objects[d])
                               \/ \A q \in Procs : pc[q] \in OnPartial => D(q) # d
    BY <1>5 DEF DeletePartial, TypeOK
  <2>2. \A q \in Procs : D(q)' = D(q) /\ D(q) \in Digests
    BY <2>1, DigestOfJob DEF D
  <2>3. LostRaceMeansPublished'
    BY <2>1, <2>2 DEF LostRaceMeansPublished
  <2>4. RaceInv'
    BY <2>1, <2>2 DEF RaceInv, OnPartial
  <2> QED BY <2>3, <2>4
<1>6. CASE UNCHANGED vars
  BY <1>6 DEF vars, files, history, RaceInv, LostRaceMeansPublished, D
<1> QED BY <1>1, <1>2, <1>3, <1>4, <1>5, <1>6 DEF Next

\* As long as the platform stores the bytes it is given, an ingest that fails
\* because its partial is gone leaves its caller's bytes published.
THEOREM LostRacePublished ==
    ASSUME FaultyBlobs = {} PROVE Spec => []LostRaceMeansPublished
<1>1. Init => RaceInv /\ LostRaceMeansPublished
  BY DEF Init, RaceInv, LostRaceMeansPublished
<1>2. TypeOK /\ TypeOK' /\ IntactInv /\ RaceInv /\ LostRaceMeansPublished /\ [Next]_vars
        => RaceInv' /\ LostRaceMeansPublished'
  BY RaceInductive
<1> QED BY <1>1, <1>2, CasTypeCorrect, IntactInvariant, PTL DEF Spec
-----------------------------------------------------------------------------
(* The engine implements the abstract store. *)

Bytes == [d \in Digests |-> objects[d].bytes]

\* Objects go away only in a power loss, which ends every ingest.
LEMMA FoundInductive == TypeOK /\ FoundInv /\ [Next]_vars => FoundInv'
<1> SUFFICES ASSUME TypeOK, FoundInv, [Next]_vars PROVE FoundInv'
  OBVIOUS
<1>1. CASE PowerLoss
  BY <1>1 DEF PowerLoss, FoundInv
<1>2. CASE DeletePartial \/ UNCHANGED vars
  BY <1>2 DEF DeletePartial, vars, files, FoundInv, D
<1>3. ASSUME NEW p \in Procs, Start(p) \/ Crash(p) \/ Step(p) PROVE FoundInv'
  <2>0. D(p) \in Digests
    BY DigestOfJob
  <2>1. \A q \in Procs \ {p} : pc'[q] = pc[q] /\ D(q)' = D(q) /\ D(q) \in Digests
    BY <1>3, DigestOfJob DEF Start, Crash, Step, DedupCheck, Capacity, WriteStage, RenameToPartial,
           Verify, UnlinkBad, PublishCheck, UnlinkDup, Replace, FsyncDirs, WriteDescriptor,
           WriteReceipt, DedupOutcome, Goto, Return, TypeOK, D
  <2>2. \A d \in Digests : Exists(objects[d]) => Exists(objects'[d])
    <3>1. CASE Replace(p)
      BY <2>0, <3>1 DEF Replace, files, TypeOK
    <3>2. CASE ~Replace(p)
      <4>1. UNCHANGED objects
        BY <1>3, <3>2 DEF Start, Crash, Step, DedupCheck, Capacity, WriteStage, RenameToPartial,
           Verify, UnlinkBad, PublishCheck, UnlinkDup, FsyncDirs, WriteDescriptor,
           WriteReceipt, DedupOutcome, files
      <4> QED BY <4>1
    <3> QED BY <3>1, <3>2
  <2>3. pc'[p] \in {"unlink_dup", "dedup_outcome"} => D(p)' = D(p) /\ Exists(objects[D(p)])
    BY <1>3 DEF Start, Crash, Step, DedupCheck, Capacity, WriteStage, RenameToPartial,
           Verify, UnlinkBad, PublishCheck, UnlinkDup, Replace, FsyncDirs, WriteDescriptor,
           WriteReceipt, DedupOutcome, Goto, Return, TypeOK, D, FoundInv
  <2>4. ASSUME NEW q \in Procs, pc'[q] \in {"unlink_dup", "dedup_outcome"}
        PROVE  Exists(objects[D(q)])'
    <3>1. CASE q = p
      BY <2>0, <2>2, <2>3, <2>4, <3>1 DEF Exists
    <3>2. CASE q # p
      BY <2>1, <2>2, <2>4, <3>2 DEF FoundInv, Exists
    <3> QED BY <3>1, <3>2
  <2> QED BY <2>4 DEF FoundInv
<1> QED BY <1>1, <1>2, <1>3 DEF Next

\* The object an ingest found is there until the ingest returns.
LEMMA FoundInvariant == Spec => []FoundInv
<1>1. Init => FoundInv
  BY DEF Init, FoundInv
<1> QED BY <1>1, CasTypeCorrect, FoundInductive, PTL DEF Spec

\* Steps that touch neither an object nor what ingests returned for are stutters.
LEMMA PromiseStutter ==
    ASSUME UNCHANGED <<objects, acked, answered>>
    PROVE  UNCHANGED Promise!storeVars
  BY DEF Promise!storeVars

\* The publishing rename publishes the caller's bytes, or puts the same bytes in
\* their place once more.
LEMMA PromiseReplace ==
    ASSUME TypeOK, IntactInv, NEW p \in Procs, Replace(p)
    PROVE  [Promise!Next]_Promise!storeVars
<1>0. D(p) \in Digests
  BY DigestOfJob
<1>1. CASE ~Exists(partial[D(p)])
  BY <1>1, PromiseStutter DEF Replace, files, history
<1>2. CASE Exists(partial[D(p)])
  <2> DEFINE b == partial[D(p)].bytes
  <2>1. b \in Blobs /\ Digest[b] = D(p)
    BY <1>0, <1>2 DEF IntactInv, GoodFile, HashesTo
  <2>2. objects' = [objects EXCEPT ![D(p)] = partial[D(p)]] /\ UNCHANGED <<acked, answered>>
    BY <1>2 DEF Replace, history
  <2>3. \A d \in Digests : objects'[d] = IF d = D(p) THEN partial[D(p)] ELSE objects[d]
    BY <1>0, <2>2 DEF TypeOK
  <2>4. Bytes' = [Bytes EXCEPT ![D(p)] = b]
    BY <1>0, <2>3 DEF Bytes
  <2>5. CASE Exists(objects[D(p)])
    <3>1. objects[D(p)].bytes = b
      BY <1>0, <2>1, <2>5, CasAssumption DEF IntactInv, GoodFile, HashesTo
    <3>2. Bytes' = Bytes
      BY <1>0, <2>4, <3>1 DEF Bytes
    <3> QED BY <2>2, <3>2 DEF Bytes, Promise!storeVars
  <2>6. CASE ~Exists(objects[D(p)])
    <3>1. Bytes[Digest[b]] = NoFile /\ Bytes' = [Bytes EXCEPT ![Digest[b]] = b]
      BY <1>0, <2>1, <2>4, <2>6 DEF Bytes, Exists
    <3>2. Promise!Publish
      BY <2>1, <2>2, <3>1 DEF Promise!Publish, Bytes
    <3> QED BY <3>2 DEF Promise!Next
  <2> QED BY <2>5, <2>6
<1> QED BY <1>1, <1>2

\* A power loss loses nothing that was acknowledged and changes no bytes.
LEMMA PromisePowerLoss ==
    ASSUME TypeOK, CommitInv, IntactInv, PowerLoss
    PROVE  [Promise!Next]_Promise!storeVars
<1>1. PICK undone \in SUBSET (Digests \ durable) :
        objects' = [d \in Digests |-> IF d \in undone THEN Missing ELSE Torn(objects[d])]
  BY DEF PowerLoss
<1>2. \A d \in Digests : Torn(objects[d]) = objects[d]
  BY DEF IntactInv, GoodFile, Torn
<1>3. Bytes' = [d \in Digests |-> IF d \in undone THEN NoFile ELSE Bytes[d]]
  BY <1>1, <1>2 DEF Bytes, Missing
<1>4. undone \subseteq Digests \ acked
  BY DEF CommitInv, TypeOK, ReceiptId
<1>5. UNCHANGED <<acked, answered>>
  BY DEF PowerLoss, history
<1>6. Promise!Lose
  BY <1>3, <1>4, <1>5 DEF Promise!Lose, Bytes
<1> QED BY <1>6 DEF Promise!Next

\* An ingest acknowledges what is in the store.
LEMMA PromiseReceipt ==
    ASSUME TypeOK, CommitInv, NEW p \in Procs, WriteReceipt(p)
    PROVE  [Promise!Next]_Promise!storeVars
<1>1. D(p) \in Digests /\ Exists(objects[D(p)])
  BY DigestOfJob DEF CommitInv, WriteReceipt
<1>2. Promise!Acknowledge
  BY <1>1 DEF WriteReceipt, Promise!Acknowledge, Exists
<1> QED BY <1>2 DEF Promise!Next

\* A duplicate is answered while its bytes are in the store.
LEMMA PromiseDuplicate ==
    ASSUME TypeOK, FoundInv, NEW p \in Procs, DedupOutcome(p)
    PROVE  [Promise!Next]_Promise!storeVars
<1>1. D(p) \in Digests /\ Exists(objects[D(p)])
  BY DigestOfJob DEF FoundInv, DedupOutcome
<1>2. answered' = answered \cup {D(p)} /\ UNCHANGED <<objects, acked>>
  BY DEF DedupOutcome, files
<1>3. Promise!AnswerDuplicate
  BY <1>1, <1>2 DEF Promise!AnswerDuplicate, Exists
<1> QED BY <1>3 DEF Promise!Next

\* As long as the platform stores the bytes it is given, whatever the processes
\* and the failures do looks to a caller like the abstract store: bytes appear
\* under their digest and never change; every ingest that returns, a duplicate or
\* not, returns while they are there; and no failure loses what an ingest that
\* published them returned for.
THEOREM ImplementsStore ==
    ASSUME FaultyBlobs = {} PROVE Spec => PromiseSpec
<1>1. Init => Promise!Init
  BY DEF Init, Promise!Init, Missing
<1>2. TypeOK /\ CommitInv /\ FoundInv /\ IntactInv /\ [Next]_vars
        => [Promise!Next]_Promise!storeVars
  <2> SUFFICES ASSUME TypeOK, CommitInv, FoundInv, IntactInv, [Next]_vars
               PROVE  [Promise!Next]_Promise!storeVars
    OBVIOUS
  <2>1. ASSUME NEW p \in Procs, Start(p) \/ Crash(p) PROVE [Promise!Next]_Promise!storeVars
    BY <2>1, PromiseStutter DEF Start, Crash, files, history
  <2>2. ASSUME NEW p \in Procs, Step(p) PROVE [Promise!Next]_Promise!storeVars
    <3>1. CASE Replace(p)
      BY <3>1, PromiseReplace
    <3>2. CASE WriteReceipt(p)
      BY <3>2, PromiseReceipt
    <3>4. CASE DedupOutcome(p)
      BY <3>4, PromiseDuplicate
    <3>3. CASE ~Replace(p) /\ ~WriteReceipt(p) /\ ~DedupOutcome(p)
      BY <2>2, <3>3, PromiseStutter
         DEF Step, DedupCheck, Capacity, WriteStage, RenameToPartial, Verify, UnlinkBad,
             PublishCheck, UnlinkDup, FsyncDirs, WriteDescriptor, files, history
    <3> QED BY <3>1, <3>2, <3>3, <3>4
  <2>3. CASE DeletePartial
    BY <2>3, PromiseStutter DEF DeletePartial, history
  <2>4. CASE PowerLoss
    BY <2>4, PromisePowerLoss
  <2>5. CASE UNCHANGED vars
    BY <2>5, PromiseStutter DEF vars, files, history
  <2> QED BY <2>1, <2>2, <2>3, <2>4, <2>5 DEF Next
<1> QED BY <1>1, <1>2, CasTypeCorrect, CommitInvariant, FoundInvariant, IntactInvariant, PTL
       DEF Spec, PromiseSpec, Promise!Spec
-----------------------------------------------------------------------------
(***************************************************************************)
(* The integrity sweep.  What its silence means holds on every platform;   *)
(* that it accuses no object of other bytes needs a platform that stores   *)
(* what it is given, or one ingest at a time.                              *)
(***************************************************************************)
\* One ingest at a time.
OneProcess == \A p, q \in Procs : p = q

\* The sweep's indexes hold what was true when they were read and, since
\* descriptors name receipts of their own digest and neither durable objects nor
\* receipts are ever taken back, still is.
IndexInv ==
    /\ \A d \in Digests : descriptors[d] # NoReceipt => descriptors[d].digest = d
    /\ \A d \in Digests : descIndex[d] # NoReceipt => descIndex[d].digest = d /\ d \in durable
    /\ receiptIndex \subseteq receipts
    /\ swept \subseteq Digests
    /\ sweep = "done" => \A d \in swept : Clean(d) => /\ descIndex[d] # NoReceipt
                                                      /\ descIndex[d] \in receiptIndex
    /\ sweep = "done" => \A d \in Digests : [kind |-> "orphan_descriptor", digest |-> d] \notin issues
MatchInv ==
    sweep = "done" => \A d \in Digests : [kind |-> "hash_mismatch", digest |-> d] \notin issues

\* One ingest at a time: what is verified is what is published, faulty writes or
\* not, and all of it was fsynced.
VerifiedInv ==
    /\ \A d \in Digests : partial[d].synced /\ objects[d].synced
    /\ \A p \in Procs : stage[p].synced
    /\ \A d \in Digests : Exists(objects[d]) => HashesTo(objects[d].bytes, d)
    /\ \A p \in Procs : pc[p] \in {"publish_check", "replace"} /\ Exists(partial[D(p)]) =>
                          HashesTo(partial[D(p)].bytes, D(p))
-----------------------------------------------------------------------------
\* The store under the sweep is the engine's.
LEMMA SweepIsOutside == FsckSpec => Spec
<1>1. FsckInit => Init
  BY DEF FsckInit
<1>2. [FsckNext]_allVars => [Next]_vars
  BY DEF FsckNext, StoreStep, IndexDescriptors, IndexReceipts, SweepObjects, Again, allVars, Next
<1> QED BY <1>1, <1>2, PTL DEF FsckSpec, Spec

\* What is durable, and what was receipted, stays so; a descriptor names its own
\* digest.
LEMMA StoreForward ==
    ASSUME TypeOK, [Next]_vars
    PROVE  /\ durable \subseteq durable' /\ receipts \subseteq receipts'
           /\ (\A d \in Digests : descriptors[d] # NoReceipt => descriptors[d].digest = d)
                => \A d \in Digests : descriptors'[d] # NoReceipt => descriptors'[d].digest = d
<1>1. ASSUME NEW p \in Procs, WriteDescriptor(p)
      PROVE  /\ UNCHANGED <<durable, receipts>>
             /\ \A d \in Digests : descriptors'[d] = IF d = D(p) THEN MyReceipt(p) ELSE descriptors[d]
  BY <1>1 DEF WriteDescriptor, TypeOK
<1>2. ASSUME NEW p \in Procs, FsyncDirs(p) PROVE durable \subseteq durable' /\ UNCHANGED <<descriptors, receipts>>
  BY <1>2 DEF FsyncDirs
<1>3. ASSUME NEW p \in Procs, WriteReceipt(p) PROVE receipts \subseteq receipts' /\ UNCHANGED <<descriptors, durable>>
  BY <1>3 DEF WriteReceipt
<1>4. CASE PowerLoss
  BY <1>4 DEF PowerLoss
<1>5. \/ \E p \in Procs : WriteDescriptor(p) \/ FsyncDirs(p) \/ WriteReceipt(p)
      \/ PowerLoss \/ UNCHANGED <<durable, receipts, descriptors>>
  BY DEF Next, Step, Start, DedupCheck, Capacity, WriteStage, RenameToPartial, Verify, UnlinkBad,
     PublishCheck, UnlinkDup, Replace, DedupOutcome, Crash, DeletePartial, vars, files
<1>6. \A p \in Procs : MyReceipt(p).digest = D(p)
  BY DEF MyReceipt
<1> QED BY <1>1, <1>2, <1>3, <1>4, <1>5, <1>6

\* Steps of the sweep and of the engine beside it keep the indexes true.
LEMMA IndexInductive ==
    TypeOK /\ CommitInv /\ IndexInv /\ [FsckNext]_allVars => IndexInv'
<1> SUFFICES ASSUME TypeOK, CommitInv, IndexInv, [FsckNext]_allVars PROVE IndexInv'
  OBVIOUS
<1>1. [Next]_vars
  BY DEF FsckNext, StoreStep, IndexDescriptors, IndexReceipts, SweepObjects, Again, allVars, Next
<1>2. /\ durable \subseteq durable' /\ receipts \subseteq receipts'
      /\ \A d \in Digests : descriptors'[d] # NoReceipt => descriptors'[d].digest = d
  BY <1>1, StoreForward DEF IndexInv
<1>3. CASE StoreStep \/ Again \/ UNCHANGED allVars
  <2>1. /\ UNCHANGED <<descIndex, receiptIndex, swept, issues>>
        /\ sweep' = "done" => sweep = "done"
    BY <1>3 DEF StoreStep, Again, allVars, sweepVars
  <2> QED BY <1>2, <2>1 DEF IndexInv, Clean
<1>4. CASE IndexDescriptors
  BY <1>2, <1>4 DEF IndexDescriptors, IndexInv, CommitInv, vars, files
<1>5. CASE IndexReceipts
  BY <1>2, <1>5 DEF IndexReceipts, IndexInv, vars, files
<1>6. CASE SweepObjects
  <2> DEFINE seen == {d \in Digests : Exists(objects[d])}
             described == {d \in Digests : descIndex[d] # NoReceipt}
  <2>1. described \subseteq seen
    BY DEF IndexInv, CommitInv
  <2>2. /\ swept' = seen /\ sweep' = "done" /\ UNCHANGED <<descIndex, receiptIndex, durable, receipts>>
        /\ issues' =
             UNION {Issue("hash_mismatch", {d \in seen : ~HashesTo(objects[d].bytes, d)}),
                    Issue("missing_descriptor", seen \ described),
                    Issue("bad_receipt", {d \in seen \cap described :
                                             descIndex[d] \notin receiptIndex}),
                    Issue("orphan_descriptor", described \ seen)}
    BY <1>6 DEF SweepObjects, vars, files
  <2>3. \A d \in Digests : [kind |-> "orphan_descriptor", digest |-> d] \notin issues'
    <3>1. \A S, k : \A i \in Issue(k, S) : i.kind = k
      BY DEF Issue
    <3>2. Issue("orphan_descriptor", described \ seen) = {}
      BY <2>1 DEF Issue
    <3>3. \A i \in issues' : i.kind # "orphan_descriptor"
      BY <2>2, <3>1, <3>2
    <3> QED BY <3>3
  <2>4. ASSUME NEW d \in seen, Clean(d)' PROVE descIndex[d] # NoReceipt /\ descIndex[d] \in receiptIndex
    <3>1. /\ [kind |-> "missing_descriptor", digest |-> d] \notin issues'
          /\ [kind |-> "bad_receipt", digest |-> d] \notin issues'
      BY <2>4 DEF Clean, Kinds
    <3>2. d \in described
      BY <2>2, <3>1 DEF Issue
    <3>3. descIndex[d] \in receiptIndex
      BY <2>2, <3>1, <3>2 DEF Issue
    <3> QED BY <3>2, <3>3
  <2> QED BY <1>2, <2>2, <2>3, <2>4 DEF IndexInv
<1> QED BY <1>3, <1>4, <1>5, <1>6 DEF FsckNext

\* The indexes the sweep read are true in every reachable state.
LEMMA IndexInvariant == FsckSpec => []IndexInv
<1>1. FsckInit => IndexInv
  BY DEF FsckInit, Init, IndexInv
<1> QED BY <1>1, IndexInductive, SweepIsOutside, CasTypeCorrect, CommitInvariant, PTL DEF FsckSpec

\* An object the sweep saw and had nothing to say about is committed, on any
\* platform and although the three directories are read one after the other
\* while ingests, kills and power losses go on.
THEOREM SilenceMeansCommitted == FsckSpec => []CleanMeansCommitted
<1>1. TypeOK /\ CommitInv /\ IndexInv => CleanMeansCommitted
  <2> SUFFICES ASSUME TypeOK, CommitInv, IndexInv, sweep = "done", NEW d \in swept, Clean(d)
               PROVE  Committed(d)
    BY DEF CleanMeansCommitted
  <2>1. d \in Digests /\ descIndex[d] # NoReceipt /\ descIndex[d] \in receipts
    BY DEF IndexInv
  <2>2. descIndex[d].digest = d
    BY <2>1 DEF IndexInv
  <2>3. descriptors[d] # NoReceipt
    BY <2>1, <2>2 DEF CommitInv
  <2> QED BY <2>1, <2>2, <2>3 DEF CommitInv, Committed
<1> QED BY <1>1, IndexInvariant, SweepIsOutside, CasTypeCorrect, CommitInvariant, PTL
-----------------------------------------------------------------------------
(* No object is accused of other bytes *)

\* A power loss does not tear what was fsynced.
LEMMA SyncedFiles ==
    /\ Missing.synced /\ ~Exists(Missing)
    /\ \A f \in File : f.synced => Torn(f) = f
  BY DEF Missing, Exists, Torn

\* A step that leaves the objects alone and does not come to publish_check.
LEMMA VerifiedFrame ==
    ASSUME OneProcess, TypeOK, VerifiedInv, NEW p \in Procs, NEW s \in Steps,
           s \notin {"publish_check", "replace"}, pc' = [pc EXCEPT ![p] = s],
           UNCHANGED objects,
           \A d \in Digests : partial'[d].synced, \A q \in Procs : stage'[q].synced
    PROVE  VerifiedInv'
<1>1. \A q \in Procs : pc'[q] = s
  BY DEF OneProcess, TypeOK
<1> QED BY <1>1 DEF VerifiedInv, Exists, HashesTo

\* With one process, what passed the read-back stays what was read.
LEMMA VerifiedInductive ==
    ASSUME OneProcess, TypeOK, VerifiedInv, [Next]_vars
    PROVE  VerifiedInv'
<1>0. /\ \A d \in Digests : partial[d].synced /\ objects[d].synced
      /\ \A q \in Procs : stage[q].synced
      /\ \A q \in Procs : D(q) \in Digests
  BY DigestOfJob DEF VerifiedInv
<1>1. ASSUME NEW p \in Procs, Start(p) PROVE VerifiedInv'
  <2>1. pc' = [pc EXCEPT ![p] = "dedup_check"] /\ UNCHANGED <<objects, partial, stage>>
    BY <1>1 DEF Start, Goto, files
  <2> QED BY <1>0, <2>1, VerifiedFrame DEF Steps
<1>2. ASSUME NEW p \in Procs, Crash(p) PROVE VerifiedInv'
  <2>1. pc' = [pc EXCEPT ![p] = "idle"] /\ UNCHANGED <<objects, partial>>
    BY <1>2 DEF Crash, Return, Goto, files
  <2>2. \A q \in Procs : stage'[q].synced
    BY <1>0, <1>2, SyncedFiles DEF Crash, TypeOK
  <2> QED BY <1>0, <2>1, <2>2, VerifiedFrame DEF Steps
<1>3. ASSUME NEW p \in Procs, DedupCheck(p) \/ Capacity(p) \/ FsyncDirs(p) \/ WriteDescriptor(p)
                              \/ WriteReceipt(p) \/ DedupOutcome(p)
      PROVE  VerifiedInv'
  <2>1. /\ UNCHANGED <<objects, partial, stage>>
        /\ \E s \in {"dedup_outcome", "capacity", "write_stage", "idle", "descriptor", "receipt"} :
             pc' = [pc EXCEPT ![p] = s]
    BY <1>3 DEF DedupCheck, Capacity, FsyncDirs, WriteDescriptor, WriteReceipt, DedupOutcome,
       Return, Goto, files
  <2> QED BY <1>0, <2>1, VerifiedFrame DEF Steps
<1>4. ASSUME NEW p \in Procs, WriteStage(p) PROVE VerifiedInv'
  <2>1. pc' = [pc EXCEPT ![p] = "rename"] /\ UNCHANGED <<objects, partial>>
    BY <1>4 DEF WriteStage, Goto, files
  <2>2. \A q \in Procs : stage'[q].synced
    BY <1>0, <1>4 DEF WriteStage, TypeOK
  <2> QED BY <1>0, <2>1, <2>2, VerifiedFrame DEF Steps
<1>5. ASSUME NEW p \in Procs, RenameToPartial(p) PROVE VerifiedInv'
  <2>1. pc' = [pc EXCEPT ![p] = "verify"] /\ UNCHANGED objects
    BY <1>5 DEF RenameToPartial, Goto
  <2>2. (\A q \in Procs : stage'[q].synced) /\ \A d \in Digests : partial'[d].synced
    BY <1>0, <1>5, SyncedFiles DEF RenameToPartial, TypeOK
  <2> QED BY <2>1, <2>2, VerifiedFrame DEF Steps
<1>6. ASSUME NEW p \in Procs, Verify(p) PROVE VerifiedInv'
  <2>1. UNCHANGED <<objects, partial, stage, job>>
    BY <1>6 DEF Verify, files
  <2>2. CASE pc' = [pc EXCEPT ![p] = "idle"] \/ pc' = [pc EXCEPT ![p] = "unlink_bad"]
    BY <1>0, <2>1, <2>2, VerifiedFrame DEF Steps
  <2>3. CASE HashesTo(partial[D(p)].bytes, D(p))
    <3>1. \A q \in Procs : q = p
      BY DEF OneProcess
    <3> QED BY <2>1, <2>3, <3>1 DEF VerifiedInv, HashesTo, Exists, D
  <2> QED BY <1>6, <2>2, <2>3 DEF Verify, Goto, Return
<1>7. ASSUME NEW p \in Procs, UnlinkBad(p) \/ UnlinkDup(p) PROVE VerifiedInv'
  <2>1. /\ UNCHANGED <<objects, stage>>
        /\ \E s \in {"dedup_outcome", "idle"} : pc' = [pc EXCEPT ![p] = s]
    BY <1>7 DEF UnlinkBad, UnlinkDup, Return, Goto
  <2>2. \A d \in Digests : partial'[d].synced
    BY <1>0, <1>7, SyncedFiles DEF UnlinkBad, UnlinkDup, TypeOK
  <2> QED BY <1>0, <2>1, <2>2, VerifiedFrame DEF Steps
<1>8. ASSUME NEW p \in Procs, PublishCheck(p) PROVE VerifiedInv'
  <2>1. UNCHANGED <<objects, partial, stage, job>> /\ pc[p] = "publish_check"
    BY <1>8 DEF PublishCheck, files
  <2>2. \A q \in Procs : q = p
    BY DEF OneProcess
  <2> QED BY <2>1, <2>2 DEF VerifiedInv, HashesTo, Exists, D
<1>9. ASSUME NEW p \in Procs, Replace(p) PROVE VerifiedInv'
  <2>1. CASE pc' = [pc EXCEPT ![p] = "idle"] /\ UNCHANGED files
    BY <1>0, <1>9, <2>1, VerifiedFrame DEF Replace, files, Steps
  <2>2. CASE /\ Exists(partial[D(p)]) /\ objects' = [objects EXCEPT ![D(p)] = partial[D(p)]]
             /\ partial' = [partial EXCEPT ![D(p)] = Missing]
             /\ pc' = [pc EXCEPT ![p] = "fsync_dirs"]
    <3>1. \A q \in Procs : pc'[q] = "fsync_dirs"
      BY <2>2 DEF OneProcess, TypeOK
    <3>2. HashesTo(partial[D(p)].bytes, D(p)) /\ UNCHANGED stage
      BY <1>9, <2>2 DEF Replace, VerifiedInv
    <3>3. \A d \in Digests : objects'[d] = IF d = D(p) THEN partial[d] ELSE objects[d]
      BY <2>2 DEF TypeOK
    <3>4. \A d \in Digests : partial'[d].synced
      BY <1>0, <2>2, SyncedFiles DEF TypeOK
    <3> QED BY <1>0, <3>1, <3>2, <3>3, <3>4 DEF VerifiedInv, HashesTo, Exists
  <2> QED BY <1>9, <2>1, <2>2 DEF Replace, Return, Goto
<1>10. CASE DeletePartial
  <2>1. PICK d \in Digests : partial' = [partial EXCEPT ![d] = Missing]
    BY <1>10 DEF DeletePartial
  <2>2. \A e \in Digests : partial'[e] = IF e = d THEN Missing ELSE partial[e]
    BY <2>1 DEF TypeOK
  <2>3. UNCHANGED <<pc, job, stage, objects>>
    BY <1>10 DEF DeletePartial
  <2>4. \A e \in Digests : partial'[e].synced
    BY <1>0, <2>2, SyncedFiles
  <2>5. \A q \in Procs : pc[q] \in {"publish_check", "replace"} /\ Exists(partial'[D(q)])
                           => HashesTo(partial'[D(q)].bytes, D(q))
    BY <1>0, <2>2, SyncedFiles DEF VerifiedInv
  <2> QED BY <1>0, <2>3, <2>4, <2>5 DEF VerifiedInv, D
<1>11. CASE PowerLoss
  <2>1. \A d \in Digests : partial[d] \in File /\ objects[d] \in File
    BY DEF TypeOK
  <2>2. PICK undone, back, dropped :
          /\ partial' = [d \in Digests |-> IF d \in back THEN Torn(objects[d])
                                           ELSE IF d \in dropped THEN Missing
                                           ELSE Torn(partial[d])]
          /\ objects' = [d \in Digests |-> IF d \in undone THEN Missing ELSE Torn(objects[d])]
    <3>1. PICK undone, dropped :
            /\ \E back \in SUBSET undone :
                 partial' = [d \in Digests |-> IF d \in back THEN Torn(objects[d])
                                               ELSE IF d \in dropped THEN Missing
                                               ELSE Torn(partial[d])]
            /\ objects' = [d \in Digests |-> IF d \in undone THEN Missing ELSE Torn(objects[d])]
      BY <1>11 DEF PowerLoss
    <3>2. PICK back :
            partial' = [d \in Digests |-> IF d \in back THEN Torn(objects[d])
                                          ELSE IF d \in dropped THEN Missing
                                          ELSE Torn(partial[d])]
      BY <3>1
    <3> QED BY <3>1, <3>2
  <2>3. \A d \in Digests : partial'[d] \in {objects[d], partial[d], Missing}
                           /\ objects'[d] \in {objects[d], Missing}
    BY <1>0, <2>1, <2>2, SyncedFiles
  <2>4. \A q \in Procs : pc'[q] = "idle" /\ stage'[q] = Missing
    BY <1>11 DEF PowerLoss
  <2> QED BY <1>0, <2>3, <2>4, SyncedFiles DEF VerifiedInv
<1>12. CASE UNCHANGED vars
  BY <1>12 DEF VerifiedInv, HashesTo, Exists, D, vars, files
<1> QED BY <1>1, <1>2, <1>3, <1>4, <1>5, <1>6, <1>7, <1>8, <1>9, <1>10, <1>11, <1>12 DEF Next, Step

\* Objects keep their bytes where writes are not faulty, and where one process
\* ingests at a time: every byte that is published was read back first.
LEMMA ObjectsHash ==
    ASSUME FaultyBlobs = {} \/ OneProcess
    PROVE  Spec => []ObjectsIntact
<1>1. CASE FaultyBlobs = {}
  BY <1>1, ObjectsStayIntact
<1>2. CASE OneProcess
  <2>1. Init => VerifiedInv
    BY SyncedFiles DEF Init, VerifiedInv
  <2>2. TypeOK /\ VerifiedInv /\ [Next]_vars => VerifiedInv'
    BY <1>2, VerifiedInductive
  <2>3. VerifiedInv => ObjectsIntact
    BY DEF VerifiedInv, ObjectsIntact
  <2> QED BY <2>1, <2>2, <2>3, CasTypeCorrect, PTL DEF Spec
<1> QED BY <1>1, <1>2

\* The sweep's silence means that an object is committed, and it accuses the
\* engine of nothing the engine cannot do: run_fsck reports neither a descriptor
\* without its object nor an object with other bytes, however its three reads
\* interleave with ingests, kills and power losses.
THEOREM SweepIsHonest ==
    ASSUME FaultyBlobs = {} \/ OneProcess
    PROVE  FsckSpec => []SweepHonest
<1>1. FsckInit => MatchInv
  BY DEF FsckInit, MatchInv
<1>2. ObjectsIntact /\ MatchInv /\ [FsckNext]_allVars => MatchInv'
  <2> SUFFICES ASSUME ObjectsIntact, MatchInv, [FsckNext]_allVars PROVE MatchInv'
    OBVIOUS
  <2>1. CASE SweepObjects
    <3>1. {d \in {d \in Digests : Exists(objects[d])} : ~HashesTo(objects[d].bytes, d)} = {}
      BY DEF ObjectsIntact
    <3>2. \A S, k : \A i \in Issue(k, S) : i.kind = k
      BY DEF Issue
    <3>3. Issue("hash_mismatch", {}) = {}
      BY DEF Issue
    <3>4. \A i \in issues' : i.kind # "hash_mismatch"
      <4>1. PICK a, b, c :
              issues' = UNION {Issue("hash_mismatch", {}), Issue("missing_descriptor", a),
                               Issue("bad_receipt", b), Issue("orphan_descriptor", c)}
        BY <2>1, <3>1 DEF SweepObjects
      <4> QED BY <3>2, <3>3, <4>1
    <3> QED BY <3>4 DEF MatchInv
  <2>2. CASE ~SweepObjects
    <3>1. sweep' = "done" => sweep = "done" /\ UNCHANGED issues
      BY <2>2 DEF FsckNext, StoreStep, IndexDescriptors, IndexReceipts, Again, allVars, sweepVars
    <3> QED BY <3>1 DEF MatchInv
  <2> QED BY <2>1, <2>2
<1>3. IndexInv /\ MatchInv => NoFalseAccusation
  BY DEF IndexInv, MatchInv, NoFalseAccusation
<1>4. CleanMeansCommitted /\ NoFalseAccusation => SweepHonest
  BY DEF SweepHonest
<1> QED BY <1>1, <1>2, <1>3, <1>4, SilenceMeansCommitted, IndexInvariant, SweepIsOutside,
           ObjectsHash, PTL DEF FsckSpec
=============================================================================
