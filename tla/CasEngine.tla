------------------------------ MODULE CasEngine ------------------------------
(***************************************************************************)
(* The content-addressed store's ingest transaction (srl.cas.engine), as   *)
(* run by several processes on one store root.  Every file-system call     *)
(* another process or a crash can fall between is an action of its own.    *)
(*                                                                         *)
(* A file is a record: its bytes and whether they were fsynced.  Bytes are *)
(* a member of Blobs, Garbage (a faulty write or a torn file) or NoFile    *)
(* (there is no file of that name).  SHA-256 is an injective function.     *)
(*                                                                         *)
(* Two faults of the platform are modelled: a process is killed, which     *)
(* loses its locals and nothing else, and the machine loses power, which   *)
(* kills every process, tears files that were not fsynced and may undo     *)
(* renames whose directory was not fsynced.                                *)
(***************************************************************************)
EXTENDS Naturals, FiniteSets

CONSTANTS
    Procs,          \* processes (or threads) calling ingest on one root
    Blobs,          \* source_bytes values
    Digests,        \* content addresses
    Digest,         \* Digest[b] is the sha256 of b
    Times,          \* created_utc stamps (whole seconds)
    Garbage,        \* bytes that are no blob
    NoFile,         \* the bytes of a file that is not there
    Sources,        \* Sources[p]: the blobs process p is asked to ingest
    FaultyBlobs,    \* blobs whose writes may store Garbage
    MaxCrashes,     \* bound: process kills in a behaviour
    MaxPowerLosses  \* bound: power losses in a behaviour

ASSUME CasAssumption ==
    /\ Digest \in [Blobs -> Digests]
    /\ \A a, b \in Blobs : Digest[a] = Digest[b] => a = b
    /\ Garbage \notin Blobs /\ NoFile \notin Blobs /\ Garbage # NoFile
    /\ NoFile \notin Digests
    /\ Sources \in [Procs -> SUBSET Blobs] /\ FaultyBlobs \subseteq Blobs
    /\ MaxCrashes \in Nat /\ MaxPowerLosses \in Nat

VARIABLES
    pc,          \* where each process is inside ingest
    job,         \* its arguments: the source bytes and the time stamp
    outcome,     \* how its last ingest ended
    stage,       \* its .ingest-* temporary file in incoming/
    partial,     \* incoming/partial-<digest>.tmp, one name per digest
    objects,     \* objects/<shard>/<digest>
    durable,     \* digests whose objects/ directory entry was fsynced
    descriptors, \* descriptors/<digest>.json: the receipt id it names
    receipts,    \* receipts/<receipt_id>.json
    acked,       \* history: digests a non-dedup ingest returned for
    answered,    \* history: digests a dedup ingest returned for
    crashes, powerLosses

files == <<partial, objects, durable, descriptors, receipts>>
faults == <<crashes, powerLosses>>
history == <<acked, answered>>
vars == <<pc, job, outcome, stage, files, history, faults>>

Content == Blobs \cup {Garbage, NoFile}
File == [bytes : Content, synced : BOOLEAN]
Missing == [bytes |-> NoFile, synced |-> TRUE]
Exists(f) == f.bytes # NoFile

\* The digest encoded in a receipt, and the receipt itself, are named by what
\* build_ingest_receipt hashes: the digest and the time stamp.
ReceiptId == [digest : Digests, time : Times]
NoReceipt == [digest |-> NoFile, time |-> NoFile]

\* The bytes hash back to the digest (and so have its size).
HashesTo(bytes, d) == bytes \in Blobs /\ Digest[bytes] = d

D(p) == Digest[job[p].blob]
MyReceipt(p) == [digest |-> D(p), time |-> job[p].time]

Steps == {"idle", "dedup_check", "capacity", "write_stage", "rename", "verify",
          "unlink_bad", "publish_check", "unlink_dup", "replace", "fsync_dirs",
          "descriptor", "receipt", "dedup_outcome"}
Outcomes == {"none", "published", "dedup", "quota", "integrity", "oserror"}

Goto(p, step) == pc' = [pc EXCEPT ![p] = step]
Return(p, o) == Goto(p, "idle") /\ outcome' = [outcome EXCEPT ![p] = o]

Init ==
    /\ pc = [p \in Procs |-> "idle"]
    /\ job \in [Procs -> [blob : Blobs, time : Times]]
    /\ outcome = [p \in Procs |-> "none"]
    /\ stage = [p \in Procs |-> Missing]
    /\ partial = [d \in Digests |-> Missing]
    /\ objects = [d \in Digests |-> Missing]
    /\ durable = {}
    /\ descriptors = [d \in Digests |-> NoReceipt]
    /\ receipts = {}
    /\ acked = {} /\ answered = {}
    /\ crashes = 0
    /\ powerLosses = 0
-----------------------------------------------------------------------------
(* Wrong variants of the actions below, each a bug the properties must catch. *)

\* The dedup check also clears a stale partial of its digest.
DedupCheckClearsPartial(p) ==
    /\ pc[p] = "dedup_check"
    /\ partial' = [partial EXCEPT ![D(p)] = Missing]
    /\ Goto(p, IF Exists(objects[D(p)]) THEN "dedup_outcome" ELSE "capacity")
    /\ UNCHANGED <<job, outcome, stage, objects, durable, descriptors, receipts, history, faults>>

\* The temporary file is renamed without having been fsynced.
WriteStageUnsynced(p) ==
    /\ pc[p] = "write_stage"
    /\ stage' = [stage EXCEPT ![p] = [bytes |-> job[p].blob, synced |-> FALSE]]
    /\ Goto(p, "rename")
    /\ UNCHANGED <<job, outcome, files, history, faults>>

\* The read-back looks whether the partial is there, not what is in it.
VerifyNoHash(p) ==
    /\ pc[p] = "verify"
    /\ \/ ~Exists(partial[D(p)]) /\ Return(p, "oserror")
       \/ Exists(partial[D(p)]) /\ Goto(p, "publish_check") /\ UNCHANGED outcome
    /\ UNCHANGED <<job, stage, files, history, faults>>

\* The directories are not fsynced.
FsyncDirsDropped(p) ==
    /\ pc[p] = "fsync_dirs"
    /\ Goto(p, "descriptor")
    /\ UNCHANGED <<job, outcome, stage, files, history, faults>>

\* The descriptor names no receipt.
WriteDescriptorNoReceipt(p) ==
    /\ pc[p] = "descriptor"
    /\ descriptors' = [descriptors EXCEPT ![D(p)] = [digest |-> D(p), time |-> NoFile]]
    /\ Goto(p, "receipt")
    /\ UNCHANGED <<job, outcome, stage, partial, objects, durable, receipts, history, faults>>

-----------------------------------------------------------------------------
\* A call of ingest with valid arguments: hash the source, make the directories.
Start(p) ==
    /\ pc[p] = "idle"
    /\ \E b \in Sources[p], t \in Times : job' = [job EXCEPT ![p] = [blob |-> b, time |-> t]]
    /\ outcome' = [outcome EXCEPT ![p] = "none"]
    /\ Goto(p, "dedup_check")
    /\ UNCHANGED <<stage, files, history, faults>>

\* Step 2: an object of this digest is already published.
DedupCheck(p) ==
    /\ pc[p] = "dedup_check"
    /\ Goto(p, IF Exists(objects[D(p)]) THEN "dedup_outcome" ELSE "capacity")
    /\ UNCHANGED <<job, outcome, stage, files, history, faults>>

\* Step 3: the caller's capacity hook admits or refuses; it writes nothing.
Capacity(p) ==
    /\ pc[p] = "capacity"
    /\ \/ Goto(p, "write_stage") /\ UNCHANGED outcome
       \/ Return(p, "quota")
    /\ UNCHANGED <<job, stage, files, history, faults>>

\* Steps 4-5: write and fsync the private temporary file.
WriteStage(p) ==
    /\ pc[p] = "write_stage"
    /\ \E c \in {job[p].blob} \cup (IF job[p].blob \in FaultyBlobs THEN {Garbage} ELSE {}) :
         stage' = [stage EXCEPT ![p] = [bytes |-> c, synced |-> TRUE]]
    /\ Goto(p, "rename")
    /\ UNCHANGED <<job, outcome, files, history, faults>>

\* os.replace(tmp_stage, partial_path): the partial's name is shared by every
\* process that ingests this digest.
RenameToPartial(p) ==
    /\ pc[p] = "rename"
    /\ partial' = [partial EXCEPT ![D(p)] = stage[p]]
    /\ stage' = [stage EXCEPT ![p] = Missing]
    /\ Goto(p, "verify")
    /\ UNCHANGED <<job, outcome, objects, durable, descriptors, receipts, history, faults>>

\* Step 6: read the partial back.  A missing file is an OSError of the caller.
Verify(p) ==
    /\ pc[p] = "verify"
    /\ \/ /\ ~Exists(partial[D(p)])
          /\ Return(p, "oserror")
       \/ /\ Exists(partial[D(p)])
          /\ Goto(p, IF HashesTo(partial[D(p)].bytes, D(p)) THEN "publish_check"
                                                            ELSE "unlink_bad")
          /\ UNCHANGED outcome
    /\ UNCHANGED <<job, stage, files, history, faults>>

\* A read-back mismatch deletes the partial and raises CasIntegrityError.
UnlinkBad(p) ==
    /\ pc[p] = "unlink_bad"
    /\ partial' = [partial EXCEPT ![D(p)] = Missing]
    /\ Return(p, "integrity")
    /\ UNCHANGED <<job, stage, objects, durable, descriptors, receipts, history, faults>>

\* Step 7: has a concurrent ingest published meanwhile?
PublishCheck(p) ==
    /\ pc[p] = "publish_check"
    /\ Goto(p, IF Exists(objects[D(p)]) THEN "unlink_dup" ELSE "replace")
    /\ UNCHANGED <<job, outcome, stage, files, history, faults>>

\* It has: drop the partial (missing_ok) and answer as a dedup.
UnlinkDup(p) ==
    /\ pc[p] = "unlink_dup"
    /\ partial' = [partial EXCEPT ![D(p)] = Missing]
    /\ Goto(p, "dedup_outcome")
    /\ UNCHANGED <<job, outcome, stage, objects, durable, descriptors, receipts, history, faults>>

\* It has not: os.replace(partial, object).
Replace(p) ==
    /\ pc[p] = "replace"
    /\ \/ /\ ~Exists(partial[D(p)])
          /\ Return(p, "oserror")
          /\ UNCHANGED files
       \/ /\ Exists(partial[D(p)])
          /\ objects' = [objects EXCEPT ![D(p)] = partial[D(p)]]
          /\ partial' = [partial EXCEPT ![D(p)] = Missing]
          /\ Goto(p, "fsync_dirs")
          /\ UNCHANGED <<outcome, durable, descriptors, receipts>>
    /\ UNCHANGED <<job, stage, history, faults>>

\* Step 8: fsync the shard directory, objects/ and the root.
FsyncDirs(p) ==
    /\ pc[p] = "fsync_dirs"
    /\ durable' = durable \cup {D(p)}
    /\ Goto(p, "descriptor")
    /\ UNCHANGED <<job, outcome, stage, partial, objects, descriptors, receipts, history, faults>>

\* Step 9: write the descriptor, atomically and fsynced.
WriteDescriptor(p) ==
    /\ pc[p] = "descriptor"
    /\ descriptors' = [descriptors EXCEPT ![D(p)] = MyReceipt(p)]
    /\ Goto(p, "receipt")
    /\ UNCHANGED <<job, outcome, stage, partial, objects, durable, receipts, history, faults>>

\* Step 10: write the receipt, last, atomically and fsynced; return.
WriteReceipt(p) ==
    /\ pc[p] = "receipt"
    /\ receipts' = receipts \cup {MyReceipt(p)}
    /\ acked' = acked \cup {D(p)}
    /\ Return(p, "published")
    /\ UNCHANGED <<job, stage, partial, objects, durable, descriptors, answered, faults>>

\* _dedup_outcome: read the descriptor if it is there, write nothing, return.
DedupOutcome(p) ==
    /\ pc[p] = "dedup_outcome"
    /\ Return(p, "dedup")
    /\ answered' = answered \cup {D(p)}
    /\ UNCHANGED <<job, stage, files, acked, faults>>

\* Steps between which a process counts on its partial.
OnPartial == {"verify", "unlink_bad", "publish_check", "unlink_dup", "replace"}

\* The operator deletes a partial that recover_partials reports: a published one,
\* or one that an interrupted ingest left behind.
DeletePartial ==
    /\ \E d \in Digests :
         /\ Exists(partial[d])
         /\ Exists(objects[d]) \/ \A p \in Procs : pc[p] \in OnPartial => D(p) # d
         /\ partial' = [partial EXCEPT ![d] = Missing]
    /\ UNCHANGED <<pc, job, outcome, stage, objects, durable, descriptors, receipts, history, faults>>
-----------------------------------------------------------------------------
\* The process is killed inside ingest.  Its temporary file keeps a random
\* name that no code reads again.
Crash(p) ==
    /\ pc[p] # "idle"
    /\ crashes < MaxCrashes
    /\ crashes' = crashes + 1
    /\ Return(p, "none")
    /\ stage' = [stage EXCEPT ![p] = Missing]
    /\ UNCHANGED <<job, files, history, powerLosses>>

\* What is left of a file whose bytes were never fsynced.
Torn(f) == IF f.synced THEN f ELSE [bytes |-> Garbage, synced |-> TRUE]

\* The machine loses power.  `undone` are the publishing renames that did not
\* reach the disk (`back` of them leave the partial behind), `dropped` the
\* partials whose own rename did not.  What is on the disk then stays there.
PowerLoss ==
    /\ powerLosses < MaxPowerLosses
    /\ powerLosses' = powerLosses + 1
    /\ \E undone \in SUBSET {d \in Digests \ durable : Exists(objects[d])},
          dropped \in SUBSET {d \in Digests : Exists(partial[d])} :
       /\ \E back \in SUBSET undone :
           partial' = [d \in Digests |-> IF d \in back THEN Torn(objects[d])
                                         ELSE IF d \in dropped THEN Missing
                                         ELSE Torn(partial[d])]
       /\ objects' = [d \in Digests |-> IF d \in undone THEN Missing ELSE Torn(objects[d])]
       /\ durable' = durable \cup {d \in Digests \ undone : Exists(objects[d])}
    /\ pc' = [p \in Procs |-> "idle"]
    /\ outcome' = [p \in Procs |-> "none"]
    /\ stage' = [p \in Procs |-> Missing]
    /\ UNCHANGED <<job, descriptors, receipts, history, crashes>>
-----------------------------------------------------------------------------
Step(p) ==
    \/ DedupCheck(p) \/ Capacity(p) \/ WriteStage(p) \/ RenameToPartial(p)
    \/ Verify(p) \/ UnlinkBad(p) \/ PublishCheck(p) \/ UnlinkDup(p)
    \/ Replace(p) \/ FsyncDirs(p) \/ WriteDescriptor(p) \/ WriteReceipt(p)
    \/ DedupOutcome(p)

Next ==
    \/ \E p \in Procs : Start(p) \/ Step(p) \/ Crash(p)
    \/ DeletePartial \/ PowerLoss

Spec == Init /\ [][Next]_vars
FairSpec == Spec /\ \A p \in Procs : WF_vars(Step(p))
-----------------------------------------------------------------------------
(* Properties *)

\* Every variable has its type.
TypeOK ==
    /\ pc \in [Procs -> Steps]
    /\ job \in [Procs -> [blob : Blobs, time : Times]]
    /\ outcome \in [Procs -> Outcomes]
    /\ stage \in [Procs -> File]
    /\ partial \in [Digests -> File]
    /\ objects \in [Digests -> File]
    /\ durable \in SUBSET Digests
    /\ descriptors \in [Digests -> ReceiptId \cup {NoReceipt}]
    /\ receipts \in SUBSET ReceiptId
    /\ acked \in SUBSET Digests /\ answered \in SUBSET Digests
    /\ crashes \in 0..MaxCrashes
    /\ powerLosses \in 0..MaxPowerLosses

\* An object is visible only with the bytes its name is the hash of: neither a
\* concurrent ingest through the shared partial nor a power loss exposes others.
ObjectsIntact ==
    \A d \in Digests : Exists(objects[d]) => HashesTo(objects[d].bytes, d)

\* The receipt is the commit marker: one that is on disk, after any crash or
\* power loss, stands for a durable object with a descriptor.
ReceiptLast ==
    \A r \in receipts :
        /\ r.digest \in durable
        /\ Exists(objects[r.digest])
        /\ descriptors[r.digest] # NoReceipt

Committed(d) ==
    /\ d \in durable
    /\ Exists(objects[d])
    /\ descriptors[d] # NoReceipt
    /\ \E r \in receipts : r.digest = d

\* What a completed (not deduplicated) ingest returned for is never lost.
AckedSurvives == \A d \in acked : Committed(d)

\* The commit marker keeps its word, for readers of receipts and for callers.
CommitSound == ReceiptLast /\ AckedSurvives

\* An ingest that dies of a missing partial lost a race: the object it wanted is
\* published, by the process that took the partial away.
LostRaceMeansPublished ==
    \A p \in Procs : outcome[p] = "oserror" => Exists(objects[D(p)])
-----------------------------------------------------------------------------
(* The inductive strengthenings the proofs use. *)

GoodFile(f, d) == f.synced /\ (Exists(f) => HashesTo(f.bytes, d))

\* Without write faults every file on its way to objects/ is fsynced and holds
\* the bytes of the digest it is named for.
IntactInv ==
    /\ \A d \in Digests : GoodFile(partial[d], d) /\ GoodFile(objects[d], d)
    /\ \A p \in Procs : pc[p] = "rename" => Exists(stage[p]) /\ GoodFile(stage[p], D(p))

\* The order of steps 7 to 10, as seen by whoever reads the store.
CommitInv ==
    /\ \A d \in durable : Exists(objects[d])
    /\ \A d \in Digests : descriptors[d] # NoReceipt => d \in durable
    /\ \A r \in receipts : descriptors[r.digest] # NoReceipt
    /\ \A d \in acked : \E r \in receipts : r.digest = d
    /\ \A p \in Procs :
         /\ pc[p] = "fsync_dirs" => Exists(objects[D(p)])
         /\ pc[p] \in {"descriptor", "receipt"} => D(p) \in durable
         /\ pc[p] = "receipt" => descriptors[D(p)] # NoReceipt

\* An ingest that found its object published still finds it there when it returns.
FoundInv == \A p \in Procs : pc[p] \in {"unlink_dup", "dedup_outcome"} => Exists(objects[D(p)])

\* A process that staged its bytes finds the partial, or the object it became.
RaceInv ==
    \A p \in Procs :
        /\ pc[p] # "unlink_bad"
        /\ pc[p] = "unlink_dup" => Exists(objects[D(p)])
        /\ pc[p] \in {"verify", "publish_check", "replace"} =>
             Exists(partial[D(p)]) \/ Exists(objects[D(p)])
-----------------------------------------------------------------------------
\* Processes that share a partial never keep each other from publishing it: once
\* the failures are over, sound bytes that were staged end up as an object.
StagedThenPublished ==
    \A d \in Digests :
        (/\ crashes = MaxCrashes /\ powerLosses = MaxPowerLosses
         /\ \E p \in Procs : pc[p] = "verify" /\ D(p) = d /\ job[p].blob \notin FaultyBlobs)
        ~> Exists(objects[d])

\* The engine keeps the promise of the abstract store: every ingest that returns, a
\* duplicate or not, has its bytes in objects/ at that moment, and no failure loses
\* what an ingest that published returned for.  A duplicate is told nothing more: it
\* may be answered before the process that published has fsynced the directory.
Promise == INSTANCE ArtifactStore WITH
    NoBytes <- NoFile,
    content <- [d \in Digests |-> objects[d].bytes],
    returned <- acked \cup answered,
    kept <- acked
PromiseSpec == Promise!Spec

=============================================================================
