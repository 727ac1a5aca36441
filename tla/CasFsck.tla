------------------------------- MODULE CasFsck -------------------------------
(***************************************************************************)
(* The integrity sweep (srl.cas.fsck.run_fsck) running beside ingests on   *)
(* the same store.  The sweep reads three directories one after the other, *)
(* without a lock: descriptors/, then receipts/, then objects/.  Listing   *)
(* and reading one directory is one step; ingests, crashes and power       *)
(* losses fall between the steps.                                          *)
(***************************************************************************)
EXTENDS CasEngine

VARIABLES
    sweep,        \* the directory the sweep reads next
    descIndex,    \* descriptors_by_digest, as read
    receiptIndex, \* receipts_by_id, as read
    swept,        \* object_digests, as read
    issues        \* the report's issues: kind and digest

sweepVars == <<sweep, descIndex, receiptIndex, swept, issues>>
allVars == <<vars, sweepVars>>

Sweeps == {"descriptors", "receipts", "objects", "done"}
Kinds == {"hash_mismatch", "missing_descriptor", "bad_receipt", "orphan_descriptor"}
Issue(kind, ds) == {[kind |-> kind, digest |-> d] : d \in ds}

FsckInit ==
    /\ Init
    /\ sweep = "descriptors"
    /\ descIndex = [d \in Digests |-> NoReceipt]
    /\ receiptIndex = {}
    /\ swept = {}
    /\ issues = {}

IndexDescriptors ==
    /\ sweep = "descriptors"
    /\ sweep' = "receipts"
    /\ descIndex' = descriptors
    /\ swept' = {} /\ issues' = {}
    /\ UNCHANGED <<vars, receiptIndex>>

IndexReceipts ==
    /\ sweep = "receipts"
    /\ sweep' = "objects"
    /\ receiptIndex' = receipts
    /\ UNCHANGED <<vars, descIndex, swept, issues>>

\* Re-hash every object, cross-check it with the two indexes, then look for
\* descriptors whose object was not seen.
SweepObjects ==
    LET seen == {d \in Digests : Exists(objects[d])}
        described == {d \in Digests : descIndex[d] # NoReceipt}
    IN  /\ sweep = "objects"
        /\ sweep' = "done"
        /\ swept' = seen
        /\ issues' =
             UNION {Issue("hash_mismatch", {d \in seen : ~HashesTo(objects[d].bytes, d)}),
                    Issue("missing_descriptor", seen \ described),
                    Issue("bad_receipt", {d \in seen \cap described :
                                             descIndex[d] \notin receiptIndex}),
                    Issue("orphan_descriptor", described \ seen)}
        /\ UNCHANGED <<vars, descIndex, receiptIndex>>

\* The operator asks for another sweep.
Again ==
    /\ sweep = "done"
    /\ sweep' = "descriptors"
    /\ UNCHANGED <<vars, descIndex, receiptIndex, swept, issues>>

\* A power loss also ends the sweep; an ingest step leaves it alone.
StoreStep ==
    \/ /\ DeletePartial \/ \E p \in Procs : Start(p) \/ Step(p) \/ Crash(p)
       /\ UNCHANGED sweepVars
    \/ /\ PowerLoss
       /\ sweep' = "descriptors"
       /\ UNCHANGED <<descIndex, receiptIndex, swept, issues>>

FsckNext == StoreStep \/ IndexDescriptors \/ IndexReceipts \/ SweepObjects \/ Again
FsckSpec == FsckInit /\ [][FsckNext]_allVars
-----------------------------------------------------------------------------
Clean(d) == \A k \in Kinds : [kind |-> k, digest |-> d] \notin issues

\* An object the sweep saw and had nothing to say about is fully committed,
\* although ingests and crashes ran while the sweep did.
CleanMeansCommitted ==
    sweep = "done" => \A d \in swept : Clean(d) => Committed(d)

\* The sweep never accuses a store the engine wrote of what the engine cannot
\* do: a descriptor without an object, or an object with other bytes.
NoFalseAccusation ==
    sweep = "done" => \A d \in Digests :
        /\ [kind |-> "orphan_descriptor", digest |-> d] \notin issues
        /\ [kind |-> "hash_mismatch", digest |-> d] \notin issues

\* The sweep's silence and its accusations can both be relied on.
SweepHonest ==
    /\ CleanMeansCommitted
    /\ NoFalseAccusation
=============================================================================
