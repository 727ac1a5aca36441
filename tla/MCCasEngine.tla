----------------------------- MODULE MCCasEngine -----------------------------
(* Small instances of the ingest transaction. *)
EXTENDS CasEngine

CONSTANTS b1, b2, d1, d2, p1

\* The hash function of the instances: blob i has digest i.
MCDigest == [b \in Blobs |-> IF b = b1 THEN d1 ELSE d2]
MCTimes == {1, 2}

\* Both processes ingest the first blob, only p1 the second.
MCSources == [p \in Procs |-> IF p = p1 THEN {b1, b2} ELSE {b1}]
=============================================================================
