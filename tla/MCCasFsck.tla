------------------------------ MODULE MCCasFsck ------------------------------
(* A small instance of the integrity sweep beside ingests on a platform that *)
(* may store wrong bytes.                                                     *)
EXTENDS CasFsck

CONSTANTS b1, b2, d1, d2

MCDigest == [b \in Blobs |-> IF b = b1 THEN d1 ELSE d2]
MCTimes == {1, 2}
MCSources == [p \in Procs |-> Blobs]
=============================================================================
