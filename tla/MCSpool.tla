------------------------------- MODULE MCSpool -------------------------------
(* Small instances of the spool. *)
EXTENDS Spool, TLC

CONSTANTS m1, m2, m3, s1

\* m3 is m1 sent again under another id.
MCKey == [m \in Messages |-> IF m = m3 THEN m1 ELSE m]

\* s1 queues m1, the other sender m2 and the copy of m1.
MCSendsOf == [s \in Senders |-> IF s = s1 THEN {m1} ELSE {m2, m3}]
MCAllSends == [s \in Senders |-> Messages]
=============================================================================
