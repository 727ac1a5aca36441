----------------------------- MODULE MCScheduler -----------------------------
(* Small instances of the scheduler. *)
EXTENDS Scheduler, TLC

CONSTANTS r1, r2

\* A later request of higher priority, and one of the heavy pool.
MCPrio == [r \in Requests |-> IF r = r2 THEN 2 ELSE 0]
MCOneRefusal == {"wait_local_disk"}
MCHeavy == Requests \cap {r1}
=============================================================================
