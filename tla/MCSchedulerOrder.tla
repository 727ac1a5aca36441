--------------------------- MODULE MCSchedulerOrder ---------------------------
(* Small instances of the scheduler with the order of arrival. *)
EXTENDS SchedulerOrder, TLC

MCEqual == [r \in Requests |-> 0]
MCOneRefusal == {"wait_pack_governance"}
=============================================================================
