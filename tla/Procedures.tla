------------------------------ MODULE Procedures ------------------------------
(***************************************************************************)
(* The frame shared by the modules of components that keep no state of     *)
(* their own between calls: one call at a time, `subject' naming the       *)
(* procedure and `st' holding its arguments, its progress and its answer.  *)
(* A module of such a component has one action per procedure, or per step  *)
(* of a procedure that other actors can interrupt, all on these two        *)
(* variables; calls of different procedures do not interact, so one run    *)
(* can hold several of them.                                               *)
(***************************************************************************)
VARIABLES
    subject,   \* the procedure under way
    st         \* its arguments, progress and answer

frame == <<subject, st>>

\* One step of procedure p, which turns the working state into `new'.
Step(p, new) == subject = p /\ st' = new /\ UNCHANGED subject
=============================================================================
