------------------------------ MODULE MCSched ------------------------------
(***************************************************************************)
(* The instance of Sched that TLC explores: idle, the init process and two *)
(* workers, so that two tasks can wait in the queue while a third runs, or *)
(* sleep while it is freed and its slot reused; and stacks of two frames,  *)
(* so that a third frame on any stack would break TypeOK.                  *)
(***************************************************************************)
EXTENDS Sched

MCTasks == 4
MCDepth == 2
\* The word at NULL->state, a real mode interrupt vector, stands for itself.
MCLowMemState == "interrupt vector"
=============================================================================
