------------------------------ MODULE SchedAbs ------------------------------
(***************************************************************************)
(* What the scheduler of kernel/sched.c promises its callers, without      *)
(* linked lists, stacks or interrupts: one processor, first come first     *)
(* served among the runnable tasks, and never idle by choice.              *)
(***************************************************************************)
EXTENDS Integers, Sequences

CONSTANTS Tasks,   \* the tasks that may be scheduled
          Nobody   \* the processor is idle

VARIABLES running, \* the task that has the processor, or Nobody
          ready,   \* the runnable tasks that wait for it, oldest first
          asleep   \* the blocked tasks

avars == <<running, ready, asleep>>

AInit == running = Nobody /\ ready = <<>> /\ asleep = {}

Members(q) == { q[i] : i \in 1..Len(q) }

Known == Members(ready) \cup asleep \cup ({running} \ {Nobody})

\* The processor goes to the task that waits longest in q, or to nobody.
DispatchFrom(q) ==
  IF q = <<>> THEN running' = Nobody /\ ready' = <<>>
              ELSE running' = Head(q) /\ ready' = Tail(q)

\* A task never seen before (or freed) joins the end of the line.
Spawn(t) ==
  /\ t \notin Known
  /\ ready' = Append(ready, t)
  /\ UNCHANGED <<running, asleep>>

\* A scheduling point: the running task goes to the end of the line.
Reschedule ==
  /\ DispatchFrom(IF running = Nobody THEN ready ELSE Append(ready, running))
  /\ UNCHANGED asleep

\* The running task gives the processor up until it is woken.
Block ==
  /\ running # Nobody
  /\ asleep' = asleep \cup {running}
  /\ DispatchFrom(ready)

Wake(t) ==
  /\ t \in asleep
  /\ asleep' = asleep \ {t}
  /\ ready' = Append(ready, t)
  /\ UNCHANGED running

Forget(t) ==
  /\ t \in asleep
  /\ asleep' = asleep \ {t}
  /\ UNCHANGED <<running, ready>>

ANext == \/ Reschedule
         \/ Block
         \/ \E t \in Tasks : Spawn(t) \/ Wake(t) \/ Forget(t)

ASpec == AInit /\ [][ANext]_avars
=============================================================================
