---------------------------- MODULE SchedPreempt ----------------------------
(***************************************************************************)
(* yield and sleep called by a kernel worker, one step of reschedule and   *)
(* schedule at a time.  task_init_kstack starts a worker with interrupts   *)
(* on (eflags 0x202) and neither yield, sleep nor reschedule turns them    *)
(* off, so an interrupt may come between two steps unless the caller has   *)
(* called cpu_disable_interrupt.  CallersDisable says whether callers do.  *)
(*                                                                         *)
(* The mode of the processor is the step that comes next:                  *)
(*   "asleep"   sleep has stored SLEEP and calls yield                     *)
(*   "put"      the context is saved, schedule looks at the previous task  *)
(*   "get"      schedule takes the next task                               *)
(*   "switch"   schedule calls switch_to                                   *)
(*   "leave"    intr_leave                                                 *)
(* An interrupt handler runs with interrupts off, so it is one step.       *)
(***************************************************************************)
EXTENDS Sched

CONSTANT CallersDisable

VARIABLES task, \* task[w]: the local variable task of w's call of yield
          next  \* next[w]: the local variable next of the schedule it calls

pvars == <<state, kesp, kstack, kesp_local, runq, current, idle, initproc,
           esp0, cpu, task, next>>

PInit ==
  /\ Init
  /\ task = [w \in Task |-> NULL]
  /\ next = [w \in Task |-> NULL]

Locals == <<task, next>>

InCall == cpu.mode \in {"asleep", "put", "get", "switch", "leave"}

Preemptible == Interruptible \/ (InCall /\ ~CallersDisable)

GoTo(step) == cpu' = [cpu EXCEPT !.mode = step]

\* A worker's body may call sleep, which stores the state first ...
call_sleep ==
  /\ cpu.mode = "body" /\ current # idle
  /\ state' = [state EXCEPT ![current] = "SLEEP"]
  /\ GoTo("asleep")
  /\ UNCHANGED <<kesp, kstack, kesp_local, runq, current, idle, initproc, esp0, Locals>>

\* ... and then calls yield, as the body may at any time: reschedule pushes
\* the frame that returns into yield and saves the context.
call_yield ==
  /\ \/ cpu.mode = "body" /\ current # idle
     \/ cpu.mode = "asleep"
  /\ LET saved == save_context("ybody")
     IN  /\ task' = [task EXCEPT ![cpu.who] = current]
         /\ kesp_local' = [kesp_local EXCEPT ![cpu.who] = kesp[current]]
         /\ kstack' = saved.kstack /\ kesp' = saved.kesp
         /\ cpu' = [cpu EXCEPT !.mode = "put", !.esp = saved.esp]
  /\ UNCHANGED <<state, runq, current, idle, initproc, esp0, next>>

schedule_put ==
  /\ cpu.mode = "put"
  /\ runq' = IF put_prev(current, state) THEN sched_enqueue(runq, current) ELSE runq
  /\ GoTo("get")
  /\ UNCHANGED <<state, kesp, kstack, kesp_local, current, idle, initproc, esp0, Locals>>

schedule_get ==
  /\ cpu.mode = "get"
  /\ runq' = sched_get_next(runq).runq
  /\ next' = [next EXCEPT ![cpu.who] = sched_get_next(runq).task]
  /\ GoTo("switch")
  /\ UNCHANGED <<state, kesp, kstack, kesp_local, current, idle, initproc, esp0, task>>

\* A plausible slip: schedule returns without calling switch_to.
switch_to_skipped ==
  /\ cpu.mode = "switch"
  /\ GoTo("leave")
  /\ UNCHANGED <<state, kesp, kstack, kesp_local, runq, current, idle, initproc, esp0, Locals>>

switch_to ==
  /\ cpu.mode = "switch"
  /\ current' = next[cpu.who]
  /\ GoTo("leave")
  /\ UNCHANGED <<state, kesp, kstack, kesp_local, runq, idle, initproc, esp0, Locals>>

leave ==
  /\ cpu.mode = "leave"
  /\ intr_leave(current, kstack, kesp, esp0)
  /\ UNCHANGED <<state, kesp_local, runq, current, idle, initproc, Locals>>

\* The end of yield: the local variables task and kesp are used.
yield_end ==
  /\ cpu.mode = "ybody"
  /\ kesp' = [kesp EXCEPT ![task[cpu.who]] = kesp_local[cpu.who]]
  /\ GoTo("body")
  /\ UNCHANGED <<state, kstack, kesp_local, runq, current, idle, initproc, esp0, Locals>>

boot ==
  /\ cpu.mode = "boot"
  /\ sched_init \/ task_create_kworker \/ task_create_init_proc \/ sched_enable
  /\ UNCHANGED Locals

tick == Preemptible /\ irq_0 /\ UNCHANGED Locals

wake == Preemptible /\ (\E t \in Task : irq_wakeup(t)) /\ UNCHANGED Locals

stopped == halted /\ UNCHANGED Locals

PNext == \/ boot \/ tick \/ wake \/ stopped
         \/ call_sleep \/ call_yield \/ yield_end
         \/ schedule_put \/ schedule_get \/ switch_to \/ leave

PSpec == PInit /\ [][PNext]_pvars

-----------------------------------------------------------------------------
\* klib/list.h promises a circular doubly linked list: the queue of the
\* scheduler is one at every step, however ticks and wakeups fall into the
\* calls of workers.
QueueIsRing == idle # NULL => \E q \in Orders(Task, NTASKS) : Ring(runq, HEAD, q)

\* No runnable task is lost or queued twice between put_prev and switch_to: at
\* every step the queue is a ring of the waiting tasks, with the previous task
\* once it is put back and without the next one once it is taken.
NoTaskLost ==
  idle # NULL => \E q \in Orders(Task, NTASKS) :
    /\ Ring(runq, HEAD, q)
    /\ LET held == IF cpu.mode = "switch" THEN {next[cpu.who]} ELSE {}
           put  == IF cpu.mode \in {"get", "switch"} /\ state[current] = "RUNNING"
                   THEN {current} ELSE {}
       IN  Elements(q) = (Waiting \cup put) \ held

\* Outside a call of schedule the processor runs the current task, on the
\* current task's own stack.
OwnContextAtRest == InCall \/ OwnContext

-----------------------------------------------------------------------------
(***************************************************************************)
(* The inductive invariant, if callers disable interrupts: outside of a    *)
(* call the state is one of Sched; what a call does to it, step by step.   *)
(***************************************************************************)

\* The locals of a call of yield hold the caller or nothing yet.
LocalsInv ==
  /\ task \in [Task -> Task \cup {NULL}] /\ next \in [Task -> Task \cup {NULL}]
  /\ \A t \in Task : task[t] \in {t, NULL}

CallTypes ==
  /\ state \in [Task -> TaskState]
  /\ kesp \in [Task -> Addr] /\ kesp_local \in [Task -> Addr] /\ esp0 \in Addr
  /\ kstack \in [Task -> [1..DEPTH -> Frame]]
  /\ runq \in [next : [Node -> Node \cup {NULL}], prev : [Node -> Node \cup {NULL}]]
  /\ {current, idle, initproc} \subseteq Task
  /\ cpu \in [mode : {"asleep", "put", "get", "switch", "leave"}, who : Task, esp : Addr]

\* Who is who during a call: a worker calls, and a runnable task is chosen.
CallTasks ==
  /\ idle # initproc /\ state[idle] = "RUNNING" /\ initproc \in Live /\ current \in Live
  /\ IF cpu.mode = "leave" THEN state[current] = "RUNNING"
     ELSE cpu.who = current /\ current \notin {idle, initproc}
  /\ cpu.mode = "switch" => next[current] \in Task /\ state[next[current]] = "RUNNING"

\* Every task can be resumed once the caller has saved its context.
CallContext ==
  /\ \A t \in Live : (cpu.mode = "asleep" /\ t = current)
                       \/ Resumable(t, kstack, kesp, kesp_local, esp0)
  /\ cpu.mode = "asleep" => cpu.esp = <<current, 0>>

PIInv == /\ LocalsInv
         /\ IF InCall THEN CallTypes /\ CallTasks /\ CallContext /\ NoTaskLost ELSE IInv
=============================================================================
