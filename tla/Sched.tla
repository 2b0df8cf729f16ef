------------------------------- MODULE Sched -------------------------------
(***************************************************************************)
(* Tasks, run queue and context switch of the kernel: kernel/sched.c and   *)
(* kernel/task.c with the entry and exit paths of sys/isr.S and the ring 0 *)
(* stack pointer that sys/gdt.c keeps in the TSS.                          *)
(*                                                                         *)
(* One action is a stretch of kernel code that runs with interrupts off.   *)
(* Interrupt handlers and system calls do (sys/idt.c installs interrupt    *)
(* gates for them); a kernel worker that calls yield, sleep, wakeup or     *)
(* task_create_kworker is assumed to have called cpu_disable_interrupt     *)
(* (SchedPreempt drops that assumption).  User code, worker code and       *)
(* exception handlers (trap gates) can be interrupted.                     *)
(*                                                                         *)
(* An address on a kernel stack is a pair <<task, depth>>: the base of     *)
(* frame number depth, counted from the top of that task's stack; depth 0  *)
(* is the top itself.  A frame keeps where its code continues (kind) and   *)
(* whose control flow it is (who); the registers are not modelled further. *)
(***************************************************************************)
EXTENDS KList, FiniteSets

CONSTANTS NTASKS,      \* slots of ptable (kernel/config.h)
          DEPTH,       \* frames that fit on a kernel stack
          LowMemState  \* what the state field of a NULL task pointer reads

NULL == 0
HEAD == -1             \* the list head inside runq

Task == 1..NTASKS
Node == Task \cup {HEAD}
\* EMBRYO lasts from task_alloc to the end of the same action; the other
\* values of enum TASK_STATE are never stored.
TaskState == {"UNUSED", "RUNNING", "SLEEP"}

\* Low memory is mapped and holds the BIOS interrupt vectors, so reading
\* NULL->state in the very first schedule is no fault; the word there is
\* the vector of interrupt 4 and is not the number of RUNNING.
ASSUME NTASKSAssumption == NTASKS \in Nat \ {0}
ASSUME DEPTHAssumption == DEPTH \in Nat /\ DEPTH >= 2
ASSUME LowMemAssumption == LowMemState # "RUNNING"

VARIABLES state,      \* state[t]: task->state
          kesp,       \* kesp[t]: task->kesp
          kstack,     \* kstack[t][d]: frame d in the memory of t's kernel stack
          kesp_local, \* kesp_local[t]: the local variable of t's call of yield
          runq,       \* links of runq->queue
          current,    \* runq->current
          idle,       \* runq->idle
          initproc,   \* the task made by task_create_init_proc, pid 0
          esp0,       \* sys_tss.esp0
          cpu         \* what the processor executes, for whom, on which stack

vars == <<state, kesp, kstack, kesp_local, runq, current, idle, initproc,
          esp0, cpu>>

\* Kinds of code a frame returns to: ring 3 code, the body of a worker, an
\* exception handler, the rest of yield called by a worker or in a syscall.
Kind == {"user", "body", "exc", "ybody", "ysys"}
\* The processor may also boot, run a syscall handler or be halted for good.
Mode == Kind \cup {"boot", "sys", "halted"}

NoFrame == [kind |-> "none", who |-> NULL]
Frame == [kind : Kind, who : Task] \cup {NoFrame}
Addr == (Task \cup {NULL}) \X (0..DEPTH)
NoAddr == <<NULL, 0>>

\* The table and runq lie in memory from kmalloc, which nobody clears (task.c:26,
\* sched.c:33, ksbrk): UNUSED and NULL are what fresh memory holds if it is zero,
\* as that of an emulator is.
Init ==
  /\ state = [t \in Task |-> "UNUSED"]
  /\ kesp = [t \in Task |-> NoAddr]
  /\ kstack = [t \in Task |-> [d \in 1..DEPTH |-> NoFrame]]
  /\ kesp_local = [t \in Task |-> NoAddr]
  /\ runq = [next |-> [n \in Node |-> NULL], prev |-> [n \in Node |-> NULL]]
  /\ current = NULL /\ idle = NULL /\ initproc = NULL
  /\ esp0 = NoAddr
  /\ cpu = [mode |-> "boot", who |-> NULL, esp |-> NoAddr]

-----------------------------------------------------------------------------
(* Run queue: kernel/sched.c *)

sched_enqueue(q, t) == list_add_tail(q, HEAD, t)

\* sched_dequeue and sched_get_next: the links left and the task chosen.
sched_get_next(q) ==
  IF list_empty(q, HEAD)
  THEN [runq |-> q, task |-> idle]
  ELSE [runq |-> list_remove(q, list_first(q, HEAD)), task |-> list_first(q, HEAD)]

\* A plausible slip: a task that just went to sleep is queued as well.
put_prev_asleep_too(prev, st) == prev # NULL /\ prev # idle

\* Whether the previous task goes back to the queue.
put_prev(prev, st) ==
  /\ (IF prev = NULL THEN LowMemState ELSE st[prev]) = "RUNNING"
  /\ prev # idle

\* schedule with the task states st: the new links and the new current task.
schedule(st) ==
  sched_get_next(IF put_prev(current, st) THEN sched_enqueue(runq, current) ELSE runq)

-----------------------------------------------------------------------------
(* Entry to and exit from the kernel: sys/isr.S, kernel/task.c *)

\* The processor pushes on the stack of the TSS when it leaves ring 3, on the
\* stack in use otherwise; task_save_context then records the frame.
save_context(kind) ==
  LET top == IF cpu.mode = "user" THEN esp0 ELSE cpu.esp
      esp == <<top[1], top[2] + 1>>
  IN  [esp    |-> esp,
       kstack |-> [kstack EXCEPT ![top[1]][esp[2]] = [kind |-> kind, who |-> cpu.who]],
       kesp   |-> [kesp EXCEPT ![current] = esp],
       esp0   |-> IF kind = "user" THEN esp ELSE esp0]

\* A plausible slip: the TSS is left at the frame that iret consumes.
intr_leave_no_tss(cur, stk, ksp, e0) ==
  LET addr  == ksp[cur]
      frame == stk[addr[1]][addr[2]]
  IN  /\ kstack' = stk /\ kesp' = ksp /\ esp0' = e0
      /\ cpu' = [mode |-> frame.kind, who |-> frame.who,
                 esp |-> <<addr[1], addr[2] - 1>>]

\* intr_leave: task_restore_context for the current task cur, then iret from
\* the frame it returns.  A task whose frame returns to ring 3 takes its stack
\* pointer from the TSS, and the TSS is moved back over that frame.
intr_leave(cur, stk, ksp, e0) ==
  LET regs  == stk[ksp[cur][1]][ksp[cur][2]]
      addr  == IF regs.kind = "user" THEN e0 ELSE ksp[cur]
      frame == stk[addr[1]][addr[2]]
      under == <<addr[1], addr[2] - 1>>
  IN  /\ kstack' = stk
      /\ kesp' = [ksp EXCEPT ![cur] = addr]
      /\ esp0' = IF regs.kind = "user" THEN under ELSE e0
      /\ cpu' = [mode |-> frame.kind, who |-> frame.who, esp |-> under]

Interruptible == cpu.mode \in {"user", "body", "exc"}

\* Kernel code that runs for the current task with interrupts off.
InKernel == cpu.mode \in {"body", "sys"} /\ current # idle

-----------------------------------------------------------------------------
(* Creating tasks: kernel/task.c, and the boot order of main.c *)

FreeSlots == { t \in Task : state[t] = "UNUSED" }

\* task_alloc: the first unused slot.
FirstFree == CHOOSE t \in FreeSlots : \A s \in FreeSlots : t <= s

\* PANIC stops the processor with interrupts off.
Panic ==
  /\ cpu' = [cpu EXCEPT !.mode = "halted"]
  /\ UNCHANGED <<state, kesp, kstack, kesp_local, runq, current, idle, initproc, esp0>>

\* A slot taken, and the first frame put on its new kernel stack.
NewTask(t, kind) ==
  /\ state' = [state EXCEPT ![t] = "RUNNING"]
  /\ kstack' = [kstack EXCEPT ![t][1] = [kind |-> kind, who |-> t]]
  /\ kesp' = [kesp EXCEPT ![t] = <<t, 1>>]

\* sched_init: the idle worker is created like any other, then taken out of
\* the queue.
sched_init ==
  /\ cpu.mode = "boot" /\ idle = NULL
  /\ NewTask(FirstFree, "body")
  /\ LET q == sched_enqueue(list_init(runq, HEAD), FirstFree)
     IN  /\ idle' = list_first(q, HEAD)
         /\ runq' = list_remove(q, list_first(q, HEAD))
  /\ UNCHANGED <<kesp_local, current, initproc, esp0, cpu>>

task_create_kworker ==
  /\ idle # NULL
  /\ cpu.mode = "boot" \/ InKernel
  /\ \/ FreeSlots = {} /\ Panic
     \/ /\ FreeSlots # {}
        /\ NewTask(FirstFree, "body")
        /\ runq' = sched_enqueue(runq, FirstFree)
        /\ UNCHANGED <<kesp_local, current, idle, initproc, esp0, cpu>>

\* The one process of ring 3; the TSS is set to its first frame.
task_create_init_proc ==
  /\ cpu.mode = "boot" /\ idle # NULL /\ initproc = NULL
  /\ \/ FreeSlots = {} /\ Panic
     \/ /\ FreeSlots # {}
        /\ NewTask(FirstFree, "user")
        /\ initproc' = FirstFree
        /\ esp0' = <<FirstFree, 1>>
        /\ runq' = sched_enqueue(runq, FirstFree)
        /\ UNCHANGED <<kesp_local, current, idle, cpu>>

sched_enable ==
  /\ cpu.mode = "boot" /\ initproc # NULL
  /\ LET next == schedule(state)
     IN  /\ runq' = next.runq
         /\ current' = next.task
         /\ intr_leave(next.task, kstack, kesp, esp0)
  /\ UNCHANGED <<state, kesp_local, idle, initproc>>

-----------------------------------------------------------------------------
(* Interrupts, exceptions and system calls *)

\* A plausible slip: the context is saved after the handler has run, for the
\* task that the handler switched to.
irq_0_saves_late ==
  LET saved == save_context(cpu.mode)
      next  == schedule(state)
  IN  /\ runq' = next.runq
      /\ current' = next.task
      /\ intr_leave(next.task, saved.kstack, [kesp EXCEPT ![next.task] = saved.esp], saved.esp0)
      /\ UNCHANGED <<state, kesp_local, idle, initproc>>

\* IRQ 0: irq_common, pic_i8259_main_handler, pit_tick, schedule, intr_leave.
irq_0 ==
  LET saved == save_context(cpu.mode)
      next  == schedule(state)
  IN  /\ runq' = next.runq
      /\ current' = next.task
      /\ intr_leave(next.task, saved.kstack, saved.kesp, saved.esp0)
      /\ UNCHANGED <<state, kesp_local, idle, initproc>>

timer_irq == Interruptible /\ irq_0

\* Another interrupt, without a handler that touches tasks.
device_irq ==
  /\ Interruptible
  /\ LET saved == save_context(cpu.mode)
     IN  intr_leave(current, saved.kstack, saved.kesp, saved.esp0)
  /\ UNCHANGED <<state, kesp_local, runq, current, idle, initproc>>

\* wakeup: the caller passes a task that sleeps.
wakeup(t) ==
  /\ state[t] = "SLEEP"
  /\ state' = [state EXCEPT ![t] = "RUNNING"]
  /\ runq' = sched_enqueue(runq, t)

\* An interrupt whose registered handler wakes a task.
irq_wakeup(t) ==
  /\ wakeup(t)
  /\ LET saved == save_context(cpu.mode)
     IN  intr_leave(current, saved.kstack, saved.kesp, saved.esp0)
  /\ UNCHANGED <<kesp_local, current, idle, initproc>>

wakeup_irq(t) == Interruptible /\ irq_wakeup(t)

syscall_enter ==
  /\ cpu.mode = "user"
  /\ LET saved == save_context("user")
     IN  /\ kstack' = saved.kstack
         /\ kesp' = saved.kesp
         /\ esp0' = saved.esp0
         /\ cpu' = [cpu EXCEPT !.mode = "sys", !.esp = saved.esp]
  /\ UNCHANGED <<state, kesp_local, runq, current, idle, initproc>>

syscall_leave ==
  /\ cpu.mode = "sys"
  /\ intr_leave(current, kstack, kesp, esp0)
  /\ UNCHANGED <<state, kesp_local, runq, current, idle, initproc>>

\* except_enter, through a trap gate: interrupts stay enabled.
exception ==
  /\ cpu.mode \in {"user", "body"}
  /\ LET saved == save_context(cpu.mode)
     IN  /\ kstack' = saved.kstack
         /\ kesp' = saved.kesp
         /\ esp0' = saved.esp0
         /\ cpu' = [cpu EXCEPT !.mode = "exc", !.esp = saved.esp]
  /\ UNCHANGED <<state, kesp_local, runq, current, idle, initproc>>

\* exception_handler ends in cli; hlt.
exception_halt == cpu.mode = "exc" /\ Panic

-----------------------------------------------------------------------------
(* Calls a task makes on the scheduler: kernel/task.c *)

\* yield up to the switch: kesp is kept in a local, reschedule pushes a frame
\* that returns into yield, saves the context and leaves for the next task.
Reschedule(st) ==
  LET saved == save_context(IF cpu.mode = "sys" THEN "ysys" ELSE "ybody")
      next  == schedule(st)
  IN  /\ kesp_local' = [kesp_local EXCEPT ![current] = kesp[current]]
      /\ runq' = next.runq
      /\ current' = next.task
      /\ intr_leave(next.task, saved.kstack, saved.kesp, saved.esp0)
      /\ UNCHANGED <<idle, initproc>>

yield == InKernel /\ Reschedule(state) /\ UNCHANGED state

\* A plausible slip: the state is stored after the switch.
sleep_still_running == InKernel /\ Reschedule(state) /\ state' = [state EXCEPT ![current] = "SLEEP"]

sleep ==
  /\ InKernel
  /\ state' = [state EXCEPT ![current] = "SLEEP"]
  /\ Reschedule(state')

\* A plausible slip: kesp left at the frame that the switch has consumed.
yield_return_keeps_kesp ==
  /\ cpu.mode \in {"ybody", "ysys"}
  /\ cpu' = [cpu EXCEPT !.mode = IF @ = "ysys" THEN "sys" ELSE "body"]
  /\ UNCHANGED <<state, kesp, kstack, kesp_local, runq, current, idle, initproc, esp0>>

\* The rest of yield once the task is back: task->kesp = kesp, return.
yield_return ==
  /\ cpu.mode \in {"ybody", "ysys"}
  /\ kesp' = [kesp EXCEPT ![cpu.who] = kesp_local[cpu.who]]
  /\ cpu' = [cpu EXCEPT !.mode = IF @ = "ysys" THEN "sys" ELSE "body"]
  /\ UNCHANGED <<state, kstack, kesp_local, runq, current, idle, initproc, esp0>>

\* wakeup called by a worker or in a system call.
wakeup_call(t) ==
  /\ InKernel
  /\ wakeup(t)
  /\ UNCHANGED <<kesp, kstack, kesp_local, current, idle, initproc, esp0, cpu>>

\* task_free of a worker that sleeps; its kernel stack stays mapped.
task_free(t) ==
  /\ InKernel
  /\ state[t] = "SLEEP" /\ t # initproc
  /\ state' = [state EXCEPT ![t] = "UNUSED"]
  /\ UNCHANGED <<kesp, kstack, kesp_local, runq, current, idle, initproc, esp0, cpu>>

\* cli; hlt is never left.
halted == cpu.mode = "halted" /\ UNCHANGED vars

-----------------------------------------------------------------------------
Next ==
  \/ sched_init \/ task_create_kworker \/ task_create_init_proc \/ sched_enable
  \/ timer_irq \/ device_irq \/ syscall_enter \/ syscall_leave
  \/ exception \/ exception_halt
  \/ yield \/ sleep \/ yield_return
  \/ \E t \in Task : wakeup_irq(t) \/ wakeup_call(t) \/ task_free(t)
  \/ halted

Spec == Init /\ [][Next]_vars

\* The PIT runs at HZ for ever and the PIC latches its request while interrupts
\* are off, so a tick that can be taken again and again is taken; kernel code
\* with interrupts off goes on by itself, and no system call loops.
Fairness ==
  /\ SF_vars(timer_irq)
  /\ WF_vars(sched_init) /\ WF_vars(task_create_init_proc) /\ WF_vars(sched_enable)
  /\ WF_vars(syscall_leave) /\ WF_vars(yield_return)

FairSpec == Spec /\ Fairness

-----------------------------------------------------------------------------
(* Correctness *)

\* Every variable holds a value of its type.
TypeOK ==
  /\ state \in [Task -> TaskState]
  /\ kesp \in [Task -> Addr]
  /\ kstack \in [Task -> [1..DEPTH -> Frame]]
  /\ kesp_local \in [Task -> Addr]
  /\ runq \in [next : [Node -> Node \cup {NULL}], prev : [Node -> Node \cup {NULL}]]
  /\ current \in Task \cup {NULL}
  /\ idle \in Task \cup {NULL}
  /\ initproc \in Task \cup {NULL}
  /\ esp0 \in Addr
  /\ cpu \in [mode : Mode, who : Task \cup {NULL}, esp : Addr]

\* The tasks that wait for the processor.
Waiting == { t \in Task : state[t] = "RUNNING" } \ {current, idle}

Elements(q) == { q[i] : i \in 1..Len(q) }

\* From sched_init on, whatever the order of ticks, sleeps, wakeups, creations
\* and frees, the queue is an intact circular list that holds every runnable
\* task but the running one and idle, each exactly once: schedule, wakeup and
\* task creation never lose a task, queue one twice or queue a sleeper.
RunqInv ==
  idle # NULL => \E q \in Orders(Task, NTASKS) :
                    Ring(runq, HEAD, q) /\ Elements(q) = Waiting

\* The processor always executes the control flow of runq->current on the
\* kernel stack of runq->current: a context switch never resumes one task with
\* the frame, or on the stack, of another.
OwnContext ==
  cpu.mode \notin {"boot", "halted"} =>
    /\ cpu.who = current
    /\ cpu.mode # "user" => cpu.esp[1] = current

\* When ring 3 code runs it is the init process, and the stack that the TSS
\* hands to the next interrupt is that process's own and empty: no system call
\* or tick starts on top of a frame left behind, or on another task's stack.
TssInv == cpu.mode = "user" => current = initproc /\ esp0 = <<initproc, 0>>

\* Every runnable task gets the processor in the end, unless the machine stops:
\* a tick, a yield or a sleep never passes a waiting task over for ever, and no
\* system call that yields comes back to a stale frame and loops.
NoStarvation ==
  \A t \in Task : t \in Waiting ~> (current = t \/ cpu.mode = "halted")

-----------------------------------------------------------------------------
(***************************************************************************)
(* The abstract scheduler: the queue is the sequence that the ring holds,  *)
(* and an idle processor runs nobody.                                      *)
(***************************************************************************)
Queue == CHOOSE q \in Orders(Task, NTASKS) : Ring(runq, HEAD, q)

Abs == INSTANCE SchedAbs WITH
         Tasks   <- Task,
         Nobody  <- NULL,
         running <- IF current = idle THEN NULL ELSE current,
         ready   <- IF idle = NULL THEN <<>> ELSE Queue,
         asleep  <- { t \in Task : state[t] = "SLEEP" }

\* The scheduler built from the list, the task states and the context switch
\* is first come, first served: each step is a step of SchedAbs or invisible.
Implements == Abs!ASpec

-----------------------------------------------------------------------------
(* The inductive invariant *)

Live == { t \in Task : state[t] \in {"RUNNING", "SLEEP"} }

\* Who the tasks are: idle and the running task run, init is never freed.
TaskInv ==
  /\ current # NULL => state[current] = "RUNNING"
  /\ idle # NULL => state[idle] = "RUNNING" /\ idle # initproc
  /\ idle = NULL => state = [t \in Task |-> "UNUSED"] /\ initproc = NULL
  /\ initproc # NULL => initproc \in Live
  /\ cpu.mode = "boot" => current = NULL
  /\ cpu.mode \notin {"boot", "halted"} => current # NULL /\ initproc # NULL
  /\ current # NULL => idle # NULL

\* Frame 1 of a stack in use is what the task was interrupted in.
BottomFrame(t) == [kind |-> IF t = initproc THEN "user" ELSE "body", who |-> t]

\* With the stacks stk, the saved kesp ksp, the locals loc of yield and the TSS
\* e0, task t can be resumed from its kesp, on its own stack; a suspended init
\* has the TSS at its frame 1.
Resumable(t, stk, ksp, loc, e0) ==
  /\ t = initproc => e0 = <<t, 1>>
  /\ \/ ksp[t] = <<t, 1>> /\ stk[t][1] = BottomFrame(t)
     \/ ksp[t] = <<t, 1>> /\ t # initproc /\ stk[t][1] = [kind |-> "ybody", who |-> t]
     \/ /\ ksp[t] = <<t, 2>> /\ stk[t][1] = BottomFrame(t)
        /\ stk[t][2] = [kind |-> "exc", who |-> t]
     \/ /\ ksp[t] = <<t, 2>> /\ stk[t][1] = BottomFrame(t)
        /\ stk[t][2] = [kind |-> "ysys", who |-> t]
        /\ t = initproc /\ loc[t] = <<t, 1>>

\* The running task stands where its kind of code can only stand.
RunningContext(t) ==
  /\ cpu.who = t
  /\ \/ cpu.mode = "user" /\ t = initproc /\ esp0 = <<t, 0>> /\ cpu.esp = <<t, 0>>
     \/ cpu.mode \in {"body", "ybody"} /\ t # initproc /\ cpu.esp = <<t, 0>>
     \/ /\ cpu.mode = "exc" /\ cpu.esp = <<t, 1>> /\ kstack[t][1] = BottomFrame(t)
        /\ t = initproc => esp0 = <<t, 1>>
     \/ /\ cpu.mode \in {"sys", "ysys"} /\ t = initproc /\ cpu.esp = <<t, 1>>
        /\ kstack[t][1] = BottomFrame(t)
        /\ esp0 = <<t, 1>>
        /\ IF cpu.mode = "sys" THEN kesp[t] = <<t, 1>> ELSE kesp_local[t] = <<t, 1>>

\* Every task but the running one has a whole saved context, and the running
\* one is where its saved frames say: what makes each resumption land on the
\* right frame of the right stack.
ContextInv ==
  cpu.mode # "halted" =>
    /\ \A t \in Live \ {current} : Resumable(t, kstack, kesp, kesp_local, esp0)
    /\ cpu.mode # "boot" => RunningContext(current)

IInv == TypeOK /\ TaskInv /\ RunqInv /\ ContextInv
=============================================================================
