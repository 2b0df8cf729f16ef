------------------------- MODULE SchedPreemptProofs -------------------------
(***************************************************************************)
(* SchedPreempt for any number of tasks, if callers disable interrupts: a  *)
(* call of yield or sleep loses no task between its steps, and leaves the  *)
(* invariant of Sched as it found it.                                      *)
(***************************************************************************)
EXTENDS SchedPreempt, SchedProofs

\* The tasks that belong in the queue at each step of a call.
Queued ==
  (Waiting \cup (IF cpu.mode \in {"get", "switch"} /\ state[current] = "RUNNING" THEN {current} ELSE {}))
    \ (IF cpu.mode = "switch" THEN {next[cpu.who]} ELSE {})

LEMMA LostIsQueued ==
  /\ NoTaskLost <=> (idle # NULL => Holds(runq, Queued))
  /\ NoTaskLost' <=> (idle' # NULL => Holds(runq', Queued'))
BY HoldsIsBounded DEF NoTaskLost, Queued

LEMMA CallFacts ==
  ASSUME PIInv, InCall
  PROVE  /\ LocalsInv /\ CallTypes /\ CallTasks /\ CallContext /\ Holds(runq, Queued)
         /\ runq \in Links(Node, Cells) /\ kstack \in Stacks
<1>1. LocalsInv /\ CallTypes /\ CallTasks /\ CallContext /\ NoTaskLost
  BY DEF PIInv
<1>2. idle # NULL
  BY <1>1, Numbers DEF CallTypes
<1> QED
  BY <1>1, <1>2, LostIsQueued DEF CallTypes, Links, Cells, Stacks

LEMMA StaysInCall ==
  ASSUME LocalsInv', CallTypes', CallTasks', CallContext', Holds(runq', Queued')
  PROVE  PIInv'
<1>1. InCall'
  BY DEF InCall, CallTypes
<1> QED
  BY <1>1, LostIsQueued DEF PIInv

LEMMA NotInCall ==
  ASSUME IInv', LocalsInv'
  PROVE  PIInv'
<1>1. ~InCall'
  BY DEF IInv, TypeOK, InCall, Mode, Kind
<1> QED
  BY <1>1 DEF PIInv

\* A worker outside of a call, or about to call yield.
LEMMA WorkerRuns ==
  ASSUME IInv, cpu.mode = "body", current # idle
  PROVE  /\ {current, idle, initproc} \subseteq Task
         /\ current \in Live /\ initproc \in Live /\ idle # initproc /\ current # initproc
         /\ state[idle] = "RUNNING" /\ state[current] = "RUNNING"
         /\ cpu.who = current /\ cpu.esp = <<current, 0>>
         /\ \A t \in Live \ {current} : Resumable(t, kstack, kesp, kesp_local, esp0)
         /\ Holds(runq, Waiting)
<1>1. cpu.mode \in Mode \ {"boot", "halted"}
  BY DEF Mode, Kind
<1>2. RunningContext(current) /\ current \in Task
  BY <1>1, CurrentRuns
<1>3. cpu.esp = <<current, 0>> /\ current # initproc
  BY <1>2 DEF RunningContext
<1> QED
  BY <1>1, <1>3, CurrentRuns, InvFacts, Numbers

LEMMA SleepKeeps == ASSUME PIInv, call_sleep PROVE PIInv'
<1>1. /\ cpu.mode = "body" /\ current # idle
      /\ state' = [state EXCEPT ![current] = "SLEEP"] /\ cpu' = [cpu EXCEPT !.mode = "asleep"]
      /\ UNCHANGED <<kesp, kstack, kesp_local, runq, current, idle, initproc, esp0, task, next>>
  BY DEF call_sleep, GoTo, Locals
<1>2. IInv /\ LocalsInv
  BY <1>1 DEF PIInv, InCall
<1>3. /\ {current, idle, initproc} \subseteq Task
      /\ current \in Live /\ initproc \in Live /\ idle # initproc /\ current # initproc
      /\ state[idle] = "RUNNING" /\ state[current] = "RUNNING"
      /\ cpu.who = current /\ cpu.esp = <<current, 0>>
      /\ \A t \in Live \ {current} : Resumable(t, kstack, kesp, kesp_local, esp0)
      /\ Holds(runq, Waiting)
  BY <1>1, <1>2, WorkerRuns
<1>4. cpu \in [mode : Mode, who : Task \cup {NULL}, esp : Addr] /\ state \in [Task -> TaskState]
  BY <1>2 DEF IInv, TypeOK
<1>5. /\ cpu' \in [mode : {"asleep"}, who : Task, esp : Addr]
      /\ cpu'.mode = "asleep" /\ cpu'.who = current /\ cpu'.esp = <<current, 0>>
  BY <1>1, <1>3, <1>4
<1>6. /\ state' \in [Task -> TaskState] /\ Live' = Live
      /\ \A t \in Task \ {current} : state'[t] = state[t]
      /\ state'[current] = "SLEEP"
  BY <1>1, <1>3, <1>4 DEF TaskState, Live
<1>7. Queued' = Waiting
  BY <1>1, <1>3, <1>5, <1>6 DEF Queued, Waiting
<1>8. LocalsInv'
  BY <1>1, <1>2 DEF LocalsInv
<1>9. CallTypes'
  BY <1>1, <1>2, <1>3, <1>5, <1>6 DEF CallTypes, IInv, TypeOK
<1>10. CallTasks'
  BY <1>1, <1>3, <1>5, <1>6 DEF CallTasks
<1>11. CallContext'
  BY <1>1, <1>3, <1>5, <1>6 DEF CallContext, Resumable, BottomFrame
<1> QED
  BY <1>1, <1>3, <1>7, <1>8, <1>9, <1>10, <1>11, StaysInCall

\* reschedule saves the context of a worker: it can be resumed in yield.
LEMMA WorkerSaved ==
  ASSUME cpu.mode \in {"body", "asleep"}, current \in Task, current # initproc,
         cpu.who = current, cpu.esp = <<current, 0>>,
         kstack \in Stacks, kesp \in [Task -> Addr], kesp_local \in [Task -> Addr],
         \A t \in Live \ {current} : Resumable(t, kstack, kesp, kesp_local, esp0),
         NEW loc, loc = [kesp_local EXCEPT ![cpu.who] = kesp[current]]
  PROVE  LET s == save_context("ybody")
         IN  /\ s.kstack \in Stacks /\ s.kesp \in [Task -> Addr] /\ s.esp \in Addr
             /\ loc \in [Task -> Addr]
             /\ \A t \in Live : Resumable(t, s.kstack, s.kesp, loc, esp0)
<1> DEFINE c == current
           s == save_context("ybody")
           top == IF cpu.mode = "user" THEN esp0 ELSE cpu.esp
           esp == <<top[1], top[2] + 1>>
<1>1. DEPTH \in Nat /\ DEPTH >= 2
  BY DEPTHAssumption
<1>2. /\ s.esp = <<c, 1>>
      /\ s.kstack = [kstack EXCEPT ![c][1] = [kind |-> "ybody", who |-> c]]
      /\ s.kesp = [kesp EXCEPT ![c] = <<c, 1>>]
  <2>1. /\ s.esp = esp
        /\ s.kstack = [kstack EXCEPT ![top[1]][esp[2]] = [kind |-> "ybody", who |-> c]]
        /\ s.kesp = [kesp EXCEPT ![c] = esp]
    BY DEF save_context
  <2>2. top = <<c, 0>> /\ esp = <<c, 1>>
    OBVIOUS
  <2> HIDE DEF s, top, esp
  <2> QED
    BY <2>1, <2>2
<1> HIDE DEF s
<1>3. s.kstack \in Stacks /\ s.kesp \in [Task -> Addr] /\ s.esp \in Addr /\ loc \in [Task -> Addr]
  BY <1>1, <1>2 DEF Stacks, Addr, Frame, Kind
<1>4. s.kstack[c][1] = [kind |-> "ybody", who |-> c] /\ s.kesp[c] = <<c, 1>>
  BY <1>1, <1>2 DEF Stacks
<1>5. Resumable(c, s.kstack, s.kesp, loc, esp0)
  BY <1>4 DEF Resumable
<1>6. ASSUME NEW t \in Live \ {c}
      PROVE  Resumable(t, s.kstack, s.kesp, loc, esp0)
  <2>1. t \in Task /\ Resumable(t, kstack, kesp, kesp_local, esp0)
    BY DEF Live
  <2>2. s.kstack[t] = kstack[t] /\ s.kesp[t] = kesp[t] /\ loc[t] = kesp_local[t]
    BY <1>1, <1>2, <2>1 DEF Stacks
  <2> QED
    BY <2>1, <2>2 DEF Resumable
<1> QED
  BY <1>3, <1>5, <1>6 DEF s

LEMMA YieldKeeps == ASSUME PIInv, call_yield PROVE PIInv'
<1> DEFINE c == current
           s == save_context("ybody")
           loc == [kesp_local EXCEPT ![cpu.who] = kesp[current]]
<1>1. /\ (cpu.mode = "body" /\ current # idle) \/ cpu.mode = "asleep"
      /\ task' = [task EXCEPT ![cpu.who] = current] /\ kesp_local' = loc
      /\ kstack' = s.kstack /\ kesp' = s.kesp
      /\ cpu' = [cpu EXCEPT !.mode = "put", !.esp = s.esp]
      /\ UNCHANGED <<state, runq, current, idle, initproc, esp0, next>>
  BY DEF call_yield
<1>2. /\ LocalsInv /\ {c, idle, initproc} \subseteq Task
      /\ c \in Live /\ initproc \in Live /\ idle # initproc /\ c # initproc /\ c # idle
      /\ state[idle] = "RUNNING" /\ cpu.who = c /\ cpu.esp = <<c, 0>>
      /\ \A t \in Live \ {c} : Resumable(t, kstack, kesp, kesp_local, esp0)
      /\ Holds(runq, Waiting)
      /\ state \in [Task -> TaskState] /\ kesp \in [Task -> Addr] /\ kesp_local \in [Task -> Addr]
      /\ esp0 \in Addr /\ kstack \in Stacks
      /\ runq \in [next : [Node -> Node \cup {NULL}], prev : [Node -> Node \cup {NULL}]]
  <2>1. CASE cpu.mode = "body"
    <3>1. IInv /\ LocalsInv
      BY <2>1 DEF PIInv, InCall
    <3> QED
      BY <1>1, <2>1, <3>1, WorkerRuns DEF IInv, TypeOK, Stacks
  <2>2. CASE cpu.mode = "asleep"
    <3>1. LocalsInv /\ CallTypes /\ CallTasks /\ CallContext /\ Holds(runq, Queued)
      BY <2>2, CallFacts DEF InCall
    <3>2. Queued = Waiting
      BY <2>2 DEF Queued
    <3> QED
      BY <2>2, <3>1, <3>2 DEF CallTypes, CallTasks, CallContext, Stacks
  <2> QED
    BY <1>1, <2>1, <2>2
<1>3. /\ s.kstack \in Stacks /\ s.kesp \in [Task -> Addr] /\ s.esp \in Addr
      /\ loc \in [Task -> Addr]
      /\ \A t \in Live : Resumable(t, s.kstack, s.kesp, loc, esp0)
  BY <1>1, <1>2, WorkerSaved
<1> HIDE DEF s, loc
<1>5. /\ cpu' = [mode |-> "put", who |-> c, esp |-> s.esp]
  <2>1. cpu = [mode |-> cpu.mode, who |-> cpu.who, esp |-> cpu.esp]
    BY <1>1 DEF PIInv, InCall, CallTypes, IInv, TypeOK
  <2> QED
    BY <1>1, <1>2, <2>1
<1>6. LocalsInv'
  BY <1>1, <1>2 DEF LocalsInv
<1>7. CallTypes'
  BY <1>1, <1>2, <1>3, <1>5 DEF CallTypes, Stacks
<1>8. Live' = Live /\ Waiting' = Waiting
  BY <1>1 DEF Live, Waiting
<1>9. CallTasks'
  BY <1>1, <1>2, <1>5, <1>8 DEF CallTasks
<1>10. CallContext'
  BY <1>1, <1>3, <1>5, <1>8 DEF CallContext, Resumable, BottomFrame
<1>11. Queued' = Waiting
  BY <1>5, <1>8 DEF Queued
<1> QED
  BY <1>1, <1>2, <1>6, <1>7, <1>9, <1>10, <1>11, StaysInCall

\* A step of a call that changes no stack: contexts stay as they are.
LEMMA ContextStays ==
  ASSUME CallContext, cpu.mode # "asleep", cpu'.mode # "asleep", Live' \subseteq Live,
         UNCHANGED <<kesp, kstack, kesp_local, initproc, esp0>>
  PROVE  CallContext'
BY DEF CallContext, Resumable, BottomFrame

LEMMA PutKeeps == ASSUME PIInv, schedule_put PROVE PIInv'
<1> DEFINE c == current
<1>1. /\ cpu.mode = "put" /\ cpu' = [cpu EXCEPT !.mode = "get"]
      /\ runq' = IF put_prev(c, state) THEN sched_enqueue(runq, c) ELSE runq
      /\ UNCHANGED <<state, kesp, kstack, kesp_local, current, idle, initproc, esp0, task, next>>
  BY DEF schedule_put, GoTo, Locals
<1>2. /\ LocalsInv /\ CallTypes /\ CallTasks /\ CallContext /\ Holds(runq, Queued)
      /\ runq \in Links(Node, Cells)
  BY <1>1, CallFacts DEF InCall
<1>3. /\ {c, idle, initproc} \subseteq Task /\ c # NULL /\ c \in Live /\ cpu.who = c /\ c # idle
      /\ state \in [Task -> TaskState]
  BY <1>1, <1>2, Numbers DEF CallTypes, CallTasks
<1>4. cpu' \in [mode : {"get"}, who : Task, esp : Addr] /\ cpu'.mode = "get" /\ cpu'.who = c
  BY <1>1, <1>2, <1>3 DEF CallTypes
<1>5. Queued = Waiting /\ Waiting' = Waiting /\ Live' = Live /\ c \notin Waiting
  BY <1>1 DEF Queued, Waiting, Live
<1>6. Queued' = Waiting \cup (IF state[c] = "RUNNING" THEN {c} ELSE {})
  BY <1>1, <1>4, <1>5 DEF Queued
<1>7. put_prev(c, state) <=> state[c] = "RUNNING"
  BY <1>3 DEF put_prev
<1>8. runq' \in Links(Node, Cells) /\ Holds(runq', Queued')
  <2>1. CASE state[c] = "RUNNING"
    BY <1>1, <1>2, <1>3, <1>5, <1>6, <1>7, <2>1, EnqueueHolds
  <2>2. CASE state[c] # "RUNNING"
    <3>1. Queued' = Waiting /\ runq' = runq
      BY <1>1, <1>6, <1>7, <2>2
    <3> QED
      BY <1>2, <1>5, <3>1
  <2> QED
    BY <2>1, <2>2
<1>9. LocalsInv'
  BY <1>1, <1>2 DEF LocalsInv
<1>10. CallTypes'
  BY <1>1, <1>2, <1>4, <1>8 DEF CallTypes, Links, Cells
<1>11. CallTasks'
  BY <1>1, <1>2, <1>4, <1>5 DEF CallTasks
<1>12. CallContext'
  BY <1>1, <1>2, <1>4, <1>5, ContextStays
<1> QED
  BY <1>8, <1>9, <1>10, <1>11, <1>12, StaysInCall

LEMMA GetKeeps == ASSUME PIInv, schedule_get PROVE PIInv'
<1> DEFINE c == current
           q == sched_get_next(runq)
<1>1. /\ cpu.mode = "get" /\ cpu' = [cpu EXCEPT !.mode = "switch"]
      /\ runq' = q.runq /\ next' = [next EXCEPT ![cpu.who] = q.task]
      /\ UNCHANGED <<state, kesp, kstack, kesp_local, current, idle, initproc, esp0, task>>
  BY DEF schedule_get, GoTo
<1>2. /\ LocalsInv /\ CallTypes /\ CallTasks /\ CallContext /\ Holds(runq, Queued)
      /\ runq \in Links(Node, Cells)
  BY <1>1, CallFacts DEF InCall
<1>3. /\ {c, idle, initproc} \subseteq Task /\ c \in Live /\ cpu.who = c /\ c # idle
      /\ state \in [Task -> TaskState] /\ state[idle] = "RUNNING"
  BY <1>1, <1>2 DEF CallTypes, CallTasks
<1>4. cpu' \in [mode : {"switch"}, who : Task, esp : Addr] /\ cpu'.mode = "switch" /\ cpu'.who = c
  BY <1>1, <1>2, <1>3 DEF CallTypes
<1>5. Waiting' = Waiting /\ Live' = Live
  BY <1>1 DEF Waiting, Live
<1> DEFINE w == Queued
<1>6. /\ w = Waiting \cup (IF state[c] = "RUNNING" THEN {c} ELSE {})
      /\ idle \notin w /\ \A t \in w : state[t] = "RUNNING"
  BY <1>1, <1>3 DEF Queued, Waiting
<1> HIDE DEF w
<1>7. /\ q.runq \in Links(Node, Cells)
      /\ w = {} => q.task = idle /\ Holds(q.runq, w)
      /\ w # {} => q.task \in w /\ q.task \in Task /\ Holds(q.runq, w \ {q.task})
  BY <1>2, GetNextHolds DEF w
<1> HIDE DEF q
<1>8. q.task \in Task /\ state[q.task] = "RUNNING" /\ Holds(q.runq, w \ {q.task})
  <2>1. w = {} => w \ {q.task} = w
    OBVIOUS
  <2> QED
    BY <1>3, <1>6, <1>7, <2>1
<1>9. next' \in [Task -> Task \cup {NULL}] /\ next'[c] = q.task
  BY <1>1, <1>2, <1>3, <1>8 DEF LocalsInv
<1>10. Queued' = w \ {q.task}
  BY <1>1, <1>4, <1>5, <1>6, <1>9 DEF Queued
<1>11. LocalsInv'
  BY <1>1, <1>2, <1>9 DEF LocalsInv
<1>12. CallTypes'
  BY <1>1, <1>2, <1>4, <1>7 DEF CallTypes, Links, Cells
<1>13. CallTasks'
  BY <1>1, <1>2, <1>4, <1>5, <1>8, <1>9 DEF CallTasks
<1>14. CallContext'
  BY <1>1, <1>2, <1>4, <1>5, ContextStays
<1> QED
  BY <1>1, <1>8, <1>10, <1>11, <1>12, <1>13, <1>14, StaysInCall

LEMMA SwitchKeeps == ASSUME PIInv, switch_to PROVE PIInv'
<1> DEFINE c == current
           n == next[current]
<1>1. /\ cpu.mode = "switch" /\ cpu' = [cpu EXCEPT !.mode = "leave"] /\ current' = next[cpu.who]
      /\ UNCHANGED <<state, kesp, kstack, kesp_local, runq, idle, initproc, esp0, task, next>>
  BY DEF switch_to, GoTo, Locals
<1>2. LocalsInv /\ CallTypes /\ CallTasks /\ CallContext /\ Holds(runq, Queued)
  BY <1>1, CallFacts DEF InCall
<1>3. /\ {c, idle, initproc} \subseteq Task /\ c \in Live /\ cpu.who = c /\ c # idle
      /\ n \in Task /\ state[n] = "RUNNING" /\ state[idle] = "RUNNING" /\ current' = n
  BY <1>1, <1>2 DEF CallTypes, CallTasks
<1> HIDE DEF n
<1>4. cpu' \in [mode : {"leave"}, who : Task, esp : Addr] /\ cpu'.mode = "leave"
  BY <1>1, <1>2, <1>3 DEF CallTypes
<1>5. Live' = Live /\ n \in Live
  BY <1>1, <1>3 DEF Live
<1>6. Queued' = Queued
  BY <1>1, <1>3, <1>4 DEF Queued, Waiting, n
<1>7. LocalsInv'
  BY <1>1, <1>2 DEF LocalsInv
<1>8. CallTypes'
  BY <1>1, <1>2, <1>3, <1>4 DEF CallTypes
<1>9. CallTasks'
  BY <1>1, <1>2, <1>3, <1>4, <1>5 DEF CallTasks
<1>10. CallContext'
  BY <1>1, <1>2, <1>4, <1>5, ContextStays
<1> QED
  BY <1>1, <1>2, <1>6, <1>7, <1>8, <1>9, <1>10, StaysInCall

\* intr_leave ends the call: the next task runs, and the state is one of Sched.
LEMMA LeaveKeeps == ASSUME PIInv, leave PROVE PIInv'
<1>1. /\ cpu.mode = "leave" /\ intr_leave(current, kstack, kesp, esp0)
      /\ UNCHANGED <<state, kesp_local, runq, current, idle, initproc, task, next>>
  BY DEF leave, Locals
<1>2. /\ LocalsInv /\ CallTypes /\ CallTasks /\ CallContext /\ Holds(runq, Queued)
      /\ runq \in Links(Node, Cells) /\ kstack \in Stacks
  BY <1>1, CallFacts DEF InCall
<1>3. Queued = Waiting /\ Waiting' = Waiting /\ Live' = Live
  BY <1>1 DEF Queued, Waiting, Live
<1>4. /\ {current, idle, initproc} \subseteq Task /\ idle # initproc
      /\ state[current] = "RUNNING" /\ state[idle] = "RUNNING" /\ initproc \in Live
      /\ state \in [Task -> TaskState] /\ kesp \in [Task -> Addr] /\ esp0 \in Addr
      /\ kesp_local \in [Task -> Addr]
      /\ \A t \in Live : Resumable(t, kstack, kesp, kesp_local, esp0)
  BY <1>1, <1>2 DEF CallTypes, CallTasks, CallContext
<1>5. intr_leave(current', kstack, kesp, esp0)
  BY <1>1
<1>6. IInv'
  BY <1>1, <1>2, <1>3, <1>4, <1>5, LeavePreserves
<1>7. LocalsInv'
  BY <1>1, <1>2 DEF LocalsInv
<1> QED
  BY <1>6, <1>7, NotInCall

LEMMA YieldEndKeeps == ASSUME PIInv, yield_end PROVE PIInv'
<1> DEFINE c == current
<1>1. /\ cpu.mode = "ybody" /\ cpu' = [cpu EXCEPT !.mode = "body"]
      /\ kesp' = [kesp EXCEPT ![task[cpu.who]] = kesp_local[cpu.who]]
      /\ UNCHANGED <<state, kstack, kesp_local, runq, current, idle, initproc, esp0, task, next>>
  BY DEF yield_end, GoTo, Locals
<1>2. IInv /\ LocalsInv
  BY <1>1 DEF PIInv, InCall
<1>3. cpu.mode \in Mode \ {"boot", "halted"}
  BY <1>1 DEF Mode, Kind
<1>4. /\ c \in Task /\ cpu.who = c /\ RunningContext(c)
      /\ \A t \in Live \ {c} : Resumable(t, kstack, kesp, kesp_local, esp0)
  BY <1>3, CurrentRuns, <1>2
<1>5. cpu.esp = <<c, 0>> /\ c # initproc
  BY <1>1, <1>4 DEF RunningContext
<1>6. cpu \in [mode : Mode, who : Task \cup {NULL}, esp : Addr]
  BY <1>2 DEF IInv, TypeOK
<1>7. /\ cpu' \in [mode : Kind \cup {"sys"}, who : Task \cup {NULL}, esp : Addr]
      /\ cpu'.mode = "body" /\ cpu'.who = c /\ cpu'.esp = <<c, 0>>
  BY <1>1, <1>4, <1>5, <1>6 DEF Kind
<1>8. kesp' \in [Task -> Addr] /\ \A t \in Task \ {c} : kesp'[t] = kesp[t]
  <2>1. task[c] \in {c, NULL} /\ kesp_local[c] \in Addr /\ kesp \in [Task -> Addr]
    BY <1>2, <1>4, InvFacts DEF LocalsInv
  <2> QED
    BY <1>1, <1>4, <2>1, Numbers
<1>9. RunningContext(current)'
  BY <1>1, <1>5, <1>7 DEF RunningContext
<1>10. \A t \in Live \ {c} : Resumable(t, kstack', kesp', kesp_local', esp0')
  BY <1>1, <1>4, <1>8 DEF Resumable, Live
<1>11. IInv'
  BY <1>1, <1>2, <1>3, <1>7, <1>8, <1>9, <1>10, InvFacts, EnterPreserves
<1>12. LocalsInv'
  BY <1>1, <1>2 DEF LocalsInv
<1> QED
  BY <1>11, <1>12, NotInCall

\* Steps of Sched happen outside of calls, as interrupts are off during them.
LEMMA OutsideKeeps ==
  ASSUME CallersDisable = TRUE, PIInv, boot \/ tick \/ wake \/ stopped
  PROVE  PIInv'
<1>1. ~InCall
  BY DEF boot, tick, wake, stopped, Preemptible, Interruptible, InCall, halted
<1>2. IInv /\ LocalsInv /\ UNCHANGED <<task, next>>
  BY <1>1 DEF PIInv, boot, tick, wake, stopped, Locals
<1>3. IInv'
  <2>1. CASE boot
    BY <1>2, <2>1, sched_init_Preserves, task_create_kworker_Preserves,
       task_create_init_proc_Preserves, sched_enable_Preserves DEF boot
  <2>2. CASE tick
    BY <1>1, <1>2, <2>2, timer_irq_Preserves DEF tick, timer_irq, Preemptible
  <2>3. CASE wake
    <3>1. PICK t \in Task : wakeup_irq(t)
      BY <1>1, <2>3 DEF wake, wakeup_irq, Preemptible
    <3> QED
      BY <1>2, <3>1, wakeup_irq_Preserves
  <2>4. CASE stopped
    BY <1>2, <2>4, UnchangedPreserves DEF stopped, halted
  <2> QED
    BY <2>1, <2>2, <2>3, <2>4
<1>4. LocalsInv'
  BY <1>2 DEF LocalsInv
<1> QED
  BY <1>3, <1>4, NotInCall

-----------------------------------------------------------------------------
(* What holds of every behaviour *)

LEMMA InitPIInv == PInit => PIInv
<1> SUFFICES ASSUME PInit PROVE PIInv
  OBVIOUS
<1>1. IInv
  BY InitEstablishes DEF PInit
<1>2. LocalsInv
  BY DEF PInit, LocalsInv
<1>3. ~InCall
  BY DEF PInit, Init, InCall
<1> QED
  BY <1>1, <1>2, <1>3 DEF PIInv

LEMMA StepKeeps ==
  ASSUME CallersDisable = TRUE
  PROVE  PIInv /\ [PNext]_pvars => PIInv'
<1> SUFFICES ASSUME PIInv, [PNext]_pvars PROVE PIInv'
  OBVIOUS
<1>1. CASE PNext
  BY <1>1, OutsideKeeps, SleepKeeps, YieldKeeps, YieldEndKeeps, PutKeeps, GetKeeps,
     SwitchKeeps, LeaveKeeps DEF PNext
<1>2. CASE UNCHANGED pvars
  <2>1. LocalsInv'
    BY <1>2 DEF PIInv, LocalsInv, pvars
  <2>2. CASE InCall
    <3>1. CallTypes' /\ CallTasks' /\ CallContext'
      BY <1>2, <2>2, CallFacts DEF CallTypes, CallTasks, CallContext, Live, Resumable, BottomFrame, pvars
    <3>2. Queued' = Queued /\ runq' = runq
      BY <1>2 DEF Queued, Waiting, pvars
    <3> QED
      BY <2>1, <2>2, <3>1, <3>2, CallFacts, StaysInCall
  <2>3. CASE ~InCall
    <3>1. IInv'
      BY <1>2, <2>3, UnchangedPreserves DEF PIInv, pvars, vars
    <3> QED
      BY <2>1, <3>1, NotInCall
  <2> QED
    BY <2>2, <2>3
<1> QED
  BY <1>1, <1>2

\* Between two steps of a call, too, everything is where it belongs.
THEOREM CallInvariance ==
  ASSUME CallersDisable = TRUE
  PROVE  PSpec => []PIInv
BY InitPIInv, StepKeeps, PTL DEF PSpec

\* No runnable task is lost or queued twice between two steps of schedule, for
\* any number of tasks, if the callers of yield and sleep disable interrupts.
THEOREM NothingLost ==
  ASSUME CallersDisable = TRUE
  PROVE  PSpec => []NoTaskLost
<1>1. ASSUME PIInv PROVE NoTaskLost
  <2>1. CASE InCall
    BY <1>1, <2>1 DEF PIInv
  <2>2. CASE ~InCall
    <3>1. Queued = Waiting
      BY <2>2 DEF InCall, Queued
    <3>2. idle # NULL => Holds(runq, Waiting)
      BY <1>1, <2>2, InvFacts DEF PIInv
    <3> QED
      BY <3>1, <3>2, LostIsQueued
  <2> QED
    BY <2>1, <2>2
<1> QED
  BY <1>1, CallInvariance, PTL

\* Outside of a call the processor runs the current task on its own stack.
THEOREM OwnContextWhenAtRest ==
  ASSUME CallersDisable = TRUE
  PROVE  PSpec => []OwnContextAtRest
<1>1. ASSUME PIInv PROVE OwnContextAtRest
  BY <1>1 DEF PIInv, OwnContextAtRest, IInv, ContextInv, RunningContext, OwnContext
<1> QED
  BY <1>1, CallInvariance, PTL
=============================================================================
