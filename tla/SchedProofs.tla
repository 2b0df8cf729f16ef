---------------------------- MODULE SchedProofs ----------------------------
(***************************************************************************)
(* Sched keeps its types, its run queue and the saved context of every     *)
(* task, for any number of tasks and any depth of kernel stacks, and it    *)
(* implements SchedAbs.                                                    *)
(***************************************************************************)
EXTENDS Sched, TLAPS, WellFoundedInduction, FiniteSetTheorems

-----------------------------------------------------------------------------
(* What the operations of klib/list.h do to a ring, for any set of cells and *)
(* any list.                                                                 *)

\* The links of a set of cells, whose pointers hold values of P.
Links(C, P) == [next : [C -> P], prev : [C -> P]]

\* A set of natural numbers that is not empty has a least element.
LEMMA LeastNat ==
  ASSUME NEW T, T \subseteq Nat, T # {}
  PROVE  \E x \in T : \A y \in T : x <= y
<1> DEFINE less == OpToRel(<, Nat)
<1>1. less = { p \in Nat \X Nat : p[1] < p[2] }
  BY Zenon DEF OpToRel
<1>2. IsWellFoundedOn(less, Nat)
  BY Zenon, NatLessThanWellFounded
<1> HIDE DEF less
<1>3. \A m, n \in Nat : m < n => <<m, n>> \in less
  BY <1>1
<1>4. PICK x \in T : \A y \in T : ~ (<<y, x>> \in less)
  BY <1>2, WFMin
<1>5. ASSUME NEW y \in T, y < x
      PROVE  FALSE
  <2>1. <<y, x>> \in less
    BY <1>3, <1>5
  <2> QED
    BY <1>4, <2>1
<1> QED
  BY <1>4, <1>5

\* list_init makes the empty ring.
LEMMA InitRing ==
  ASSUME NEW C, NEW P, NEW l \in Links(C, P), NEW h \in C, C \subseteq P
  PROVE  /\ list_init(l, h) \in Links(C, P)
         /\ Ring(list_init(l, h), h, <<>>)
BY DEF Links, list_init, Ring, Distinct, Chained, CycleAt

\* list_empty holds of a ring exactly when it has no nodes.
LEMMA EmptyRing ==
  ASSUME NEW C, NEW l, NEW h, NEW q \in Seq(C), Ring(l, h, q)
  PROVE  list_empty(l, h) <=> q = <<>>
<1>1. CASE q = <<>>
  BY <1>1 DEF Ring, Chained, CycleAt, list_empty
<1>2. CASE q # <<>>
  <2>1. Len(q) \in Nat /\ Len(q) >= 1
    BY <1>2
  <2>2. CycleAt(h, q, 0) = h /\ CycleAt(h, q, 0 + 1) = q[1] /\ 0 \in 0..Len(q)
    BY <2>1 DEF CycleAt
  <2>3. l.next[h] = q[1]
    BY <2>2 DEF Ring, Chained
  <2> QED
    BY <1>2, <2>1, <2>3 DEF Ring, list_empty
<1> QED
  BY <1>1, <1>2

\* list_add_tail appends a node that is outside the ring.
LEMMA AddTailRing ==
  ASSUME NEW C, NEW P, C \subseteq P,
         NEW l \in Links(C, P), NEW h \in C, NEW q \in Seq(C), Ring(l, h, q),
         NEW x \in C, x # h, \A i \in 1..Len(q) : q[i] # x
  PROVE  /\ list_add_tail(l, h, x) \in Links(C, P)
         /\ Ring(list_add_tail(l, h, x), h, Append(q, x))
<1> DEFINE n == Len(q)
           r == Append(q, x)
           k == list_add_tail(l, h, x)
           c(i) == CycleAt(h, q, i)
<1>1. n \in Nat /\ Len(r) = n + 1 /\ r[n + 1] = x /\ \A i \in 1..n : r[i] = q[i]
  OBVIOUS
<1>2. \A i \in 0..n : c(i) \in C /\ c(i) # x
  BY <1>1 DEF CycleAt
<1>3. l.prev[h] = c(n)
  BY <1>1 DEF Ring, Chained, CycleAt
<1>4. /\ k.next = [l.next EXCEPT ![x] = h, ![c(n)] = x]
      /\ k.prev = [l.prev EXCEPT ![h] = x, ![x] = c(n)]
  BY <1>3 DEF list_add_tail, list_add
<1>5. k \in Links(C, P)
  <2> HIDE DEF c
  <2>1. c(n) \in C
    BY <1>1, <1>2
  <2> QED
    BY <1>3, <2>1 DEF list_add_tail, list_add, Links
<1>6. \A i \in 0..(n - 1) : c(i) # c(n) /\ c(i + 1) # h
  BY <1>1 DEF Ring, Distinct, CycleAt
<1>7. Chained(k, h, r)
  <2> SUFFICES ASSUME NEW i \in 0..(n + 1)
               PROVE  /\ k.next[CycleAt(h, r, i)] = CycleAt(h, r, i + 1)
                      /\ k.prev[CycleAt(h, r, i + 1)] = CycleAt(h, r, i)
    BY <1>1 DEF Chained
  <2> HIDE DEF k
  <2>1. CASE i = n + 1
    <3>1. CycleAt(h, r, i) = x /\ CycleAt(h, r, i + 1) = h
      BY <1>1, <2>1 DEF CycleAt
    <3> QED
      BY <3>1, <1>1, <1>2, <1>4 DEF Links
  <2>2. CASE i = n
    <3>1. CycleAt(h, r, i) = c(n) /\ CycleAt(h, r, i + 1) = x
      BY <1>1, <2>2 DEF CycleAt
    <3> QED
      BY <3>1, <1>1, <1>2, <1>4 DEF Links
  <2>3. CASE i \in 0..(n - 1)
    <3>1. CycleAt(h, r, i) = c(i) /\ CycleAt(h, r, i + 1) = c(i + 1)
      BY <1>1, <2>3 DEF CycleAt
    <3>2. l.next[c(i)] = c(i + 1) /\ l.prev[c(i + 1)] = c(i)
      BY <1>1, <2>3 DEF Ring, Chained
    <3>3. i + 1 \in 0..n /\ i \in 0..n /\ n \in 0..n
      BY <1>1, <2>3
    <3> HIDE DEF c
    <3> QED
      BY <3>1, <3>2, <3>3, <1>2, <1>4, <1>6, <2>3 DEF Links
  <2> QED
    BY <1>1, <2>1, <2>2, <2>3
<1>8. Distinct(r) /\ \A i \in 1..Len(r) : r[i] # h
  BY <1>1 DEF Ring, Distinct
<1> QED
  BY <1>5, <1>7, <1>8 DEF Ring

\* Removing the first node of a ring leaves the ring of the others.
LEMMA RemoveFirstRing ==
  ASSUME NEW C, NEW P, C \subseteq P,
         NEW l \in Links(C, P), NEW h \in C, NEW q \in Seq(C), Ring(l, h, q), q # <<>>
  PROVE  /\ list_first(l, h) = q[1]
         /\ list_remove(l, q[1]) \in Links(C, P)
         /\ Ring(list_remove(l, q[1]), h, Tail(q))
<1> DEFINE n == Len(q)
           t == Tail(q)
           k == list_remove(l, q[1])
           c(i) == CycleAt(h, q, i)
<1>1. n \in Nat \ {0} /\ Len(t) = n - 1 /\ \A i \in 1..(n - 1) : t[i] = q[i + 1]
  OBVIOUS
<1>2. \A i \in 0..(n + 1) : c(i) \in C
  BY <1>1 DEF CycleAt
<1>3. \A i \in 0..n : l.next[c(i)] = c(i + 1) /\ l.prev[c(i + 1)] = c(i)
  BY <1>1 DEF Ring, Chained
<1>4. l.next[h] = q[1] /\ l.prev[q[1]] = h /\ l.next[q[1]] = c(2) /\ q[1] \in C /\ c(2) \in C
  <2>1. c(0) = h /\ c(1) = q[1] /\ 0 \in 0..n /\ 1 \in 0..n /\ 2 \in 0..(n + 1)
    BY <1>1 DEF CycleAt
  <2>2. l.next[c(0)] = c(0 + 1) /\ l.prev[c(0 + 1)] = c(0) /\ l.next[c(1)] = c(1 + 1)
    BY <1>3, <2>1
  <2> HIDE DEF c
  <2> QED
    BY <1>2, <2>1, <2>2
<1>5. /\ k.next = [l.next EXCEPT ![h] = c(2)]
      /\ k.prev = [l.prev EXCEPT ![c(2)] = h]
  BY <1>4 DEF list_remove
<1>6. k \in Links(C, P)
  <2> HIDE DEF c
  <2> QED
    BY <1>4 DEF list_remove, Links
<1>7. Distinct(t) /\ \A i \in 1..Len(t) : t[i] # h
  BY <1>1 DEF Ring, Distinct
<1>8. Chained(k, h, t)
  <2> SUFFICES ASSUME NEW i \in 0..(n - 1)
               PROVE  /\ k.next[CycleAt(h, t, i)] = CycleAt(h, t, i + 1)
                      /\ k.prev[CycleAt(h, t, i + 1)] = CycleAt(h, t, i)
    BY <1>1 DEF Chained
  <2>1. CycleAt(h, t, i + 1) = c(i + 2)
    BY <1>1 DEF CycleAt
  <2>2. CASE i = 0
    <3>1. CycleAt(h, t, i) = h /\ i + 2 = 2
      BY <2>2 DEF CycleAt
    <3> HIDE DEF c, k
    <3> QED
      BY <2>1, <3>1, <1>4, <1>5 DEF Links
  <2>3. CASE i # 0
    <3>1. CycleAt(h, t, i) = c(i + 1)
      BY <1>1, <2>3 DEF CycleAt
    <3>2. c(i + 1) # h
      BY <1>1, <2>3 DEF CycleAt, Ring
    <3>3. c(i + 2) # c(2)
      BY <1>1, <2>3 DEF CycleAt, Ring, Distinct
    <3>4. i + 1 \in 0..n /\ (i + 1) + 1 = i + 2 /\ i + 2 \in 0..(n + 1)
      BY <1>1
    <3> HIDE DEF c, k
    <3>5. l.next[c(i + 1)] = c(i + 2) /\ l.prev[c(i + 2)] = c(i + 1)
      BY <1>3, <3>4
    <3> QED
      BY <2>1, <3>1, <3>2, <3>3, <3>4, <3>5, <1>2, <1>4, <1>5 DEF Links
  <2> QED
    BY <2>2, <2>3
<1> QED
  BY <1>4, <1>6, <1>7, <1>8 DEF Ring, list_first

\* The links determine the list: there is one sequence of which they are the
\* ring.  The first place where two of them differed would follow a place where
\* they agree, and next of that has one value.
LEMMA RingUnique ==
  ASSUME NEW C, NEW l, NEW h, NEW q \in Seq(C), NEW r \in Seq(C),
         Ring(l, h, q), Ring(l, h, r)
  PROVE  q = r
<1> DEFINE m == Len(q)
           n == Len(r)
           D == { i \in Nat : /\ i <= m + 1 /\ i <= n + 1
                              /\ CycleAt(h, q, i) # CycleAt(h, r, i) }
<1>1. m \in Nat /\ n \in Nat
  OBVIOUS
<1>2. ASSUME D # {}
      PROVE  FALSE
  <2>1. PICK x \in D : \A y \in D : x <= y
    BY <1>2, LeastNat
  <2>2. x # 0
    BY <1>1 DEF CycleAt
  <2>3. x - 1 \in 0..m /\ x - 1 \in 0..n /\ x - 1 \notin D /\ (x - 1) + 1 = x
    BY <1>1, <2>1, <2>2
  <2>4. CycleAt(h, q, x - 1) = CycleAt(h, r, x - 1)
    BY <1>1, <2>3
  <2>5. /\ l.next[CycleAt(h, q, x - 1)] = CycleAt(h, q, x)
        /\ l.next[CycleAt(h, r, x - 1)] = CycleAt(h, r, x)
    BY <2>3 DEF Ring, Chained
  <2> QED
    BY <2>1, <2>4, <2>5
<1>3. m = n
  <2>1. CASE m < n
    <3>1. m + 1 \in 1..n /\ m + 1 \notin 1..m /\ m + 1 \notin D
      BY <1>1, <1>2, <2>1
    <3>2. CycleAt(h, q, m + 1) = h /\ CycleAt(h, r, m + 1) = r[m + 1] /\ r[m + 1] # h
      BY <3>1 DEF CycleAt, Ring
    <3> QED
      BY <1>1, <2>1, <3>1, <3>2
  <2>2. CASE n < m
    <3>1. n + 1 \in 1..m /\ n + 1 \notin 1..n /\ n + 1 \notin D
      BY <1>1, <1>2, <2>2
    <3>2. CycleAt(h, r, n + 1) = h /\ CycleAt(h, q, n + 1) = q[n + 1] /\ q[n + 1] # h
      BY <3>1 DEF CycleAt, Ring
    <3> QED
      BY <1>1, <2>2, <3>1, <3>2
  <2> QED
    BY <1>1, <2>1, <2>2
<1>4. ASSUME NEW i \in 1..m
      PROVE  q[i] = r[i]
  BY <1>1, <1>2, <1>3 DEF CycleAt
<1> QED
  BY <1>3, <1>4

-----------------------------------------------------------------------------
(* The run queue as a set *)

Cells == Node \cup {NULL}

\* The links l are a ring of exactly the tasks of the set w.
Holds(l, w) == \E q \in Seq(Task) : Ring(l, HEAD, q) /\ Elements(q) = w

LEMMA Numbers == /\ Task \subseteq Nat \ {0} /\ HEAD \notin Task /\ NULL \notin Task
                 /\ Node \subseteq Cells /\ HEAD \in Node /\ Task \subseteq Node
                 /\ HEAD # NULL
BY NTASKSAssumption DEF Task, Node, Cells, HEAD, NULL

\* A sequence of different tasks is no longer than the number of tasks.
LEMMA OrdersAreShort ==
  ASSUME NEW q \in Seq(Task), Distinct(q)
  PROVE  q \in Orders(Task, NTASKS)
<1>1. IsFiniteSet(Task) /\ Cardinality(Task) = NTASKS
  BY FS_Interval, NTASKSAssumption DEF Task
<1>2. IsFiniteSet(1..Len(q)) /\ Cardinality(1..Len(q)) = Len(q)
  <2>1. Len(q) \in Nat
    OBVIOUS
  <2> QED
    BY <2>1, FS_Interval
<1>3. q \in Injection(1..Len(q), Task)
  BY DEF Distinct, Injection, IsInjective
<1>4. Len(q) <= NTASKS
  BY <1>1, <1>2, <1>3, FS_Injection
<1>5. q \in [1..Len(q) -> Task] /\ Len(q) \in 0..NTASKS
  BY <1>4, NTASKSAssumption
<1> QED
  BY <1>5 DEF Orders

LEMMA OrdersAreSeqs ==
  ASSUME NEW q \in Orders(Task, NTASKS)
  PROVE  q \in Seq(Task)
<1>1. PICK k \in 0..NTASKS : q \in [1..k -> Task]
  BY DEF Orders
<1> QED
  BY <1>1, NTASKSAssumption

\* Holds is the bounded quantifier of RunqInv that TLC can evaluate.
LEMMA HoldsIsBounded ==
  ASSUME NEW l, NEW w
  PROVE  Holds(l, w) <=> \E q \in Orders(Task, NTASKS) : Ring(l, HEAD, q) /\ Elements(q) = w
BY OrdersAreShort, OrdersAreSeqs DEF Holds, Ring

LEMMA EnqueueHolds ==
  ASSUME NEW l \in Links(Node, Cells), NEW w, Holds(l, w), NEW t \in Task, t \notin w
  PROVE  /\ sched_enqueue(l, t) \in Links(Node, Cells)
         /\ Holds(sched_enqueue(l, t), w \cup {t})
<1>1. PICK q \in Seq(Task) : Ring(l, HEAD, q) /\ Elements(q) = w
  BY DEF Holds
<1>2. q \in Seq(Node) /\ t \in Node /\ t # HEAD /\ \A i \in 1..Len(q) : q[i] # t
  BY <1>1, Numbers DEF Elements
<1>3. /\ sched_enqueue(l, t) \in Links(Node, Cells)
      /\ Ring(sched_enqueue(l, t), HEAD, Append(q, t))
  BY <1>1, <1>2, Numbers, AddTailRing DEF sched_enqueue
<1>4. Append(q, t) \in Seq(Task) /\ Elements(Append(q, t)) = w \cup {t}
  <2>1. /\ Len(q) \in Nat /\ Len(Append(q, t)) = Len(q) + 1
        /\ Append(q, t)[Len(q) + 1] = t
        /\ \A i \in 1..Len(q) : Append(q, t)[i] = q[i]
    OBVIOUS
  <2> QED
    BY <1>1, <2>1 DEF Elements
<1> QED
  BY <1>3, <1>4 DEF Holds

LEMMA GetNextHolds ==
  ASSUME NEW l \in Links(Node, Cells), NEW w, Holds(l, w)
  PROVE  LET s == sched_get_next(l)
         IN  /\ s.runq \in Links(Node, Cells)
             /\ w = {} => s.task = idle /\ Holds(s.runq, w)
             /\ w # {} => s.task \in w /\ s.task \in Task /\ Holds(s.runq, w \ {s.task})
<1>1. PICK q \in Seq(Task) : Ring(l, HEAD, q) /\ Elements(q) = w
  BY DEF Holds
<1>2. q \in Seq(Node)
  BY DEF Node
<1>3. (list_empty(l, HEAD) <=> q = <<>>) /\ (w = {} <=> q = <<>>)
  <2>1. list_empty(l, HEAD) <=> q = <<>>
    BY <1>1, <1>2, EmptyRing
  <2>2. CASE q # <<>>
    <3>1. Len(q) \in Nat /\ 1 \in 1..Len(q)
      BY <2>2
    <3> QED
      BY <1>1, <2>1, <2>2, <3>1 DEF Elements
  <2>3. CASE q = <<>>
    BY <1>1, <2>1, <2>3 DEF Elements
  <2> QED
    BY <2>2, <2>3
<1>4. CASE w = {}
  BY <1>1, <1>3, <1>4 DEF sched_get_next, Holds
<1>5. CASE w # {}
  <2>1. /\ list_first(l, HEAD) = q[1]
        /\ list_remove(l, q[1]) \in Links(Node, Cells)
        /\ Ring(list_remove(l, q[1]), HEAD, Tail(q))
    BY <1>1, <1>2, <1>3, <1>5, Numbers, RemoveFirstRing
  <2>2. /\ Len(q) \in Nat \ {0} /\ Tail(q) \in Seq(Task) /\ Len(Tail(q)) = Len(q) - 1
        /\ \A i \in 1..(Len(q) - 1) : Tail(q)[i] = q[i + 1]
    BY <1>3, <1>5
  <2>3. q[1] \in Task /\ q[1] \in w
    BY <1>1, <2>2 DEF Elements
  <2>4. Elements(Tail(q)) = w \ {q[1]}
    <3>1. ASSUME NEW i \in 1..Len(Tail(q))
          PROVE  Tail(q)[i] \in w \ {q[1]}
      BY <1>1, <2>2, <3>1 DEF Elements, Ring, Distinct
    <3>2. ASSUME NEW x \in w \ {q[1]}
          PROVE  \E i \in 1..Len(Tail(q)) : Tail(q)[i] = x
      <4>1. PICK i \in 1..Len(q) : q[i] = x
        BY <1>1 DEF Elements
      <4>2. i - 1 \in 1..(Len(q) - 1) /\ Tail(q)[i - 1] = x
        BY <2>2, <4>1
      <4> QED
        BY <2>2, <4>2
    <3> QED
      BY <3>1, <3>2 DEF Elements
  <2>5. Holds(list_remove(l, q[1]), w \ {q[1]})
    BY <2>1, <2>2, <2>4 DEF Holds
  <2> QED
    BY <1>3, <1>5, <2>1, <2>3, <2>5 DEF sched_get_next
<1> QED
  BY <1>4, <1>5

\* schedule, with new task states st, from a queue of the waiting tasks: the
\* next task runs and the queue holds the tasks that wait for it.
LEMMA ScheduleHolds ==
  ASSUME runq \in Links(Node, Cells), current \in Cells, idle \in Task, current # HEAD,
         Holds(runq, Waiting), NEW st \in [Task -> TaskState], st[idle] = "RUNNING",
         \A t \in Task \ {current} : st[t] = state[t]
  PROVE  LET s == schedule(st)
         IN  /\ s.runq \in Links(Node, Cells)
             /\ s.task \in Task /\ st[s.task] = "RUNNING"
             /\ Holds(s.runq, { t \in Task : st[t] = "RUNNING" } \ {s.task, idle})
<1> DEFINE q == IF put_prev(current, st) THEN sched_enqueue(runq, current) ELSE runq
           w == { t \in Task : st[t] = "RUNNING" } \ {idle}
<1>1. current \in Task \cup {NULL}
  BY DEF Cells, Node
<1>2. q \in Links(Node, Cells) /\ Holds(q, w)
  <2>1. CASE put_prev(current, st)
    <3>1. current \in Task /\ st[current] = "RUNNING" /\ current # idle
      BY <1>1, <2>1, LowMemAssumption DEF put_prev
    <3>2. current \notin Waiting /\ Waiting \cup {current} = w
      BY <3>1 DEF Waiting
    <3> QED
      BY <2>1, <3>1, <3>2, EnqueueHolds
  <2>2. CASE ~ put_prev(current, st)
    <3>1. current \in Task => current = idle \/ st[current] # "RUNNING"
      BY <2>2, Numbers DEF put_prev
    <3>2. Waiting = w
      BY <1>1, <3>1, Numbers DEF Waiting
    <3> QED
      BY <2>2, <3>2
  <2> QED
    BY <2>1, <2>2
<1>3. schedule(st) = sched_get_next(q)
  BY DEF schedule
<1> HIDE DEF q
<1> DEFINE s == schedule(st)
<1>4. /\ s.runq \in Links(Node, Cells)
      /\ w = {} => s.task = idle /\ Holds(s.runq, w)
      /\ w # {} => s.task \in w /\ s.task \in Task /\ Holds(s.runq, w \ {s.task})
  BY <1>2, <1>3, GetNextHolds
<1> HIDE DEF s
<1>5. CASE w = {}
  <2>1. { t \in Task : st[t] = "RUNNING" } \ {s.task, idle} = w
    BY <1>4, <1>5
  <2> QED
    BY <1>4, <1>5, <2>1 DEF s
<1>6. CASE w # {}
  <2>1. { t \in Task : st[t] = "RUNNING" } \ {s.task, idle} = w \ {s.task}
    OBVIOUS
  <2> QED
    BY <1>4, <1>6, <2>1 DEF s
<1> QED
  BY <1>5, <1>6

-----------------------------------------------------------------------------
(* The slot of a new task *)

\* task_alloc finds an unused slot when there is one.
LEMMA FirstFreeIsFree == FreeSlots # {} => FirstFree \in FreeSlots
<1> SUFFICES ASSUME FreeSlots # {}
             PROVE  FirstFree \in FreeSlots
  OBVIOUS
<1>1. \E t \in FreeSlots : \A s \in FreeSlots : t <= s
  BY LeastNat, Numbers DEF FreeSlots
<1> QED
  BY <1>1 DEF FirstFree

-----------------------------------------------------------------------------
(* Leaving the kernel *)

Stacks == [Task -> [1..DEPTH -> Frame]]

\* intr_leave for a task that can be resumed: the task runs again where it
\* stood, and every other task is as resumable as before.
LEMMA LeaveResumes ==
  ASSUME NEW c \in Task, NEW stk \in Stacks, NEW ksp \in [Task -> Addr], NEW e0 \in Addr,
         Resumable(c, stk, ksp, kesp_local', e0),
         UNCHANGED initproc, initproc \in Task,
         intr_leave(c, stk, ksp, e0)
  PROVE  /\ kstack' \in Stacks /\ kesp' \in [Task -> Addr] /\ esp0' \in Addr
         /\ cpu' \in [mode : Kind, who : Task, esp : Addr]
         /\ RunningContext(c)'
         /\ \A t \in Task \ {c} :
              Resumable(t, stk, ksp, kesp_local', e0)
                => Resumable(t, kstack', kesp', kesp_local', esp0')
<1> DEFINE regs == stk[ksp[c][1]][ksp[c][2]]
           addr == IF regs.kind = "user" THEN e0 ELSE ksp[c]
           frame == stk[addr[1]][addr[2]]
           under == <<addr[1], addr[2] - 1>>
<1>1. /\ kstack' = stk
      /\ kesp' = [ksp EXCEPT ![c] = addr]
      /\ esp0' = IF regs.kind = "user" THEN under ELSE e0
      /\ cpu' = [mode |-> frame.kind, who |-> frame.who, esp |-> under]
  BY DEF intr_leave
<1>2. c # NULL /\ DEPTH \in Nat /\ DEPTH >= 2
  BY Numbers, DEPTHAssumption
<1>3. CASE ksp[c] = <<c, 1>> /\ stk[c][1] = BottomFrame(c)
  <2>1. regs = BottomFrame(c) /\ (regs.kind = "user" <=> c = initproc)
    BY <1>3 DEF BottomFrame
  <2>2. addr = <<c, 1>> /\ frame = BottomFrame(c) /\ under = <<c, 0>>
    BY <1>3, <2>1 DEF Resumable
  <2>3. kesp' = ksp
    BY <1>1, <1>3, <2>2
  <2> HIDE DEF regs, addr, frame, under
  <2>4. /\ cpu' = [mode |-> IF c = initproc THEN "user" ELSE "body", who |-> c, esp |-> <<c, 0>>]
        /\ esp0' = IF c = initproc THEN <<c, 0>> ELSE e0
    BY <1>1, <2>1, <2>2 DEF BottomFrame
  <2> QED
    BY <1>1, <1>2, <2>3, <2>4 DEF Resumable, RunningContext, Stacks, Addr, Kind
<1>4. CASE ksp[c] = <<c, 1>> /\ c # initproc /\ stk[c][1] = [kind |-> "ybody", who |-> c]
  <2>1. regs = [kind |-> "ybody", who |-> c] /\ addr = <<c, 1>> /\ frame = regs /\ under = <<c, 0>>
    BY <1>4
  <2>2. kesp' = ksp /\ esp0' = e0
    BY <1>1, <1>4, <2>1
  <2> HIDE DEF regs, addr, frame, under
  <2>3. cpu' = [mode |-> "ybody", who |-> c, esp |-> <<c, 0>>]
    BY <1>1, <2>1
  <2> QED
    BY <1>1, <1>2, <1>4, <2>2, <2>3 DEF Resumable, RunningContext, Stacks, Addr, Kind
<1>5. CASE /\ ksp[c] = <<c, 2>> /\ stk[c][1] = BottomFrame(c)
           /\ \/ stk[c][2] = [kind |-> "exc", who |-> c]
              \/ stk[c][2] = [kind |-> "ysys", who |-> c] /\ c = initproc /\ kesp_local'[c] = <<c, 1>>
  <2>1. /\ regs = stk[c][2] /\ regs.kind \in {"exc", "ysys"} /\ regs.who = c
        /\ regs.kind = "ysys" => c = initproc /\ kesp_local'[c] = <<c, 1>>
    BY <1>5
  <2>2. addr = <<c, 2>> /\ frame = regs /\ under = <<c, 1>>
    BY <1>5, <2>1
  <2>3. kesp' = ksp /\ esp0' = e0
    BY <1>1, <1>5, <2>1, <2>2
  <2> HIDE DEF regs, addr, frame, under
  <2>4. cpu' = [mode |-> regs.kind, who |-> c, esp |-> <<c, 1>>]
    BY <1>1, <2>1, <2>2
  <2>5. BottomFrame(c)' = BottomFrame(c)
    BY DEF BottomFrame
  <2> QED
    BY <1>1, <1>2, <1>5, <2>1, <2>3, <2>4, <2>5 DEF Resumable, RunningContext, Stacks, Addr, Kind
<1> QED
  BY <1>3, <1>4, <1>5 DEF Resumable

-----------------------------------------------------------------------------
(* Entering the kernel *)

\* What the inductive invariant says of the running task when interrupts, a
\* system call or yield find it.
Running == {"user", "body", "exc", "sys"}

LEMMA CurrentRuns ==
  ASSUME IInv, cpu.mode \in Mode \ {"boot", "halted"}
  PROVE  /\ current \in Task /\ idle \in Task /\ initproc \in Task /\ current \in Live
         /\ cpu.who = current /\ RunningContext(current)
         /\ state[current] = "RUNNING" /\ state[idle] = "RUNNING" /\ idle # initproc
         /\ initproc \in Live
         /\ \A t \in Live \ {current} : Resumable(t, kstack, kesp, kesp_local, esp0)
BY DEF IInv, TypeOK, TaskInv, ContextInv, RunningContext, Live

\* task_save_context leaves a frame that the running task can be resumed from,
\* and changes nothing that another task is resumed from.
LEMMA SaveMakesResumable ==
  ASSUME IInv, cpu.mode \in Running,
         NEW kind \in Kind,
         \/ cpu.mode \in {"user", "body", "exc"} /\ kind = cpu.mode
         \/ cpu.mode = "body" /\ kind = "ybody"
         \/ cpu.mode = "sys" /\ kind = "ysys",
         NEW loc \in [Task -> Addr],
         loc = IF kind \in {"ybody", "ysys"}
               THEN [kesp_local EXCEPT ![current] = kesp[current]] ELSE kesp_local
  PROVE  LET s == save_context(kind)
         IN  /\ s.kstack \in Stacks /\ s.kesp \in [Task -> Addr] /\ s.esp0 \in Addr
             /\ s.esp \in Addr
             /\ \A t \in Live : Resumable(t, s.kstack, s.kesp, loc, s.esp0)
<1> DEFINE c == current
           s == save_context(kind)
           top == IF cpu.mode = "user" THEN esp0 ELSE cpu.esp
           esp == <<top[1], top[2] + 1>>
<1>1. /\ c \in Task /\ cpu.who = c /\ RunningContext(c)
      /\ \A t \in Live \ {c} : Resumable(t, kstack, kesp, kesp_local, esp0)
  BY CurrentRuns DEF Running, Mode, Kind
<1>2. /\ s.esp = esp
      /\ s.kstack = [kstack EXCEPT ![top[1]][esp[2]] = [kind |-> kind, who |-> c]]
      /\ s.kesp = [kesp EXCEPT ![c] = esp]
      /\ s.esp0 = IF kind = "user" THEN esp ELSE esp0
  BY <1>1 DEF save_context
<1>3. /\ kstack \in Stacks /\ kesp \in [Task -> Addr] /\ esp0 \in Addr
      /\ kesp_local \in [Task -> Addr] /\ DEPTH \in Nat /\ DEPTH >= 2
  BY DEPTHAssumption DEF IInv, TypeOK, Stacks
<1> HIDE DEF s
<1>4. CASE cpu.mode \in {"user", "body"}
  <2>1. top = <<c, 0>> /\ esp = <<c, 1>>
    BY <1>1, <1>4 DEF RunningContext
  <2> HIDE DEF top, esp
  <2>2. /\ s.esp = <<c, 1>>
        /\ s.kstack = [kstack EXCEPT ![c][1] = [kind |-> kind, who |-> c]]
        /\ s.kesp = [kesp EXCEPT ![c] = <<c, 1>>]
        /\ s.esp0 = IF kind = "user" THEN <<c, 1>> ELSE esp0
        /\ IF kind = "user" THEN c = initproc ELSE c # initproc
    BY <1>1, <1>2, <1>4, <2>1 DEF RunningContext
  <2>3. s.kstack \in Stacks /\ s.kesp \in [Task -> Addr] /\ s.esp0 \in Addr /\ s.esp \in Addr
    BY <1>1, <1>3, <2>2 DEF Stacks, Addr, Frame
  <2>4. s.kstack[c][1] = [kind |-> kind, who |-> c] /\ s.kesp[c] = <<c, 1>>
    BY <1>1, <1>3, <2>2 DEF Stacks
  <2>5. Resumable(c, s.kstack, s.kesp, loc, s.esp0)
    BY <1>4, <2>2, <2>4 DEF Resumable, BottomFrame
  <2>6. ASSUME NEW t \in Live \ {c}
        PROVE  Resumable(t, s.kstack, s.kesp, loc, s.esp0)
    <3>1. t \in Task /\ Resumable(t, kstack, kesp, kesp_local, esp0)
      BY <1>1 DEF Live
    <3>2. s.kstack[t] = kstack[t] /\ s.kesp[t] = kesp[t] /\ loc[t] = kesp_local[t]
      BY <1>1, <1>3, <2>2, <3>1 DEF Stacks
    <3>3. t = initproc => s.esp0 = esp0
      BY <2>2
    <3> QED
      BY <3>1, <3>2, <3>3 DEF Resumable
  <2> QED
    BY <1>1, <2>3, <2>5, <2>6 DEF s
<1>5. CASE cpu.mode \in {"exc", "sys"}
  <2>1. top = <<c, 1>> /\ esp = <<c, 2>>
    BY <1>1, <1>5 DEF RunningContext
  <2> HIDE DEF top, esp
  <2>2. /\ s.esp = <<c, 2>>
        /\ s.kstack = [kstack EXCEPT ![c][2] = [kind |-> kind, who |-> c]]
        /\ s.kesp = [kesp EXCEPT ![c] = <<c, 2>>]
        /\ s.esp0 = esp0
        /\ kstack[c][1] = BottomFrame(c)
        /\ c = initproc => esp0 = <<c, 1>>
        /\ kind \in {"exc", "ysys"}
        /\ kind = "ysys" => c = initproc /\ loc[c] = <<c, 1>>
    BY <1>1, <1>2, <1>3, <1>5, <2>1 DEF RunningContext
  <2>3. s.kstack \in Stacks /\ s.kesp \in [Task -> Addr] /\ s.esp0 \in Addr /\ s.esp \in Addr
    BY <1>1, <1>3, <2>2 DEF Stacks, Addr, Frame
  <2>4. /\ s.kstack[c][2] = [kind |-> kind, who |-> c] /\ s.kesp[c] = <<c, 2>>
        /\ s.kstack[c][1] = BottomFrame(c)
    BY <1>1, <1>3, <2>2 DEF Stacks
  <2>5. Resumable(c, s.kstack, s.kesp, loc, s.esp0)
    BY <1>5, <2>2, <2>4 DEF Resumable
  <2>6. ASSUME NEW t \in Live \ {c}
        PROVE  Resumable(t, s.kstack, s.kesp, loc, s.esp0)
    <3>1. t \in Task /\ Resumable(t, kstack, kesp, kesp_local, esp0)
      BY <1>1 DEF Live
    <3>2. s.kstack[t] = kstack[t] /\ s.kesp[t] = kesp[t] /\ loc[t] = kesp_local[t]
      BY <1>1, <1>3, <2>2, <3>1 DEF Stacks
    <3>3. t = initproc => s.esp0 = esp0
      BY <2>2
    <3> QED
      BY <3>1, <3>2, <3>3 DEF Resumable
  <2> QED
    BY <1>1, <2>3, <2>5, <2>6 DEF s
<1> QED
  BY <1>4, <1>5 DEF Running

-----------------------------------------------------------------------------
(* The steps *)

LEMMA TypesOfQueue == TypeOK => runq \in Links(Node, Cells)
BY DEF TypeOK, Links, Cells

\* Every step that ends in intr_leave for the (new) current task.
LEMMA LeavePreserves ==
  ASSUME state' \in [Task -> TaskState], runq' \in Links(Node, Cells),
         Holds(runq', Waiting'), current' \in Task,
         UNCHANGED <<idle, initproc>>, idle \in Task, initproc \in Task, idle # initproc,
         state'[current'] = "RUNNING", state'[idle] = "RUNNING", initproc \in Live',
         NEW stk \in Stacks, NEW ksp \in [Task -> Addr], NEW e0 \in Addr,
         kesp_local' \in [Task -> Addr],
         \A t \in Live' : Resumable(t, stk, ksp, kesp_local', e0),
         intr_leave(current', stk, ksp, e0)
  PROVE  IInv'
<1>1. PICK c \in Task : c = current'
  OBVIOUS
<1>2. c \in Live' /\ Live' \subseteq Task /\ initproc' = initproc /\ idle' = idle
  BY <1>1 DEF Live
<1>3. intr_leave(c, stk, ksp, e0) /\ Resumable(c, stk, ksp, kesp_local', e0)
  BY <1>1, <1>2
<1>4. /\ kstack' \in Stacks /\ kesp' \in [Task -> Addr] /\ esp0' \in Addr
      /\ cpu' \in [mode : Kind, who : Task, esp : Addr]
      /\ RunningContext(c)'
      /\ \A t \in Task \ {c} :
           Resumable(t, stk, ksp, kesp_local', e0)
             => Resumable(t, kstack', kesp', kesp_local', esp0')
  BY <1>2, <1>3, LeaveResumes
<1>5. TypeOK'
  BY <1>1, <1>2, <1>4 DEF TypeOK, Stacks, Links, Cells, Mode
<1>6. TaskInv'
  BY <1>1, <1>2, <1>4, Numbers DEF TaskInv, Kind
<1>7. RunqInv'
  BY HoldsIsBounded DEF RunqInv
<1>8. ContextInv'
  <2>1. \A t \in Live' \ {c} : Resumable(t, kstack', kesp', kesp_local', esp0')
    BY <1>2, <1>4
  <2>2. RunningContext(current)'
    BY <1>1, <1>4 DEF RunningContext, BottomFrame
  <2> QED
    BY <1>1, <1>2, <2>1, <2>2 DEF ContextInv, Resumable, BottomFrame
<1> QED
  BY <1>5, <1>6, <1>7, <1>8 DEF IInv

\* The parts of the inductive invariant that a step uses.
LEMMA InvFacts ==
  ASSUME IInv
  PROVE  /\ runq \in Links(Node, Cells) /\ state \in [Task -> TaskState]
         /\ kesp_local \in [Task -> Addr] /\ kesp \in [Task -> Addr]
         /\ kstack \in Stacks /\ esp0 \in Addr /\ cpu.esp \in Addr
         /\ current \in Task \cup {NULL} /\ idle \in Task \cup {NULL}
         /\ initproc \in Task \cup {NULL}
         /\ idle # NULL => Holds(runq, Waiting)
BY HoldsIsBounded DEF IInv, TypeOK, RunqInv, Links, Cells, Stacks

\* Every step that calls schedule with the task states st.
LEMMA SwitchPreserves ==
  ASSUME IInv, idle # NULL, initproc # NULL,
         NEW st \in [Task -> TaskState], \A t \in Task \ {current} : st[t] = state[t],
         current # NULL => st[current] \in {"RUNNING", "SLEEP"} /\ (current = idle => st[current] = "RUNNING"),
         state' = st, runq' = schedule(st).runq, current' = schedule(st).task,
         UNCHANGED <<idle, initproc>>, kesp_local' \in [Task -> Addr],
         NEW stk \in Stacks, NEW ksp \in [Task -> Addr], NEW e0 \in Addr,
         \A t \in Live : Resumable(t, stk, ksp, kesp_local', e0),
         intr_leave(schedule(st).task, stk, ksp, e0)
  PROVE  IInv'
<1>1. /\ idle \in Task /\ initproc \in Task /\ idle # initproc /\ initproc \in Live
      /\ state[idle] = "RUNNING"
  BY InvFacts DEF IInv, TaskInv
<1>2. st[idle] = "RUNNING"
  BY <1>1
<1>3. current \in Cells /\ current # HEAD
  BY InvFacts, Numbers DEF Cells, Node
<1>4. /\ runq' \in Links(Node, Cells) /\ current' \in Task /\ state'[current'] = "RUNNING"
      /\ Holds(runq', { t \in Task : st[t] = "RUNNING" } \ {current', idle})
  BY <1>1, <1>2, <1>3, InvFacts, ScheduleHolds
<1>5. Holds(runq', Waiting')
  BY <1>4 DEF Waiting
<1>6. Live' = Live
  <2>1. current \in Task => state[current] = "RUNNING" /\ st[current] \in {"RUNNING", "SLEEP"}
    BY Numbers DEF IInv, TaskInv
  <2>2. \A t \in Task : st[t] \in {"RUNNING", "SLEEP"} <=> state[t] \in {"RUNNING", "SLEEP"}
    BY <2>1
  <2> QED
    BY <2>2 DEF Live
<1> QED
  BY <1>1, <1>2, <1>4, <1>5, <1>6, LeavePreserves

LEMMA sched_enable_Preserves == IInv /\ sched_enable => IInv'
<1> SUFFICES ASSUME IInv, sched_enable
             PROVE  IInv'
  OBVIOUS
<1>1. current = NULL /\ idle # NULL /\ initproc # NULL
  BY InvFacts DEF IInv, TaskInv, sched_enable
<1>2. \A t \in Live : Resumable(t, kstack, kesp, kesp_local, esp0)
  BY <1>1, Numbers DEF IInv, ContextInv, sched_enable, Live
<1>3. /\ runq' = schedule(state).runq /\ current' = schedule(state).task
      /\ intr_leave(schedule(state).task, kstack, kesp, esp0)
      /\ state' = state /\ kesp_local' = kesp_local /\ UNCHANGED <<idle, initproc>>
  BY DEF sched_enable
<1> QED
  BY <1>1, <1>2, <1>3, InvFacts, SwitchPreserves

LEMMA timer_irq_Preserves == IInv /\ timer_irq => IInv'
<1> SUFFICES ASSUME IInv, timer_irq
             PROVE  IInv'
  OBVIOUS
<1> DEFINE s == save_context(cpu.mode)
<1>1. cpu.mode \in {"user", "body", "exc"}
  BY DEF timer_irq, Interruptible
<1>2. current \in Task /\ current # NULL /\ idle # NULL /\ initproc # NULL /\ state[current] = "RUNNING"
  BY <1>1, CurrentRuns, Numbers DEF Mode, Kind
<1>3. /\ runq' = schedule(state).runq /\ current' = schedule(state).task
      /\ intr_leave(schedule(state).task, s.kstack, s.kesp, s.esp0)
      /\ state' = state /\ kesp_local' = kesp_local /\ UNCHANGED <<idle, initproc>>
  BY DEF timer_irq, irq_0
<1>4. /\ s.kstack \in Stacks /\ s.kesp \in [Task -> Addr] /\ s.esp0 \in Addr
      /\ \A t \in Live : Resumable(t, s.kstack, s.kesp, kesp_local, s.esp0)
  BY <1>1, InvFacts, SaveMakesResumable DEF Running, Kind
<1> HIDE DEF s
<1> QED
  BY <1>2, <1>3, <1>4, InvFacts, SwitchPreserves

\* yield and sleep, which differ in the states st that schedule finds.
LEMMA ReschedulePreserves ==
  ASSUME IInv, InKernel,
         NEW st \in [Task -> TaskState], \A t \in Task \ {current} : st[t] = state[t],
         st[current] \in {"RUNNING", "SLEEP"}, state' = st, Reschedule(st)
  PROVE  IInv'
<1> DEFINE kind == IF cpu.mode = "sys" THEN "ysys" ELSE "ybody"
           s == save_context(kind)
           loc == [kesp_local EXCEPT ![current] = kesp[current]]
<1>1. cpu.mode \in {"body", "sys"} /\ current # idle
  BY DEF InKernel
<1>2. current \in Task /\ current # NULL /\ idle # NULL /\ initproc # NULL
  BY <1>1, CurrentRuns, Numbers DEF Mode, Kind
<1>3. /\ runq' = schedule(st).runq /\ current' = schedule(st).task
      /\ intr_leave(schedule(st).task, s.kstack, s.kesp, s.esp0)
      /\ kesp_local' = loc /\ UNCHANGED <<idle, initproc>>
  BY DEF Reschedule
<1>4. loc \in [Task -> Addr]
  BY <1>2, InvFacts
<1>5. /\ s.kstack \in Stacks /\ s.kesp \in [Task -> Addr] /\ s.esp0 \in Addr
      /\ \A t \in Live : Resumable(t, s.kstack, s.kesp, loc, s.esp0)
  BY <1>1, <1>4, SaveMakesResumable DEF Running, Kind
<1> HIDE DEF s, loc
<1> QED
  BY <1>1, <1>2, <1>3, <1>4, <1>5, SwitchPreserves

LEMMA yield_Preserves == IInv /\ yield => IInv'
<1> SUFFICES ASSUME IInv, yield
             PROVE  IInv'
  OBVIOUS
<1>1. InKernel /\ Reschedule(state) /\ state' = state
  BY DEF yield
<1>2. state[current] = "RUNNING"
  BY <1>1, CurrentRuns DEF InKernel, Mode, Kind
<1> QED
  BY <1>1, <1>2, InvFacts, ReschedulePreserves

LEMMA sleep_Preserves == IInv /\ sleep => IInv'
<1> SUFFICES ASSUME IInv, sleep
             PROVE  IInv'
  OBVIOUS
<1> DEFINE st == [state EXCEPT ![current] = "SLEEP"]
<1>1. InKernel /\ state' = st /\ Reschedule(st)
  BY DEF sleep
<1>2. current \in Task
  BY <1>1, CurrentRuns DEF InKernel, Mode, Kind
<1>3. /\ st \in [Task -> TaskState] /\ st[current] = "SLEEP"
      /\ \A t \in Task \ {current} : st[t] = state[t]
  BY <1>2, InvFacts DEF TaskState
<1> HIDE DEF st
<1> QED
  BY <1>1, <1>3, ReschedulePreserves

\* device_irq, wakeup_irq and syscall_leave: the current task goes on.
LEMMA ResumePreserves ==
  ASSUME IInv, cpu.mode \in Running,
         state' \in [Task -> TaskState], Live' = Live, state'[current] = "RUNNING",
         state'[idle] = "RUNNING", runq' \in Links(Node, Cells), Holds(runq', Waiting'),
         UNCHANGED <<current, idle, initproc, kesp_local>>,
         NEW stk \in Stacks, NEW ksp \in [Task -> Addr], NEW e0 \in Addr,
         \A t \in Live : Resumable(t, stk, ksp, kesp_local, e0),
         intr_leave(current, stk, ksp, e0)
  PROVE  IInv'
<1>1. /\ current \in Task /\ idle \in Task /\ initproc \in Task /\ idle # initproc
      /\ initproc \in Live
  BY CurrentRuns DEF Running, Mode, Kind
<1>2. current' = current /\ idle' = idle /\ kesp_local' = kesp_local
  OBVIOUS
<1> QED
  BY <1>1, <1>2, InvFacts, LeavePreserves

LEMMA device_irq_Preserves == IInv /\ device_irq => IInv'
<1> SUFFICES ASSUME IInv, device_irq
             PROVE  IInv'
  OBVIOUS
<1> DEFINE s == save_context(cpu.mode)
<1>1. cpu.mode \in {"user", "body", "exc"} /\ cpu.mode \in Running
  BY DEF device_irq, Interruptible, Running
<1>2. idle # NULL /\ state[current] = "RUNNING" /\ state[idle] = "RUNNING"
  BY <1>1, CurrentRuns, Numbers DEF Mode, Kind
<1>3. /\ intr_leave(current, s.kstack, s.kesp, s.esp0)
      /\ UNCHANGED <<state, kesp_local, runq, current, idle, initproc>>
  BY DEF device_irq
<1>4. /\ s.kstack \in Stacks /\ s.kesp \in [Task -> Addr] /\ s.esp0 \in Addr
      /\ \A t \in Live : Resumable(t, s.kstack, s.kesp, kesp_local, s.esp0)
  BY <1>1, InvFacts, SaveMakesResumable DEF Running, Kind
<1>5. Live' = Live /\ Waiting' = Waiting
  BY <1>3 DEF Live, Waiting
<1> HIDE DEF s
<1> QED
  BY <1>1, <1>2, <1>3, <1>4, <1>5, InvFacts, ResumePreserves

\* wakeup of a sleeping task: it is live before and after, and not queued yet.
LEMMA WakeupHolds ==
  ASSUME IInv, NEW t \in Task, wakeup(t), UNCHANGED <<current, idle>>,
         cpu.mode \in Running
  PROVE  /\ state' \in [Task -> TaskState] /\ Live' = Live
         /\ state'[current] = "RUNNING" /\ state'[idle] = "RUNNING"
         /\ runq' \in Links(Node, Cells) /\ Holds(runq', Waiting')
<1>1. /\ current \in Task /\ idle \in Task /\ idle # NULL
      /\ state[current] = "RUNNING" /\ state[idle] = "RUNNING"
  BY CurrentRuns, Numbers DEF Running, Mode, Kind
<1>2. /\ state[t] = "SLEEP" /\ state' = [state EXCEPT ![t] = "RUNNING"]
      /\ runq' = sched_enqueue(runq, t)
  BY DEF wakeup
<1>3. t # current /\ t # idle /\ t \notin Waiting
  BY <1>1, <1>2 DEF Waiting
<1>4. state \in [Task -> TaskState]
  BY InvFacts
<1>5. Waiting' = Waiting \cup {t}
  BY <1>2, <1>3, <1>4 DEF Waiting
<1>6. runq' \in Links(Node, Cells) /\ Holds(runq', Waiting')
  BY <1>1, <1>2, <1>3, <1>5, InvFacts, EnqueueHolds
<1> QED
  BY <1>1, <1>2, <1>3, <1>4, <1>6 DEF Live, TaskState

LEMMA wakeup_irq_Preserves ==
  ASSUME IInv, NEW t \in Task, wakeup_irq(t)
  PROVE  IInv'
<1> DEFINE s == save_context(cpu.mode)
<1>1. cpu.mode \in {"user", "body", "exc"} /\ cpu.mode \in Running
  BY DEF wakeup_irq, Interruptible, Running
<1>2. /\ wakeup(t) /\ intr_leave(current, s.kstack, s.kesp, s.esp0)
      /\ UNCHANGED <<kesp_local, current, idle, initproc>>
  BY DEF wakeup_irq, irq_wakeup
<1>3. /\ s.kstack \in Stacks /\ s.kesp \in [Task -> Addr] /\ s.esp0 \in Addr
      /\ \A u \in Live : Resumable(u, s.kstack, s.kesp, kesp_local, s.esp0)
  BY <1>1, InvFacts, SaveMakesResumable DEF Running, Kind
<1>4. /\ state' \in [Task -> TaskState] /\ Live' = Live
      /\ state'[current] = "RUNNING" /\ state'[idle] = "RUNNING"
      /\ runq' \in Links(Node, Cells) /\ Holds(runq', Waiting')
  BY <1>1, <1>2, WakeupHolds
<1> HIDE DEF s
<1> QED
  BY <1>1, <1>2, <1>3, <1>4, ResumePreserves

LEMMA syscall_leave_Preserves == IInv /\ syscall_leave => IInv'
<1> SUFFICES ASSUME IInv, syscall_leave
             PROVE  IInv'
  OBVIOUS
<1>1. cpu.mode = "sys" /\ cpu.mode \in Running
  BY DEF syscall_leave, Running
<1>2. /\ current \in Task /\ idle # NULL /\ state[current] = "RUNNING" /\ state[idle] = "RUNNING"
      /\ RunningContext(current)
      /\ \A t \in Live \ {current} : Resumable(t, kstack, kesp, kesp_local, esp0)
  BY <1>1, CurrentRuns, Numbers DEF Mode, Kind
<1>3. Resumable(current, kstack, kesp, kesp_local, esp0)
  BY <1>1, <1>2 DEF RunningContext, Resumable
<1>4. /\ intr_leave(current, kstack, kesp, esp0)
      /\ UNCHANGED <<state, kesp_local, runq, current, idle, initproc>>
  BY DEF syscall_leave
<1>5. Live' = Live /\ Waiting' = Waiting
  BY <1>4 DEF Live, Waiting
<1> QED
  BY <1>1, <1>2, <1>3, <1>4, <1>5, InvFacts, ResumePreserves

\* PANIC, and a machine that is halted already.
LEMMA PanicPreserves == IInv /\ Panic => IInv'
<1> SUFFICES ASSUME IInv, Panic
             PROVE  IInv'
  OBVIOUS
<1>1. /\ cpu' = [cpu EXCEPT !.mode = "halted"]
      /\ UNCHANGED <<state, kesp, kstack, kesp_local, runq, current, idle, initproc, esp0>>
  BY DEF Panic
<1>2. cpu \in [mode : Mode, who : Task \cup {NULL}, esp : Addr]
  BY DEF IInv, TypeOK
<1>3. cpu' \in [mode : Mode, who : Task \cup {NULL}, esp : Addr] /\ cpu'.mode = "halted"
  BY <1>1, <1>2 DEF Mode
<1>4. TypeOK'
  BY <1>1, <1>3 DEF IInv, TypeOK
<1>5. TaskInv'
  BY <1>1, <1>3 DEF IInv, TaskInv, Live
<1>6. RunqInv'
  BY <1>1 DEF IInv, RunqInv, Waiting
<1>7. ContextInv'
  BY <1>3 DEF ContextInv
<1> QED
  BY <1>4, <1>5, <1>6, <1>7 DEF IInv

LEMMA UnchangedPreserves == IInv /\ UNCHANGED vars => IInv'
<1> SUFFICES ASSUME IInv, UNCHANGED vars
             PROVE  IInv'
  OBVIOUS
<1> USE DEF vars
<1>1. TypeOK'
  BY DEF IInv, TypeOK
<1>2. TaskInv'
  BY DEF IInv, TaskInv, Live
<1>3. RunqInv'
  BY DEF IInv, RunqInv, Waiting
<1>4. ContextInv'
  BY DEF IInv, ContextInv, Live, Resumable, RunningContext, BottomFrame
<1> QED
  BY <1>1, <1>2, <1>3, <1>4 DEF IInv

\* What a new task t adds to the state, in a slot that was unused.
LEMMA NewTaskTypes ==
  ASSUME IInv, NEW t \in Task, NEW kind \in {"user", "body"}, NewTask(t, kind)
  PROVE  /\ state' = [state EXCEPT ![t] = "RUNNING"] /\ state' \in [Task -> TaskState]
         /\ kstack' \in Stacks /\ kstack'[t][1] = [kind |-> kind, who |-> t]
         /\ kesp' \in [Task -> Addr] /\ kesp'[t] = <<t, 1>>
         /\ \A u \in Task \ {t} : kstack'[u] = kstack[u] /\ kesp'[u] = kesp[u]
<1>1. /\ state \in [Task -> TaskState] /\ kesp \in [Task -> Addr] /\ kstack \in Stacks
      /\ DEPTH \in Nat /\ DEPTH >= 2
  BY InvFacts, DEPTHAssumption
<1>2. <<t, 1>> \in Addr /\ [kind |-> kind, who |-> t] \in Frame /\ "RUNNING" \in TaskState
  BY <1>1 DEF Addr, Frame, Kind, TaskState
<1> QED
  BY <1>1, <1>2 DEF NewTask, Stacks

LEMMA task_create_kworker_Preserves == IInv /\ task_create_kworker => IInv'
<1> SUFFICES ASSUME IInv, task_create_kworker, FreeSlots # {}
             PROVE  IInv'
  BY PanicPreserves DEF task_create_kworker
<1>1. PICK t \in Task : t = FirstFree /\ state[t] = "UNUSED"
  BY FirstFreeIsFree DEF FreeSlots
<1>2. /\ idle # NULL /\ cpu.mode \in {"boot", "body", "sys"}
      /\ NewTask(t, "body") /\ runq' = sched_enqueue(runq, t)
      /\ UNCHANGED <<kesp_local, current, idle, initproc, esp0, cpu>>
  BY <1>1 DEF task_create_kworker, InKernel, Panic
<1>3. t # current /\ t # idle /\ t # initproc /\ t \notin Waiting /\ t \notin Live
  <2>1. initproc \in Live \/ initproc = NULL
    BY DEF IInv, TaskInv
  <2>2. current = NULL \/ state[current] = "RUNNING"
    BY DEF IInv, TaskInv
  <2>3. state[idle] = "RUNNING"
    BY <1>2 DEF IInv, TaskInv
  <2> QED
    BY <1>1, <2>1, <2>2, <2>3, Numbers DEF Live, Waiting
<1>4. /\ state' = [state EXCEPT ![t] = "RUNNING"] /\ state' \in [Task -> TaskState]
      /\ kstack' \in Stacks /\ kstack'[t][1] = [kind |-> "body", who |-> t]
      /\ kesp' \in [Task -> Addr] /\ kesp'[t] = <<t, 1>>
      /\ \A u \in Task \ {t} : kstack'[u] = kstack[u] /\ kesp'[u] = kesp[u]
  BY <1>1, <1>2, NewTaskTypes
<1>5. Waiting' = Waiting \cup {t} /\ Live' = Live \cup {t}
  BY <1>1, <1>2, <1>3, <1>4, InvFacts DEF Waiting, Live
<1>6. runq' \in Links(Node, Cells) /\ Holds(runq', Waiting')
  BY <1>1, <1>2, <1>3, <1>5, InvFacts, EnqueueHolds
<1>7. TypeOK'
  BY <1>2, <1>4, <1>6 DEF IInv, TypeOK, Stacks, Links, Cells
<1>8. TaskInv'
  <2>1. \A u \in Task : state[u] = "RUNNING" => state'[u] = "RUNNING"
    BY <1>4, InvFacts
  <2> QED
    BY <1>2, <1>5, <2>1, InvFacts DEF IInv, TaskInv
<1>9. RunqInv'
  BY <1>6, HoldsIsBounded DEF RunqInv
<1>10. ContextInv'
  <2>1. cpu' = cpu /\ initproc' = initproc /\ current' = current /\ kesp_local' = kesp_local /\ esp0' = esp0
    BY <1>2
  <2>2. cpu.mode # "halted" /\ Live \subseteq Task
    BY <1>2 DEF Live
  <2>3. Resumable(t, kstack', kesp', kesp_local, esp0)
    BY <1>3, <1>4 DEF Resumable, BottomFrame
  <2>4. ASSUME NEW u \in Live \ {current}
        PROVE  Resumable(u, kstack', kesp', kesp_local, esp0)
    <3>1. u \in Task \ {t} /\ Resumable(u, kstack, kesp, kesp_local, esp0)
      BY <1>3, <2>2 DEF IInv, ContextInv
    <3>2. kstack'[u] = kstack[u] /\ kesp'[u] = kesp[u]
      BY <1>4, <3>1
    <3> QED
      BY <3>1, <3>2 DEF Resumable
  <2>5. ASSUME cpu.mode # "boot"
        PROVE  RunningContext(current)'
    <3>1. current \in Task /\ current # t /\ RunningContext(current)
      BY <1>2, <1>3, <2>2, <2>5, CurrentRuns DEF Mode, Kind
    <3>2. kstack'[current] = kstack[current] /\ kesp'[current] = kesp[current]
      BY <1>4, <3>1
    <3> QED
      BY <2>1, <3>1, <3>2 DEF RunningContext, BottomFrame
  <2>6. \A u \in Live' \ {current'} : Resumable(u, kstack', kesp', kesp_local', esp0')
    BY <1>5, <2>1, <2>3, <2>4
  <2> QED
    BY <2>1, <2>5, <2>6 DEF ContextInv, Resumable, BottomFrame
<1> QED
  BY <1>7, <1>8, <1>9, <1>10 DEF IInv

LEMMA sched_init_Preserves == IInv /\ sched_init => IInv'
<1> SUFFICES ASSUME IInv, sched_init
             PROVE  IInv'
  OBVIOUS
<1> DEFINE l == list_init(runq, HEAD)
<1>1. /\ state = [u \in Task |-> "UNUSED"] /\ initproc = NULL /\ current = NULL
      /\ cpu.mode = "boot" /\ idle = NULL /\ Waiting = {} /\ Live = {}
  BY DEF IInv, TaskInv, sched_init, Waiting, Live
<1>2. PICK t \in Task : t = FirstFree
  <2>1. FreeSlots = Task /\ Task # {}
    BY <1>1, NTASKSAssumption DEF FreeSlots, Task
  <2> QED
    BY <2>1, FirstFreeIsFree
<1> DEFINE q == sched_enqueue(l, t)
<1>3. /\ NewTask(t, "body") /\ idle' = list_first(q, HEAD)
      /\ runq' = list_remove(q, list_first(q, HEAD))
      /\ UNCHANGED <<kesp_local, current, initproc, esp0, cpu>>
  BY <1>2 DEF sched_init
<1>4. l \in Links(Node, Cells) /\ Holds(l, {})
  <2>1. l \in Links(Node, Cells) /\ Ring(l, HEAD, <<>>)
    BY InvFacts, Numbers, InitRing
  <2>2. <<>> \in Seq(Task) /\ Elements(<<>>) = {}
    BY DEF Elements
  <2> QED
    BY <2>1, <2>2 DEF Holds
<1> HIDE DEF l
<1>5. q \in Links(Node, Cells) /\ Holds(q, {t})
  <2>1. q \in Links(Node, Cells) /\ Holds(q, {} \cup {t})
    BY <1>2, <1>4, EnqueueHolds
  <2> QED
    BY <2>1
<1> HIDE DEF q
<1>6. /\ sched_get_next(q).runq \in Links(Node, Cells) /\ sched_get_next(q).task = t
      /\ Holds(sched_get_next(q).runq, {})
  <2> DEFINE s == sched_get_next(q)
  <2>1. /\ s.runq \in Links(Node, Cells)
        /\ {t} # {} => s.task \in {t} /\ s.task \in Task /\ Holds(s.runq, {t} \ {s.task})
    BY <1>5, GetNextHolds
  <2> HIDE DEF s
  <2>2. s.task = t /\ {t} \ {s.task} = {}
    BY <2>1
  <2> QED
    BY <2>1, <2>2 DEF s
<1>7. ~ list_empty(q, HEAD)
  <2>1. PICK o \in Seq(Task) : Ring(q, HEAD, o) /\ Elements(o) = {t}
    BY <1>5 DEF Holds
  <2>2. o \in Seq(Node) /\ o # <<>>
    BY <2>1 DEF Elements, Node
  <2> QED
    BY <2>1, <2>2, EmptyRing
<1>8. idle' = t /\ runq' \in Links(Node, Cells) /\ Holds(runq', {})
  BY <1>3, <1>6, <1>7 DEF sched_get_next
<1>9. /\ state' = [state EXCEPT ![t] = "RUNNING"] /\ state' \in [Task -> TaskState]
      /\ kstack' \in Stacks /\ kstack'[t][1] = [kind |-> "body", who |-> t]
      /\ kesp' \in [Task -> Addr] /\ kesp'[t] = <<t, 1>>
  BY <1>2, <1>3, NewTaskTypes
<1>10. Waiting' = {} /\ Live' = {t} /\ t # NULL
  BY <1>1, <1>2, <1>8, <1>9, Numbers DEF Waiting, Live
<1>11. TypeOK'
  BY <1>2, <1>3, <1>8, <1>9 DEF IInv, TypeOK, Stacks, Links, Cells
<1>12. TaskInv'
  BY <1>1, <1>2, <1>3, <1>8, <1>9, <1>10 DEF TaskInv
<1>13. RunqInv'
  BY <1>8, <1>10, HoldsIsBounded DEF RunqInv
<1>14. ContextInv'
  BY <1>1, <1>3, <1>9, <1>10 DEF ContextInv, Resumable, BottomFrame
<1> QED
  BY <1>11, <1>12, <1>13, <1>14 DEF IInv

LEMMA task_create_init_proc_Preserves == IInv /\ task_create_init_proc => IInv'
<1> SUFFICES ASSUME IInv, task_create_init_proc, FreeSlots # {}
             PROVE  IInv'
  BY PanicPreserves DEF task_create_init_proc
<1>1. PICK t \in Task : t = FirstFree /\ state[t] = "UNUSED"
  BY FirstFreeIsFree DEF FreeSlots
<1>2. /\ cpu.mode = "boot" /\ idle # NULL /\ initproc = NULL
      /\ NewTask(t, "user") /\ initproc' = t /\ esp0' = <<t, 1>>
      /\ runq' = sched_enqueue(runq, t)
      /\ UNCHANGED <<kesp_local, current, idle, cpu>>
  BY <1>1 DEF task_create_init_proc
<1>3. current = NULL /\ t # NULL /\ t # idle /\ t \notin Waiting /\ t \notin Live /\ Live \subseteq Task
  <2>1. current = NULL /\ state[idle] = "RUNNING"
    BY <1>2 DEF IInv, TaskInv
  <2> QED
    BY <1>1, <2>1, Numbers DEF Live, Waiting
<1>4. /\ state' = [state EXCEPT ![t] = "RUNNING"] /\ state' \in [Task -> TaskState]
      /\ kstack' \in Stacks /\ kstack'[t][1] = [kind |-> "user", who |-> t]
      /\ kesp' \in [Task -> Addr] /\ kesp'[t] = <<t, 1>>
      /\ \A u \in Task \ {t} : kstack'[u] = kstack[u] /\ kesp'[u] = kesp[u]
  BY <1>1, <1>2, NewTaskTypes
<1>5. Waiting' = Waiting \cup {t} /\ Live' = Live \cup {t}
  BY <1>1, <1>2, <1>3, <1>4, InvFacts DEF Waiting, Live
<1>6. runq' \in Links(Node, Cells) /\ Holds(runq', Waiting')
  BY <1>1, <1>2, <1>3, <1>5, InvFacts, EnqueueHolds
<1>7. TypeOK'
  <2>1. esp0' \in Addr
    BY <1>1, <1>2, DEPTHAssumption DEF Addr
  <2> QED
    BY <1>1, <1>2, <1>4, <1>6, <2>1 DEF IInv, TypeOK, Stacks, Links, Cells
<1>8. TaskInv'
  <2>1. \A u \in Task : state[u] = "RUNNING" => state'[u] = "RUNNING"
    BY <1>4, InvFacts
  <2> QED
    BY <1>2, <1>3, <1>5, <2>1, InvFacts DEF IInv, TaskInv
<1>9. RunqInv'
  BY <1>6, HoldsIsBounded DEF RunqInv
<1>10. ContextInv'
  <2>1. \A u \in Live : Resumable(u, kstack, kesp, kesp_local, esp0) /\ u # t /\ u \in Task /\ u # NULL
    BY <1>2, <1>3, Numbers DEF IInv, ContextInv
  <2>2. cpu'.mode = "boot" /\ kesp_local' = kesp_local /\ initproc' = t /\ esp0' = <<t, 1>>
    BY <1>2
  <2>3. ContextInv' <=>
          \A u \in Live' \ {current'} :
            /\ u = t => esp0' = <<t, 1>>
            /\ \/ kesp'[u] = <<u, 1>> /\ kstack'[u][1] = BottomFrame(u)'
               \/ kesp'[u] = <<u, 1>> /\ u # t /\ kstack'[u][1] = [kind |-> "ybody", who |-> u]
               \/ /\ kesp'[u] = <<u, 2>> /\ kstack'[u][1] = BottomFrame(u)'
                  /\ kstack'[u][2] = [kind |-> "exc", who |-> u]
               \/ /\ kesp'[u] = <<u, 2>> /\ kstack'[u][1] = BottomFrame(u)'
                  /\ kstack'[u][2] = [kind |-> "ysys", who |-> u]
                  /\ u = t /\ kesp_local'[u] = <<u, 1>>
    BY <2>2 DEF ContextInv, Resumable, BottomFrame
  <2>4. \A u \in Live : BottomFrame(u)' = BottomFrame(u)
    BY <1>2, <2>1, <2>2 DEF BottomFrame
  <2>5. BottomFrame(t)' = [kind |-> "user", who |-> t]
    BY <2>2 DEF BottomFrame
  <2>6. ASSUME NEW u \in Live
        PROVE  /\ kstack'[u] = kstack[u] /\ kesp'[u] = kesp[u]
               /\ Resumable(u, kstack, kesp, kesp_local, esp0) /\ u # initproc
    BY <1>2, <1>4, <2>1, Numbers
  <2> QED
    BY <1>4, <1>5, <2>2, <2>3, <2>4, <2>5, <2>6 DEF Resumable
<1> QED
  BY <1>7, <1>8, <1>9, <1>10 DEF IInv

\* A step of the running task that leaves the others and the queue alone.
LEMMA EnterPreserves ==
  ASSUME IInv, cpu.mode \in Mode \ {"boot", "halted"},
         UNCHANGED <<state, runq, current, idle, initproc>>,
         kstack' \in Stacks, kesp' \in [Task -> Addr], kesp_local' \in [Task -> Addr],
         esp0' \in Addr, cpu' \in [mode : Kind \cup {"sys"}, who : Task \cup {NULL}, esp : Addr],
         RunningContext(current)',
         \A t \in Live \ {current} : Resumable(t, kstack', kesp', kesp_local', esp0')
  PROVE  IInv'
<1>1. TypeOK'
  BY DEF IInv, TypeOK, Stacks, Mode
<1>2. Live' = Live /\ Waiting' = Waiting
  BY DEF Live, Waiting
<1>3. TaskInv'
  BY <1>2, CurrentRuns, Numbers DEF IInv, TaskInv, Kind
<1>4. RunqInv'
  BY <1>2 DEF IInv, RunqInv
<1>5. ContextInv'
  BY <1>2 DEF ContextInv, Resumable, BottomFrame
<1> QED
  BY <1>1, <1>3, <1>4, <1>5 DEF IInv

LEMMA syscall_enter_Preserves == IInv /\ syscall_enter => IInv'
<1> SUFFICES ASSUME IInv, syscall_enter
             PROVE  IInv'
  OBVIOUS
<1> DEFINE s == save_context("user")
           c == current
<1>1. cpu.mode = "user"
  BY DEF syscall_enter
<1>2. c \in Task /\ cpu.who = c /\ c = initproc /\ esp0 = <<c, 0>>
  BY <1>1, CurrentRuns DEF Mode, Kind, RunningContext
<1>3. /\ kstack' = s.kstack /\ kesp' = s.kesp /\ esp0' = s.esp0
      /\ cpu' = [cpu EXCEPT !.mode = "sys", !.esp = s.esp]
      /\ UNCHANGED <<state, kesp_local, runq, current, idle, initproc>>
  BY DEF syscall_enter
<1>4. /\ s.kstack \in Stacks /\ s.kesp \in [Task -> Addr] /\ s.esp0 \in Addr /\ s.esp \in Addr
      /\ \A t \in Live : Resumable(t, s.kstack, s.kesp, kesp_local, s.esp0)
  BY <1>1, InvFacts, SaveMakesResumable DEF Running, Kind
<1>5. s.esp = <<c, 1>> /\ s.esp0 = <<c, 1>> /\ s.kesp[c] = <<c, 1>>
  BY <1>1, <1>2, InvFacts DEF save_context
<1>6. s.kstack[c][1] = BottomFrame(c)
  BY <1>1, <1>2, InvFacts, DEPTHAssumption DEF save_context, BottomFrame, Stacks
<1> HIDE DEF s
<1>7. cpu'.mode = "sys" /\ cpu'.esp = <<c, 1>> /\ cpu'.who = c /\ cpu' \in [mode : {"sys"}, who : Task, esp : Addr]
  BY <1>2, <1>3, <1>4, <1>5 DEF IInv, TypeOK
<1>8. RunningContext(current)'
  BY <1>2, <1>3, <1>5, <1>6, <1>7 DEF RunningContext, BottomFrame
<1>9. \A t \in Live \ {c} : Resumable(t, kstack', kesp', kesp_local', esp0')
  BY <1>3, <1>4
<1> QED
  BY <1>1, <1>3, <1>4, <1>7, <1>8, <1>9, InvFacts, EnterPreserves DEF Mode, Kind

LEMMA exception_Preserves == IInv /\ exception => IInv'
<1> SUFFICES ASSUME IInv, exception
             PROVE  IInv'
  OBVIOUS
<1> DEFINE s == save_context(cpu.mode)
           c == current
<1>1. cpu.mode \in {"user", "body"}
  BY DEF exception
<1>2. /\ c \in Task /\ cpu.who = c
      /\ cpu.mode = "user" => c = initproc /\ esp0 = <<c, 0>>
      /\ cpu.mode = "body" => c # initproc /\ cpu.esp = <<c, 0>>
  BY <1>1, CurrentRuns DEF Mode, Kind, RunningContext
<1>3. /\ kstack' = s.kstack /\ kesp' = s.kesp /\ esp0' = s.esp0
      /\ cpu' = [cpu EXCEPT !.mode = "exc", !.esp = s.esp]
      /\ UNCHANGED <<state, kesp_local, runq, current, idle, initproc>>
  BY DEF exception
<1>4. /\ s.kstack \in Stacks /\ s.kesp \in [Task -> Addr] /\ s.esp0 \in Addr /\ s.esp \in Addr
      /\ \A t \in Live : Resumable(t, s.kstack, s.kesp, kesp_local, s.esp0)
  BY <1>1, InvFacts, SaveMakesResumable DEF Running, Kind
<1>5. s.esp = <<c, 1>> /\ (c = initproc => s.esp0 = <<c, 1>>)
  BY <1>1, <1>2, InvFacts DEF save_context
<1>6. s.kstack[c][1] = BottomFrame(c)
  BY <1>1, <1>2, InvFacts, DEPTHAssumption DEF save_context, BottomFrame, Stacks
<1> HIDE DEF s
<1>7. cpu'.mode = "exc" /\ cpu'.esp = <<c, 1>> /\ cpu'.who = c /\ cpu' \in [mode : {"exc"}, who : Task, esp : Addr]
  BY <1>2, <1>3, <1>4, <1>5 DEF IInv, TypeOK
<1>8. RunningContext(current)'
  BY <1>2, <1>3, <1>5, <1>6, <1>7 DEF RunningContext, BottomFrame
<1>9. \A t \in Live \ {c} : Resumable(t, kstack', kesp', kesp_local', esp0')
  BY <1>3, <1>4
<1> QED
  BY <1>1, <1>3, <1>4, <1>7, <1>8, <1>9, InvFacts, EnterPreserves DEF Mode, Kind

LEMMA yield_return_Preserves == IInv /\ yield_return => IInv'
<1> SUFFICES ASSUME IInv, yield_return
             PROVE  IInv'
  OBVIOUS
<1> DEFINE c == current
<1>1. cpu.mode \in {"ybody", "ysys"} /\ cpu.mode \in Mode \ {"boot", "halted"}
  BY DEF yield_return, Mode, Kind
<1>2. /\ c \in Task /\ cpu.who = c /\ RunningContext(c)
      /\ \A t \in Live \ {c} : Resumable(t, kstack, kesp, kesp_local, esp0)
  BY <1>1, CurrentRuns
<1>3. /\ kesp' = [kesp EXCEPT ![c] = kesp_local[c]]
      /\ cpu' = [cpu EXCEPT !.mode = IF cpu.mode = "ysys" THEN "sys" ELSE "body"]
      /\ UNCHANGED <<state, kstack, kesp_local, runq, current, idle, initproc, esp0>>
  BY <1>2 DEF yield_return
<1>4. cpu \in [mode : Mode, who : Task \cup {NULL}, esp : Addr]
  BY DEF IInv, TypeOK
<1>5. /\ cpu' \in [mode : Kind \cup {"sys"}, who : Task \cup {NULL}, esp : Addr]
      /\ cpu'.mode = IF cpu.mode = "ysys" THEN "sys" ELSE "body"
      /\ cpu'.who = cpu.who /\ cpu'.esp = cpu.esp
  BY <1>3, <1>4 DEF Kind
<1>6. kesp' \in [Task -> Addr] /\ kesp'[c] = kesp_local[c] /\ \A t \in Task \ {c} : kesp'[t] = kesp[t]
  BY <1>2, <1>3, InvFacts
<1>7. RunningContext(current)'
  BY <1>1, <1>2, <1>3, <1>5, <1>6 DEF RunningContext, BottomFrame
<1>8. \A t \in Live \ {c} : Resumable(t, kstack', kesp', kesp_local', esp0')
  BY <1>2, <1>3, <1>6 DEF Resumable, Live
<1> QED
  BY <1>1, <1>3, <1>5, <1>6, <1>7, <1>8, InvFacts, EnterPreserves

LEMMA wakeup_call_Preserves ==
  ASSUME IInv, NEW t \in Task, wakeup_call(t)
  PROVE  IInv'
<1>1. cpu.mode \in Running /\ cpu.mode \in Mode \ {"boot", "halted"}
  BY DEF wakeup_call, InKernel, Running, Mode, Kind
<1>2. /\ wakeup(t)
      /\ UNCHANGED <<kesp, kstack, kesp_local, current, idle, initproc, esp0, cpu>>
  BY DEF wakeup_call
<1>3. /\ state' \in [Task -> TaskState] /\ Live' = Live
      /\ state'[current] = "RUNNING" /\ state'[idle] = "RUNNING"
      /\ runq' \in Links(Node, Cells) /\ Holds(runq', Waiting')
  BY <1>1, <1>2, WakeupHolds
<1>4. TypeOK'
  BY <1>2, <1>3 DEF IInv, TypeOK, Links, Cells
<1>5. TaskInv'
  BY <1>1, <1>2, <1>3, CurrentRuns, Numbers DEF IInv, TaskInv
<1>6. RunqInv'
  BY <1>3, HoldsIsBounded DEF RunqInv
<1>7. ContextInv'
  BY <1>2, <1>3 DEF IInv, ContextInv, Resumable, RunningContext, BottomFrame
<1> QED
  BY <1>4, <1>5, <1>6, <1>7 DEF IInv

LEMMA task_free_Preserves ==
  ASSUME IInv, NEW t \in Task, task_free(t)
  PROVE  IInv'
<1>1. cpu.mode \in Mode \ {"boot", "halted"}
  BY DEF task_free, InKernel, Mode, Kind
<1>2. /\ state[t] = "SLEEP" /\ t # initproc /\ state' = [state EXCEPT ![t] = "UNUSED"]
      /\ UNCHANGED <<kesp, kstack, kesp_local, runq, current, idle, initproc, esp0, cpu>>
  BY DEF task_free
<1>3. state[current] = "RUNNING" /\ state[idle] = "RUNNING" /\ current \in Task /\ idle \in Task
  BY <1>1, CurrentRuns
<1>4. /\ state' \in [Task -> TaskState] /\ state'[current] = "RUNNING" /\ state'[idle] = "RUNNING"
      /\ Live' = Live \ {t} /\ Waiting' = Waiting
  BY <1>2, <1>3, InvFacts DEF Live, Waiting, TaskState
<1>5. TypeOK'
  BY <1>2, <1>4 DEF IInv, TypeOK
<1>6. TaskInv'
  BY <1>1, <1>2, <1>3, <1>4, Numbers DEF IInv, TaskInv
<1>7. RunqInv'
  BY <1>2, <1>4 DEF IInv, RunqInv
<1>8. ContextInv'
  BY <1>2, <1>4 DEF IInv, ContextInv, Resumable, RunningContext, BottomFrame
<1> QED
  BY <1>5, <1>6, <1>7, <1>8 DEF IInv

-----------------------------------------------------------------------------
(* The theorems *)

LEMMA InitEstablishes == Init => IInv
<1> SUFFICES ASSUME Init
             PROVE  IInv
  OBVIOUS
<1>1. TypeOK
  BY DEPTHAssumption DEF Init, TypeOK, Addr, NoAddr, Frame, NoFrame, Mode, TaskState
<1>2. TaskInv /\ ContextInv /\ RunqInv
  BY DEF Init, TaskInv, ContextInv, RunqInv, Live
<1> QED
  BY <1>1, <1>2 DEF IInv

LEMMA NextPreserves == IInv /\ [Next]_vars => IInv'
<1> SUFFICES ASSUME IInv, Next
             PROVE  IInv'
  BY UnchangedPreserves
<1>1. CASE sched_init
  BY <1>1, sched_init_Preserves
<1>2. CASE task_create_kworker
  BY <1>2, task_create_kworker_Preserves
<1>3. CASE task_create_init_proc
  BY <1>3, task_create_init_proc_Preserves
<1>4. CASE sched_enable
  BY <1>4, sched_enable_Preserves
<1>5. CASE timer_irq
  BY <1>5, timer_irq_Preserves
<1>6. CASE device_irq
  BY <1>6, device_irq_Preserves
<1>7. CASE syscall_enter
  BY <1>7, syscall_enter_Preserves
<1>8. CASE syscall_leave
  BY <1>8, syscall_leave_Preserves
<1>9. CASE exception
  BY <1>9, exception_Preserves
<1>10. CASE exception_halt
  BY <1>10, PanicPreserves DEF exception_halt
<1>11. CASE yield
  BY <1>11, yield_Preserves
<1>12. CASE sleep
  BY <1>12, sleep_Preserves
<1>13. CASE yield_return
  BY <1>13, yield_return_Preserves
<1>14. ASSUME NEW t \in Task, wakeup_irq(t)
       PROVE  IInv'
  BY <1>14, wakeup_irq_Preserves
<1>15. ASSUME NEW t \in Task, wakeup_call(t)
       PROVE  IInv'
  BY <1>15, wakeup_call_Preserves
<1>16. ASSUME NEW t \in Task, task_free(t)
       PROVE  IInv'
  BY <1>16, task_free_Preserves
<1>17. CASE halted
  BY <1>17, UnchangedPreserves DEF halted
<1> QED
  BY <1>1, <1>2, <1>3, <1>4, <1>5, <1>6, <1>7, <1>8, <1>9, <1>10, <1>11, <1>12, <1>13,
     <1>14, <1>15, <1>16, <1>17 DEF Next

\* The inductive invariant holds of every behaviour of the scheduler.
THEOREM Invariance == Spec => []IInv
BY InitEstablishes, NextPreserves, PTL DEF Spec

\* Types are kept; in particular no kernel stack ever holds more than DEPTH
\* frames, for any DEPTH of at least two: interrupts, exceptions, system calls
\* and switches never nest deeper than two frames on one stack.
THEOREM TypeCorrect == Spec => []TypeOK
<1>1. IInv => TypeOK
  BY DEF IInv
<1> QED
  BY <1>1, Invariance, PTL

\* For any number of tasks: the run queue is an intact ring of exactly the
\* runnable tasks that wait, each once.
THEOREM QueueCorrect == Spec => []RunqInv
<1>1. IInv => RunqInv
  BY DEF IInv
<1> QED
  BY <1>1, Invariance, PTL

\* For any number of tasks: the processor runs the current task, on the current
\* task's stack.
THEOREM ContextCorrect == Spec => []OwnContext
<1>1. IInv => OwnContext
  BY DEF IInv, ContextInv, RunningContext, OwnContext
<1> QED
  BY <1>1, Invariance, PTL

\* For any number of tasks: ring 3 code is the init process, and the stack in
\* the TSS is its own and empty.
THEOREM TssCorrect == Spec => []TssInv
<1>1. IInv => TssInv
  BY DEF IInv, ContextInv, RunningContext, TssInv
<1> QED
  BY <1>1, Invariance, PTL

-----------------------------------------------------------------------------
(* The refinement of SchedAbs *)

\* The ring determines the abstract queue.
LEMMA QueueOf ==
  ASSUME NEW l, NEW q \in Seq(Task), Ring(l, HEAD, q)
  PROVE  (CHOOSE s \in Orders(Task, NTASKS) : Ring(l, HEAD, s)) = q
<1>1. q \in Orders(Task, NTASKS)
  BY OrdersAreShort DEF Ring
<1>2. ASSUME NEW s \in Orders(Task, NTASKS), Ring(l, HEAD, s)
      PROVE  s = q
  BY <1>2, OrdersAreSeqs, RingUnique
<1> QED
  BY <1>1, <1>2

\* The abstract queue is a sequence of the tasks that wait.
LEMMA QueueFacts ==
  ASSUME IInv, idle # NULL
  PROVE  Queue \in Seq(Task) /\ Ring(runq, HEAD, Queue) /\ Elements(Queue) = Waiting
<1>1. PICK q \in Orders(Task, NTASKS) : Ring(runq, HEAD, q) /\ Elements(q) = Waiting
  BY DEF IInv, RunqInv
<1>2. q \in Seq(Task)
  BY OrdersAreSeqs
<1>3. Queue = q
  BY <1>1, <1>2, QueueOf DEF Queue
<1> QED
  BY <1>1, <1>2, <1>3

LEMMA EnqueueAppends ==
  ASSUME NEW l \in Links(Node, Cells), NEW q \in Seq(Task), Ring(l, HEAD, q),
         NEW t \in Task, t \notin Elements(q)
  PROVE  /\ sched_enqueue(l, t) \in Links(Node, Cells)
         /\ Ring(sched_enqueue(l, t), HEAD, Append(q, t)) /\ Append(q, t) \in Seq(Task)
<1>1. q \in Seq(Node) /\ t \in Node /\ t # HEAD /\ \A i \in 1..Len(q) : q[i] # t
  BY Numbers DEF Elements, Node
<1>2. Append(q, t) \in Seq(Task)
  OBVIOUS
<1> QED
  BY <1>1, <1>2, Numbers, AddTailRing DEF sched_enqueue

LEMMA GetNextTakesFirst ==
  ASSUME NEW l \in Links(Node, Cells), NEW q \in Seq(Task), Ring(l, HEAD, q)
  PROVE  LET s == sched_get_next(l)
         IN  /\ q = <<>> => s.task = idle /\ Ring(s.runq, HEAD, q)
             /\ q # <<>> => /\ s.task = Head(q) /\ Tail(q) \in Seq(Task)
                            /\ Ring(s.runq, HEAD, Tail(q))
<1>1. q \in Seq(Node)
  BY DEF Node
<1>2. list_empty(l, HEAD) <=> q = <<>>
  BY <1>1, EmptyRing
<1>3. CASE q = <<>>
  BY <1>2, <1>3 DEF sched_get_next
<1>4. CASE q # <<>>
  <2>1. /\ list_first(l, HEAD) = q[1]
        /\ Ring(list_remove(l, q[1]), HEAD, Tail(q))
    BY <1>1, <1>4, Numbers, RemoveFirstRing
  <2> QED
    BY <1>2, <1>4, <2>1 DEF sched_get_next
<1> QED
  BY <1>3, <1>4

\* schedule with the task states st, as the abstract scheduler sees it: the
\* processor goes to the head of the line behind which the previous task was put.
LEMMA ScheduleDispatches ==
  ASSUME IInv, idle # NULL, NEW st \in [Task -> TaskState],
         runq' = schedule(st).runq, current' = schedule(st).task, UNCHANGED idle
  PROVE  Abs!DispatchFrom(IF put_prev(current, st) THEN Append(Queue, current) ELSE Queue)
<1> DEFINE l == IF put_prev(current, st) THEN sched_enqueue(runq, current) ELSE runq
           q == IF put_prev(current, st) THEN Append(Queue, current) ELSE Queue
<1>1. Queue \in Seq(Task) /\ Ring(runq, HEAD, Queue) /\ Elements(Queue) = Waiting
  BY QueueFacts
<1>2. runq \in Links(Node, Cells) /\ current \in Task \cup {NULL} /\ idle \in Task
  BY TypesOfQueue DEF IInv, TypeOK
<1>3. /\ l \in Links(Node, Cells) /\ q \in Seq(Task) /\ Ring(l, HEAD, q)
      /\ idle \notin Elements(q)
  <2>1. CASE put_prev(current, st)
    <3>1. current \in Task /\ current # idle
      BY <1>2, <2>1, LowMemAssumption DEF put_prev
    <3>2. current \notin Elements(Queue) /\ idle \notin Elements(Queue)
      BY <1>1 DEF Waiting
    <3>3. l \in Links(Node, Cells) /\ q \in Seq(Task) /\ Ring(l, HEAD, q)
      BY <1>1, <1>2, <2>1, <3>1, <3>2, EnqueueAppends
    <3>4. /\ Len(Queue) \in Nat /\ Len(q) = Len(Queue) + 1 /\ q[Len(Queue) + 1] = current
          /\ \A i \in 1..Len(Queue) : q[i] = Queue[i]
      BY <1>1, <2>1, <3>1
    <3>5. idle \notin Elements(q)
      BY <3>1, <3>2, <3>4 DEF Elements
    <3> QED
      BY <3>3, <3>5
  <2>2. CASE ~ put_prev(current, st)
    BY <1>1, <1>2, <2>2 DEF Waiting
  <2> QED
    BY <2>1, <2>2
<1>4. schedule(st) = sched_get_next(l)
  BY DEF schedule
<1> HIDE DEF l, q
<1>5. /\ q = <<>> => current' = idle /\ Ring(runq', HEAD, <<>>)
      /\ q # <<>> => current' = Head(q) /\ Tail(q) \in Seq(Task) /\ Ring(runq', HEAD, Tail(q))
  BY <1>3, <1>4, GetNextTakesFirst
<1>6. /\ q = <<>> => Queue' = <<>>
      /\ q # <<>> => Queue' = Tail(q)
  <2>1. <<>> \in Seq(Task)
    OBVIOUS
  <2>2. \A r \in Seq(Task) : Ring(runq', HEAD, r) => Queue' = r
    BY QueueOf DEF Queue
  <2> QED
    BY <1>5, <2>1, <2>2
<1>7. q # <<>> => Head(q) # idle
  <2>1. ASSUME q # <<>>
        PROVE  Head(q) # idle
    <3>1. Len(q) \in Nat /\ Head(q) = q[1] /\ 1 \in 1..Len(q)
      BY <1>3, <2>1
    <3> QED
      BY <1>3, <3>1 DEF Elements
  <2> QED
    BY <2>1
<1>8. Abs!DispatchFrom(q)
  BY <1>5, <1>6, <1>7 DEF Abs!DispatchFrom
<1> QED
  BY <1>8 DEF q

Asleep == { t \in Task : state[t] = "SLEEP" }

\* A step that touches neither queue nor states nor the current task is invisible.
LEMMA Invisible ==
  ASSUME UNCHANGED <<state, runq, current, idle>>
  PROVE  UNCHANGED Abs!avars
BY DEF Abs!avars, Queue

\* A task that is put at the end of the queue joins the end of the line.
LEMMA QueueGrows ==
  ASSUME IInv, idle # NULL, NEW t \in Task, t \notin Waiting,
         runq' = sched_enqueue(runq, t)
  PROVE  Queue' = Append(Queue, t)
<1>1. Queue \in Seq(Task) /\ Ring(runq, HEAD, Queue) /\ Elements(Queue) = Waiting
  BY QueueFacts
<1>2. runq \in Links(Node, Cells)
  BY TypesOfQueue DEF IInv
<1>3. Ring(runq', HEAD, Append(Queue, t)) /\ Append(Queue, t) \in Seq(Task)
  BY <1>1, <1>2, EnqueueAppends
<1>4. \A r \in Seq(Task) : Ring(runq', HEAD, r) => Queue' = r
  BY QueueOf DEF Queue
<1> QED
  BY <1>3, <1>4

\* Who the abstract scheduler knows: the tasks in a slot, but for idle.
LEMMA KnownTasks ==
  ASSUME IInv, idle # NULL, NEW t \in Task, state[t] = "UNUSED"
  PROVE  t \notin Abs!Known /\ t \notin Waiting
<1>1. Elements(Queue) = Waiting
  BY QueueFacts
<1>2. t \notin Waiting /\ t # current
  BY Numbers DEF Waiting, IInv, TaskInv
<1>3. Abs!Members(Queue) = Elements(Queue)
  BY DEF Abs!Members, Elements
<1> QED
  BY <1>1, <1>2, <1>3 DEF Abs!Known

LEMMA CreateIsSpawn ==
  ASSUME IInv, idle # NULL, FreeSlots # {},
         state' = [state EXCEPT ![FirstFree] = "RUNNING"],
         runq' = sched_enqueue(runq, FirstFree), UNCHANGED <<current, idle>>
  PROVE  Abs!ANext
<1>1. FirstFree \in Task /\ state[FirstFree] = "UNUSED" /\ state \in [Task -> TaskState]
  BY FirstFreeIsFree DEF FreeSlots, IInv, TypeOK
<1>2. FirstFree \notin Abs!Known /\ Queue' = Append(Queue, FirstFree)
  BY <1>1, KnownTasks, QueueGrows
<1>3. Asleep' = Asleep
  BY <1>1 DEF Asleep
<1>4. Abs!Spawn(FirstFree)
  BY <1>2, <1>3 DEF Abs!Spawn, Asleep
<1> QED
  BY <1>1, <1>4 DEF Abs!ANext

\* A scheduling point with unchanged task states.
LEMMA SwitchIsReschedule ==
  ASSUME IInv, idle # NULL, UNCHANGED <<state, idle>>,
         runq' = schedule(state).runq, current' = schedule(state).task
  PROVE  Abs!ANext
<1>1. state \in [Task -> TaskState] /\ current \in Task \cup {NULL} /\ idle \in Task
  BY DEF IInv, TypeOK
<1>2. put_prev(current, state) <=> current # NULL /\ current # idle
  BY <1>1, LowMemAssumption, Numbers DEF put_prev, IInv, TaskInv
<1>3. Abs!DispatchFrom(IF put_prev(current, state) THEN Append(Queue, current) ELSE Queue)
  BY <1>1, ScheduleDispatches
<1>4. Abs!Reschedule
  <2>1. CASE current # NULL /\ current # idle
    BY <1>2, <1>3, <2>1 DEF Abs!Reschedule
  <2>2. CASE current = NULL \/ current = idle
    BY <1>2, <1>3, <2>2 DEF Abs!Reschedule
  <2> QED
    BY <2>1, <2>2
<1> QED
  BY <1>4 DEF Abs!ANext

LEMMA SleepIsBlock ==
  ASSUME IInv, sleep
  PROVE  Abs!ANext
<1>1. current # idle /\ cpu.mode \in Mode \ {"boot", "halted"}
  BY DEF sleep, InKernel, Mode, Kind
<1>2. current \in Task /\ idle \in Task
  BY <1>1, CurrentRuns
<1>3. /\ state' = [state EXCEPT ![current] = "SLEEP"] /\ UNCHANGED idle
      /\ runq' = schedule(state').runq /\ current' = schedule(state').task
  BY DEF sleep, Reschedule
<1>4. state \in [Task -> TaskState] /\ state' \in [Task -> TaskState] /\ state'[current] = "SLEEP"
  BY <1>2, <1>3 DEF IInv, TypeOK, TaskState
<1>5. ~ put_prev(current, state')
  BY <1>2, <1>4, Numbers DEF put_prev
<1>6. Abs!DispatchFrom(Queue)
  <2>1. Abs!DispatchFrom(IF put_prev(current, state') THEN Append(Queue, current) ELSE Queue)
    BY <1>2, <1>3, <1>4, Numbers, ScheduleDispatches
  <2> QED
    BY <1>5, <2>1
<1>7. Asleep' = Asleep \cup {current}
  BY <1>2, <1>3, <1>4 DEF Asleep
<1>8. Abs!Block
  BY <1>1, <1>2, <1>6, <1>7, Numbers DEF Abs!Block, Asleep
<1> QED
  BY <1>8 DEF Abs!ANext

LEMMA WakeupIsWake ==
  ASSUME IInv, NEW t \in Task, wakeup(t), idle # NULL, UNCHANGED <<current, idle>>
  PROVE  Abs!ANext
<1>1. /\ state[t] = "SLEEP" /\ state' = [state EXCEPT ![t] = "RUNNING"]
      /\ runq' = sched_enqueue(runq, t) /\ state \in [Task -> TaskState]
  BY DEF wakeup, IInv, TypeOK
<1>2. Queue' = Append(Queue, t)
  BY <1>1, QueueGrows DEF Waiting
<1>3. t \in Asleep /\ Asleep' = Asleep \ {t}
  BY <1>1 DEF Asleep
<1>4. Abs!Wake(t)
  BY <1>2, <1>3 DEF Abs!Wake, Asleep
<1> QED
  BY <1>4 DEF Abs!ANext

\* Setting up idle is invisible: the queue is empty before and after.
LEMMA InitIsInvisible ==
  ASSUME IInv, IInv', sched_init
  PROVE  UNCHANGED Abs!avars
<1>1. idle = NULL /\ current = NULL /\ state = [t \in Task |-> "UNUSED"]
  BY DEF sched_init, IInv, TaskInv
<1>2. FirstFree \in Task
  BY <1>1, FirstFreeIsFree, NTASKSAssumption DEF FreeSlots, Task
<1>3. state' = [state EXCEPT ![FirstFree] = "RUNNING"] /\ current' = current
  BY DEF sched_init, NewTask
<1>4. idle' # NULL
  BY <1>1, <1>2, <1>3 DEF IInv, TaskInv
<1>5. Waiting' = {} /\ Asleep' = Asleep
  <2>1. state'[idle'] = "RUNNING" /\ idle' \in Task
    BY <1>4 DEF IInv, TaskInv, TypeOK
  <2>2. idle' = FirstFree
    BY <1>1, <1>2, <1>3, <2>1
  <2> QED
    BY <1>1, <1>2, <1>3, <2>2 DEF Waiting, Asleep
<1>6. Queue' = <<>>
  <2>1. PICK q \in Orders(Task, NTASKS) : Ring(runq', HEAD, q) /\ Elements(q) = Waiting'
    BY <1>4 DEF IInv, RunqInv
  <2>2. q \in Seq(Task) /\ Queue' = q
    BY <2>1, OrdersAreSeqs, QueueOf DEF Queue
  <2>3. q = <<>>
    BY <1>5, <2>1, <2>2 DEF Elements
  <2> QED
    BY <2>2, <2>3
<1> QED
  BY <1>1, <1>3, <1>4, <1>5, <1>6, Numbers DEF Abs!avars, Asleep

LEMMA RefinementStep ==
  ASSUME IInv, IInv', Next
  PROVE  [Abs!ANext]_(Abs!avars)
<1>1. CASE sched_init
  BY <1>1, InitIsInvisible
<1>2. CASE task_create_kworker
  <2>1. CASE FreeSlots = {} /\ Panic
    BY <2>1, Invisible DEF Panic
  <2> QED
    BY <1>2, <2>1, CreateIsSpawn DEF task_create_kworker, NewTask
<1>3. CASE task_create_init_proc
  <2>1. CASE FreeSlots = {} /\ Panic
    BY <2>1, Invisible DEF Panic
  <2> QED
    BY <1>3, <2>1, CreateIsSpawn DEF task_create_init_proc, NewTask
<1>4. CASE sched_enable
  <2>1. idle # NULL
    BY <1>4 DEF sched_enable, IInv, TaskInv
  <2> QED
    BY <1>4, <2>1, SwitchIsReschedule DEF sched_enable
<1>5. ASSUME timer_irq \/ yield
      PROVE  Abs!ANext
  <2>1. cpu.mode \in Mode \ {"boot", "halted"}
    BY <1>5 DEF timer_irq, yield, Interruptible, InKernel, Mode, Kind
  <2>2. idle # NULL
    BY <2>1, CurrentRuns, Numbers
  <2> QED
    BY <1>5, <2>2, SwitchIsReschedule DEF timer_irq, irq_0, yield, Reschedule
<1>6. CASE sleep
  BY <1>6, SleepIsBlock
<1>7. ASSUME NEW t \in Task, wakeup_irq(t) \/ wakeup_call(t)
      PROVE  Abs!ANext
  <2>1. cpu.mode \in Mode \ {"boot", "halted"}
    BY <1>7 DEF wakeup_irq, wakeup_call, Interruptible, InKernel, Mode, Kind
  <2>2. idle # NULL
    BY <2>1, CurrentRuns, Numbers
  <2> QED
    BY <1>7, <2>2, WakeupIsWake DEF wakeup_irq, irq_wakeup, wakeup_call
<1>8. ASSUME NEW t \in Task, task_free(t)
      PROVE  Abs!ANext
  <2>1. /\ state[t] = "SLEEP" /\ state' = [state EXCEPT ![t] = "UNUSED"]
        /\ state \in [Task -> TaskState] /\ UNCHANGED <<runq, current, idle>>
    BY <1>8 DEF task_free, IInv, TypeOK
  <2>2. t \in Asleep /\ Asleep' = Asleep \ {t} /\ Queue' = Queue
    BY <2>1 DEF Asleep, Queue
  <2>3. Abs!Forget(t)
    BY <2>1, <2>2 DEF Abs!Forget, Asleep
  <2> QED
    BY <2>3 DEF Abs!ANext
<1>9. ASSUME \/ device_irq \/ syscall_enter \/ syscall_leave \/ exception
             \/ exception_halt \/ yield_return \/ halted
      PROVE  UNCHANGED Abs!avars
  BY <1>9, Invisible DEF device_irq, syscall_enter, syscall_leave, exception,
     exception_halt, Panic, yield_return, halted, vars
<1> QED
  BY <1>1, <1>2, <1>3, <1>4, <1>5, <1>6, <1>7, <1>8, <1>9 DEF Next

\* For any number of tasks: the scheduler built from the ring, the task states
\* and the context switch is first come, first served; each step of it is a step
\* of SchedAbs or invisible.
THEOREM Refinement == Spec => Implements
<1>1. Init => Abs!AInit
  BY DEF Init, Abs!AInit
<1>2. IInv /\ IInv' /\ [Next]_vars => [Abs!ANext]_(Abs!avars)
  BY RefinementStep, Invisible DEF vars
<1> QED
  BY <1>1, <1>2, Invariance, PTL DEF Spec, Implements, Abs!ASpec
=============================================================================
