----------------------------- MODULE KlibProofs -----------------------------
(***************************************************************************)
(* Klib for any nodes, memories, alphabets, widths of types, printing      *)
(* tasks and lengths of lines: a list is the sequence of what was added    *)
(* and not removed, every function of string.c does what C says or differs *)
(* where Differs tells, what vsprintf writes of an argument reads back as  *)
(* the argument, and calls of dbg_printf that are not mixed send their     *)
(* lines.                                                                  *)
(***************************************************************************)
EXTENDS Klib, FiniteSetTheorems, WellFoundedInduction, TLAPS

-----------------------------------------------------------------------------
(* What the operations of klib/list.h do to a ring, wherever in it.          *)

\* The links of a set of cells, whose pointers hold values of P.
Links(C, P) == [next : [C -> P], prev : [C -> P]]

\* The list r is q with x put in behind the first j nodes.
Inserted(q, j, x, r) ==
  /\ j \in 0..Len(q) /\ Len(r) = Len(q) + 1
  /\ \A i \in 1..j : r[i] = q[i]
  /\ r[j + 1] = x
  /\ \A i \in (j + 1)..Len(q) : r[i + 1] = q[i]

\* The nodes of both around the new one, the head before and behind them.
LEMMA CyclesMatch ==
  ASSUME NEW C, NEW h, NEW q \in Seq(C), NEW r \in Seq(C), NEW j, NEW x, Inserted(q, j, x, r)
  PROVE  /\ Len(q) \in Nat /\ j \in Nat /\ j <= Len(q) /\ Len(r) = Len(q) + 1
         /\ \A i \in 0..j : CycleAt(h, r, i) = CycleAt(h, q, i)
         /\ CycleAt(h, r, j + 1) = x
         /\ \A i \in (j + 1)..(Len(q) + 1) : CycleAt(h, r, i + 1) = CycleAt(h, q, i)
<1>1. Len(q) \in Nat /\ Len(r) = Len(q) + 1 /\ j \in 0..Len(q)
  BY DEF Inserted
<1>2. \A i \in 0..j : CycleAt(h, r, i) = CycleAt(h, q, i)
  BY <1>1 DEF Inserted, CycleAt
<1>3. CycleAt(h, r, j + 1) = x
  BY <1>1 DEF Inserted, CycleAt
<1>4. \A i \in (j + 1)..(Len(q) + 1) : CycleAt(h, r, i + 1) = CycleAt(h, q, i)
  BY <1>1 DEF Inserted, CycleAt
<1> QED
  BY <1>1, <1>2, <1>3, <1>4

\* A node of a ring follows one node only, and comes before one only.
LEMMA OncePerRound ==
  ASSUME NEW C, NEW l, NEW h, NEW q \in Seq(C), Ring(l, h, q),
         NEW i \in 0..Len(q), NEW k \in 0..Len(q), i # k
  PROVE  /\ CycleAt(h, q, i) # CycleAt(h, q, k)
         /\ CycleAt(h, q, i + 1) # CycleAt(h, q, k + 1)
BY DEF Ring, Distinct, CycleAt

\* __list_add between two neighbours of a ring puts the node in between.
LEMMA AddRing ==
  ASSUME NEW C, NEW P, C \subseteq P, NEW l \in Links(C, P), NEW h \in C,
         NEW q \in Seq(C), NEW r \in Seq(C), NEW j, NEW x \in C, Inserted(q, j, x, r),
         Ring(l, h, q), x # h, \A i \in 1..Len(q) : q[i] # x
  PROVE  LET k == list_add(l, CycleAt(h, q, j), CycleAt(h, q, j + 1), x)
         IN  k \in Links(C, P) /\ Ring(k, h, r)
<1> DEFINE n == Len(q)
           c(i) == CycleAt(h, q, i)
           d(i) == CycleAt(h, r, i)
           k == list_add(l, c(j), c(j + 1), x)
<1>1. /\ n \in Nat /\ j \in Nat /\ j <= n /\ Len(r) = n + 1
      /\ \A i \in 0..j : d(i) = c(i)
      /\ d(j + 1) = x
      /\ \A i \in (j + 1)..(n + 1) : d(i + 1) = c(i)
  BY CyclesMatch
<1>2. \A i \in 0..(n + 1) : c(i) \in C /\ c(i) # x
  BY <1>1 DEF CycleAt
<1>3. \A i \in 0..n : l.next[c(i)] = c(i + 1) /\ l.prev[c(i + 1)] = c(i)
  BY DEF Ring, Chained
<1>4. \A i \in 0..n : i # j => c(i) # c(j) /\ c(i + 1) # c(j + 1)
  BY <1>1, OncePerRound
<1>5. Distinct(r) /\ \A i \in 1..Len(r) : r[i] # h
  <2>1. \A i \in 1..(n + 1) : \/ (i = j + 1 /\ r[i] = x)
                             \/ /\ i # j + 1
                                /\ \E m \in 1..n : r[i] = q[m] /\ i = (IF m <= j THEN m ELSE m + 1)
    <3>1. ASSUME NEW i \in 1..(n + 1), i <= j
          PROVE  \E m \in 1..n : r[i] = q[m] /\ i = (IF m <= j THEN m ELSE m + 1)
      BY <1>1, <3>1 DEF Inserted
    <3>2. ASSUME NEW i \in 1..(n + 1), i > j + 1
          PROVE  \E m \in 1..n : r[i] = q[m] /\ i = (IF m <= j THEN m ELSE m + 1)
      <4>1. i - 1 \in (j + 1)..n /\ i - 1 \in 1..n /\ (i - 1) + 1 = i /\ ~ (i - 1 <= j)
        BY <1>1, <3>2
      <4>2. r[(i - 1) + 1] = q[i - 1]
        BY <4>1 DEF Inserted
      <4> QED
        BY <4>1, <4>2
    <3>3. r[j + 1] = x
      BY DEF Inserted
    <3> QED
      BY <1>1, <3>1, <3>2, <3>3
  <2>2. \A i \in 1..(n + 1) : r[i] # h
    BY <1>1, <2>1 DEF Ring
  <2>3. ASSUME NEW i \in 1..(n + 1), NEW m \in 1..(n + 1), r[i] = r[m]
        PROVE  i = m
    <3>1. CASE i = j + 1 \/ m = j + 1
      BY <1>1, <2>1, <2>3, <3>1
    <3>2. CASE i # j + 1 /\ m # j + 1
      <4>1. PICK a \in 1..n : r[i] = q[a] /\ i = (IF a <= j THEN a ELSE a + 1)
        BY <2>1, <3>2
      <4>2. PICK b \in 1..n : r[m] = q[b] /\ m = (IF b <= j THEN b ELSE b + 1)
        BY <2>1, <3>2
      <4>3. a = b
        BY <2>3, <4>1, <4>2 DEF Ring, Distinct
      <4> QED
        BY <4>1, <4>2, <4>3
    <3> QED
      BY <3>1, <3>2
  <2> QED
    BY <1>1, <2>2, <2>3 DEF Distinct
<1> HIDE DEF c, d, n
<1>6. /\ k.next = [l.next EXCEPT ![x] = c(j + 1), ![c(j)] = x]
      /\ k.prev = [l.prev EXCEPT ![c(j + 1)] = x, ![x] = c(j)]
  BY DEF list_add
<1>7. /\ l.next \in [C -> P] /\ l.prev \in [C -> P]
      /\ c(j) \in C /\ c(j + 1) \in C /\ c(j) # x /\ c(j + 1) # x
  BY <1>1, <1>2 DEF Links
<1>8. k \in Links(C, P)
  BY <1>7 DEF list_add, Links
<1> HIDE DEF k
<1>9. ASSUME NEW i \in 0..(n + 1)
      PROVE  k.next[d(i)] = d(i + 1) /\ k.prev[d(i + 1)] = d(i)
  <2>1. CASE i < j
    <3>1. d(i) = c(i) /\ d(i + 1) = c(i + 1) /\ i \in 0..n /\ i + 1 \in 0..(n + 1) /\ i \in 0..(n + 1)
      BY <1>1, <2>1
    <3> QED
      BY <3>1, <2>1, <1>1, <1>2, <1>3, <1>4, <1>6, <1>7
  <2>2. CASE i = j
    <3>1. d(i) = c(j) /\ d(i + 1) = x
      BY <1>1, <2>2
    <3> QED
      BY <3>1, <1>6, <1>7
  <2>3. CASE i = j + 1
    <3>1. d(i) = x /\ d(i + 1) = c(j + 1)
      BY <1>1, <2>3
    <3> QED
      BY <3>1, <1>6, <1>7
  <2>4. CASE i > j + 1
    <3>1. /\ i - 1 \in (j + 1)..(n + 1) /\ i \in (j + 1)..(n + 1) /\ (i - 1) + 1 = i
          /\ i - 1 \in 0..n /\ i - 1 # j /\ i - 1 \in 0..(n + 1) /\ i \in 0..(n + 1)
      BY <1>1, <2>4
    <3>2. d(i) = c(i - 1) /\ d(i + 1) = c(i)
      BY <1>1, <3>1
    <3>3. l.next[c(i - 1)] = c(i) /\ l.prev[c(i)] = c(i - 1) /\ c(i - 1) # c(j) /\ c(i) # c(j + 1)
      BY <1>3, <1>4, <3>1
    <3> QED
      BY <3>1, <3>2, <3>3, <1>2, <1>6, <1>7
  <2> QED
    BY <1>1, <2>1, <2>2, <2>3, <2>4
<1>10. Chained(k, h, r)
  BY <1>1, <1>9 DEF Chained, d
<1> QED
  BY <1>5, <1>8, <1>10 DEF Ring, c, k

\* list_remove of a node of a ring leaves the ring of the others.
LEMMA RemoveRing ==
  ASSUME NEW C, NEW P, C \subseteq P, NEW l \in Links(C, P), NEW h \in C,
         NEW q \in Seq(C), NEW r \in Seq(C), NEW j, NEW x \in C, Inserted(q, j, x, r),
         Ring(l, h, r)
  PROVE  list_remove(l, x) \in Links(C, P) /\ Ring(list_remove(l, x), h, q)
<1> DEFINE n == Len(q)
           c(i) == CycleAt(h, q, i)
           d(i) == CycleAt(h, r, i)
           k == list_remove(l, x)
<1>1. /\ n \in Nat /\ j \in Nat /\ j <= n /\ Len(r) = n + 1
      /\ \A i \in 0..j : d(i) = c(i)
      /\ d(j + 1) = x
      /\ \A i \in (j + 1)..(n + 1) : d(i + 1) = c(i)
  BY CyclesMatch
<1>2. \A i \in 0..(n + 2) : d(i) \in C
  BY <1>1 DEF CycleAt
<1>3. \A i \in 0..(n + 1) : l.next[d(i)] = d(i + 1) /\ l.prev[d(i + 1)] = d(i)
  BY <1>1 DEF Ring, Chained
<1>4. \A i, m \in 0..(n + 1) : i # m => d(i) # d(m) /\ d(i + 1) # d(m + 1)
  BY <1>1, OncePerRound
<1>5. Distinct(q) /\ \A i \in 1..Len(q) : q[i] # h
  <2>1. \A i \in 1..n : \E m \in 1..(n + 1) : q[i] = r[m] /\ m = (IF i <= j THEN i ELSE i + 1)
    BY <1>1 DEF Inserted
  <2> QED
    BY <1>1, <2>1 DEF Ring, Distinct
<1> HIDE DEF c, d, n
<1>6. /\ d(j) = c(j) /\ d(j + 2) = c(j + 1) /\ j \in 0..(n + 1) /\ j + 1 \in 0..(n + 1)
      /\ j + 2 \in 0..(n + 2) /\ j \in 0..(n + 2)
  <2>1. j + 1 \in (j + 1)..(n + 1) /\ (j + 1) + 1 = j + 2
    BY <1>1
  <2> QED
    BY <1>1, <2>1
<1>7. /\ l.next[x] = d(j + 2) /\ l.prev[x] = d(j)
  <2>1. l.next[d(j + 1)] = d((j + 1) + 1) /\ l.prev[d(j + 1)] = d(j) /\ (j + 1) + 1 = j + 2
    BY <1>1, <1>3, <1>6
  <2> QED
    BY <1>1, <2>1
<1>8. /\ k.next = [l.next EXCEPT ![c(j)] = c(j + 1)]
      /\ k.prev = [l.prev EXCEPT ![c(j + 1)] = c(j)]
  BY <1>6, <1>7 DEF list_remove
<1>9. l.next \in [C -> P] /\ l.prev \in [C -> P] /\ c(j) \in C /\ c(j + 1) \in C
  BY <1>2, <1>6 DEF Links
<1>10. k \in Links(C, P)
  BY <1>6, <1>7, <1>9 DEF list_remove, Links
<1> HIDE DEF k
<1>11. ASSUME NEW i \in 0..n
       PROVE  k.next[c(i)] = c(i + 1) /\ k.prev[c(i + 1)] = c(i)
  <2>1. CASE i < j
    <3>1. /\ d(i) = c(i) /\ d(i + 1) = c(i + 1) /\ i \in 0..(n + 1) /\ i # j /\ i # j + 1
          /\ i \in 0..(n + 2) /\ i + 1 \in 0..(n + 2)
      BY <1>1, <2>1
    <3>2. l.next[c(i)] = c(i + 1) /\ l.prev[c(i + 1)] = c(i)
      BY <1>3, <3>1
    <3>3. c(i) # c(j)
      BY <1>4, <1>6, <3>1
    <3>4. c(i + 1) # c(j + 1)
      <4>1. (j + 1) + 1 = j + 2
        BY <1>1
      <4>2. d(i + 1) # d((j + 1) + 1)
        BY <1>4, <1>6, <3>1
      <4> QED
        BY <1>6, <3>1, <4>1, <4>2
    <3> QED
      BY <1>2, <1>8, <1>9, <3>1, <3>2, <3>3, <3>4
  <2>2. CASE i = j
    BY <1>8, <1>9, <2>2
  <2>3. CASE i > j
    <3>1. /\ i \in (j + 1)..(n + 1) /\ i + 1 \in (j + 1)..(n + 1)
          /\ i + 1 \in 0..(n + 1) /\ i + 1 # j /\ i + 1 # j + 1
          /\ i + 1 \in 0..(n + 2) /\ (i + 1) + 1 \in 0..(n + 2)
      BY <1>1, <2>3
    <3>2. d(i + 1) = c(i) /\ d((i + 1) + 1) = c(i + 1)
      BY <1>1, <3>1
    <3>3. l.next[c(i)] = c(i + 1) /\ l.prev[c(i + 1)] = c(i)
      BY <1>3, <3>1, <3>2
    <3>4. c(i) # c(j)
      BY <1>4, <1>6, <3>1, <3>2
    <3>5. c(i + 1) # c(j + 1)
      <4>1. (j + 1) + 1 = j + 2
        BY <1>1
      <4>2. d((i + 1) + 1) # d((j + 1) + 1)
        BY <1>4, <1>6, <3>1
      <4> QED
        BY <1>6, <3>2, <4>1, <4>2
    <3> QED
      BY <1>2, <1>8, <1>9, <3>1, <3>2, <3>3, <3>4, <3>5
  <2> QED
    BY <1>1, <2>1, <2>2, <2>3
<1>12. Chained(k, h, q)
  BY <1>11 DEF Chained, c, n
<1> QED
  BY <1>5, <1>10, <1>12 DEF Ring, k

\* The operations that the list is used through.
LEMMA AddHeadRing ==
  ASSUME NEW C, NEW P, C \subseteq P, NEW l \in Links(C, P), NEW h \in C,
         NEW q \in Seq(C), NEW x \in C, Ring(l, h, q), x # h, \A i \in 1..Len(q) : q[i] # x
  PROVE  list_add_head(l, h, x) \in Links(C, P) /\ Ring(list_add_head(l, h, x), h, <<x>> \o q)
<1>1. <<x>> \o q \in Seq(C) /\ Inserted(q, 0, x, <<x>> \o q)
  BY DEF Inserted
<1>2. CycleAt(h, q, 0) = h /\ CycleAt(h, q, 0 + 1) = l.next[h]
  <2>1. 0 \in 0..Len(q) /\ CycleAt(h, q, 0) = h
    BY DEF CycleAt
  <2>2. l.next[CycleAt(h, q, 0)] = CycleAt(h, q, 0 + 1)
    BY <2>1 DEF Ring, Chained
  <2> QED
    BY <2>1, <2>2
<1> QED
  BY <1>1, <1>2, AddRing DEF list_add_head

LEMMA AddTailRing ==
  ASSUME NEW C, NEW P, C \subseteq P, NEW l \in Links(C, P), NEW h \in C,
         NEW q \in Seq(C), NEW x \in C, Ring(l, h, q), x # h, \A i \in 1..Len(q) : q[i] # x
  PROVE  list_add_tail(l, h, x) \in Links(C, P) /\ Ring(list_add_tail(l, h, x), h, Append(q, x))
<1>1. Append(q, x) \in Seq(C) /\ Inserted(q, Len(q), x, Append(q, x))
  BY DEF Inserted
<1>2. CycleAt(h, q, Len(q) + 1) = h /\ CycleAt(h, q, Len(q)) = l.prev[h]
  BY DEF Ring, Chained, CycleAt
<1> QED
  BY <1>1, <1>2, AddRing DEF list_add_tail

\* A sequence without one of its elements.
LEMMA Without ==
  ASSUME NEW C, NEW q \in Seq(C), NEW i \in 1..Len(q)
  PROVE  LET r == SubSeq(q, 1, i - 1) \o SubSeq(q, i + 1, Len(q))
         IN  /\ r \in Seq(C) /\ Inserted(r, i - 1, q[i], q)
             /\ \A k \in 1..Len(r) : \E m \in 1..Len(q) : r[k] = q[m]
<1> DEFINE a == SubSeq(q, 1, i - 1)
           b == SubSeq(q, i + 1, Len(q))
<1>1. /\ a \in Seq(C) /\ Len(a) = i - 1 /\ \A k \in 1..(i - 1) : a[k] = q[k]
      /\ b \in Seq(C) /\ Len(b) = Len(q) - i /\ \A k \in 1..(Len(q) - i) : b[k] = q[i + k]
      /\ Len(q) \in Nat /\ i \in Nat
  OBVIOUS
<1> HIDE DEF a, b
<1>2. a \o b \in Seq(C) /\ Len(a \o b) = Len(q) - 1
  <2>1. a \in Seq(C) /\ b \in Seq(C)
    BY <1>1
  <2>2. a \o b \in Seq(C) /\ Len(a \o b) = Len(a) + Len(b)
    BY <2>1
  <2>3. (i - 1) + (Len(q) - i) = Len(q) - 1
    BY <1>1
  <2> QED
    BY <1>1, <2>2, <2>3
<1>3. \A k \in 1..(i - 1) : (a \o b)[k] = q[k]
  BY <1>1
<1>4. ASSUME NEW k \in i..(Len(q) - 1)
      PROVE  (a \o b)[k] = q[k + 1]
  <2>1. k - (i - 1) \in 1..(Len(q) - i) /\ i + (k - (i - 1)) = k + 1
    BY <1>1
  <2>2. (a \o b)[k] = b[k - (i - 1)]
    BY <1>1, <1>2
  <2> QED
    BY <1>1, <2>1, <2>2
<1>5. Inserted(a \o b, i - 1, q[i], q)
  BY <1>1, <1>2, <1>3, <1>4 DEF Inserted
<1>6. ASSUME NEW k \in 1..Len(a \o b)
      PROVE  \E m \in 1..Len(q) : (a \o b)[k] = q[m]
  <2>1. k \in 1..(Len(q) - 1) /\ k \in 1..Len(q) /\ k + 1 \in 1..Len(q)
    BY <1>1, <1>2
  <2>2. k \in 1..(i - 1) \/ k \in i..(Len(q) - 1)
    BY <1>1, <2>1
  <2> QED
    BY <1>3, <1>4, <2>1, <2>2
<1> QED
  BY <1>2, <1>5, <1>6 DEF a, b

-----------------------------------------------------------------------------
(* list_for_each                                                             *)

\* A set of natural numbers that is not empty has a least element.
LEMMA LeastNat ==
  ASSUME NEW T, T \subseteq Nat, T # {}
  PROVE  \E x \in T : \A y \in T : x <= y
<1> DEFINE less == OpToRel(<, Nat)
<1>1. less = { p \in Nat \X Nat : p[1] < p[2] }
  BY Zenon DEF OpToRel
<1>2. IsWellFoundedOn(less, Nat)
  BY Zenon, NatLessThanWellFounded
<1> HIDE DEF less
<1>3. \A m, n \in Nat : m < n => <<m, n>> \in less
  BY <1>1
<1>4. PICK x \in T : \A y \in T : ~ (<<y, x>> \in less)
  BY <1>2, WFMin
<1>5. ASSUME NEW y \in T, y < x
      PROVE  FALSE
  <2>1. <<y, x>> \in less
    BY <1>3, <1>5
  <2> QED
    BY <1>4, <2>1
<1> QED
  BY <1>4, <1>5

\* One turn of the loop: what it has visited and is to visit next.
Turn(l, h, seen) ==
  LET pos == IF seen = <<>> THEN list_first(l, h)
             ELSE IF seen[Len(seen)] = h THEN h ELSE l.next[seen[Len(seen)]]
  IN  IF pos = h THEN seen ELSE Append(seen, pos)

\* What the loop has visited after k turns, if the links are those of q.
Visited(q, k) == SubSeq(q, 1, IF k <= Len(q) THEN k ELSE Len(q))

LEMMA TurnVisits ==
  ASSUME NEW C, NEW l, NEW h, NEW q \in Seq(C), Ring(l, h, q), NEW k \in Nat \ {0}
  PROVE  Visited(q, k) = Turn(l, h, Visited(q, k - 1))
<1> DEFINE n == Len(q)
           v == Visited(q, k - 1)
           pos == IF v = <<>> THEN list_first(l, h)
                  ELSE IF v[Len(v)] = h THEN h ELSE l.next[v[Len(v)]]
<1>1. n \in Nat /\ k - 1 \in Nat
  OBVIOUS
<1>2. CASE k <= n
  <2>1. /\ v = SubSeq(q, 1, k - 1) /\ Len(v) = k - 1 /\ \A i \in 1..(k - 1) : v[i] = q[i]
    BY <1>1, <1>2 DEF Visited
  <2>2. pos = q[k]
    <3>1. k - 1 \in 0..n /\ (k - 1) + 1 = k /\ CycleAt(h, q, k) = q[k]
      BY <1>1, <1>2 DEF CycleAt
    <3>2. l.next[CycleAt(h, q, k - 1)] = q[k]
      BY <3>1 DEF Ring, Chained
    <3>3. CASE k = 1
      BY <2>1, <3>2, <3>3 DEF CycleAt, list_first
    <3>4. CASE k # 1
      <4>1. v # <<>> /\ v[Len(v)] = q[k - 1] /\ q[k - 1] # h /\ CycleAt(h, q, k - 1) = q[k - 1]
        BY <1>1, <1>2, <2>1, <3>4 DEF CycleAt, Ring
      <4> QED
        BY <3>2, <4>1
    <3> QED
      BY <3>3, <3>4
  <2>3. q[k] # h
    BY <1>1, <1>2 DEF Ring
  <2>4. Turn(l, h, v) = Append(v, q[k])
    BY <2>2, <2>3 DEF Turn
  <2>5. Append(SubSeq(q, 1, k - 1), q[k]) = SubSeq(q, 1, k)
    BY <1>1, <1>2
  <2> QED
    BY <1>2, <2>1, <2>4, <2>5 DEF Visited
<1>3. CASE k > n
  <2>1. v = SubSeq(q, 1, n) /\ v = q /\ Visited(q, k) = q
    BY <1>1, <1>3 DEF Visited
  <2>2. pos = h
    <3>1. l.next[CycleAt(h, q, n)] = h
      BY <1>1 DEF Ring, Chained, CycleAt
    <3>2. CASE n = 0
      BY <1>1, <2>1, <3>1, <3>2 DEF CycleAt, list_first
    <3>3. CASE n # 0
      BY <1>1, <2>1, <3>1, <3>3 DEF CycleAt, Ring
    <3> QED
      BY <3>2, <3>3
  <2> QED
    BY <2>1, <2>2 DEF Turn
<1> QED
  BY <1>1, <1>2, <1>3

\* In as many turns as the list has nodes it visits all of them, in order.
LEMMA WalkVisits ==
  ASSUME NEW C, NEW l, NEW h, NEW q \in Seq(C), Ring(l, h, q),
         NEW bound \in Nat, Len(q) <= bound
  PROVE  list_for_each(l, h, bound) = q
<1> DEFINE F(w) == [n \in 0..bound |-> IF n = 0 THEN <<>> ELSE Turn(l, h, w[n - 1])]
           seen == [n \in 0..bound |-> Visited(q, n)]
           walk == CHOOSE w : w = F(w)
<1>1. seen = F(seen)
  <2>1. Visited(q, 0) = <<>>
    BY DEF Visited
  <2>2. ASSUME NEW n \in 0..bound, n # 0
        PROVE  Visited(q, n) = Turn(l, h, seen[n - 1])
    <3>1. n \in Nat \ {0} /\ n - 1 \in 0..bound
      BY <2>2
    <3> QED
      BY <3>1, TurnVisits
  <2> QED
    BY <2>1, <2>2
<1>2. walk = F(walk)
  <2> HIDE DEF F, seen
  <2> QED
    BY <1>1
<1>3. list_for_each(l, h, bound) = walk[bound]
  BY DEF list_for_each, Turn
<1> HIDE DEF walk
<1>4. ASSUME NEW n \in 0..bound, walk[n] # Visited(q, n)
      PROVE  FALSE
  <2> DEFINE T == {m \in 0..bound : walk[m] # Visited(q, m)}
  <2>1. PICK m \in T : \A y \in T : m <= y
    <3>1. T \subseteq Nat /\ T # {}
      BY <1>4
    <3> HIDE DEF T
    <3> QED
      BY <3>1, LeastNat
  <2>2. m \in 0..bound /\ walk[m] # Visited(q, m)
    OBVIOUS
  <2>3. walk[0] = <<>> /\ Visited(q, 0) = <<>>
    BY <1>2 DEF Visited
  <2>4. m \in Nat \ {0} /\ m - 1 \in 0..bound /\ m - 1 \notin T
    BY <2>1, <2>2, <2>3
  <2>5. walk[m] = Turn(l, h, walk[m - 1])
    BY <1>2, <2>2, <2>4
  <2>6. walk[m - 1] = Visited(q, m - 1)
    BY <2>4
  <2> QED
    BY <2>2, <2>4, <2>5, <2>6, TurnVisits
<1>5. walk[bound] = Visited(q, bound)
  BY <1>4
<1>6. Visited(q, bound) = q
  BY DEF Visited
<1> QED
  BY <1>3, <1>5, <1>6

-----------------------------------------------------------------------------
(* The list in use                                                           *)

LInv ==
  /\ order \in Seq(Nodes)
  /\ links \in Links(Cells, Cells \cup {Garbage})
  /\ Ring(links, Anchor, order)

LEMMA LInitEstablishes == LInit => LInv
<1> DEFINE l == [next |-> [n \in Cells |-> Garbage], prev |-> [n \in Cells |-> Garbage]]
<1> SUFFICES ASSUME LInit
             PROVE  LInv
  OBVIOUS
<1>1. Anchor \in Cells
  BY DEF Cells
<1>2. links = list_init(l, Anchor) /\ order = <<>>
  BY DEF LInit
<1>3. links \in Links(Cells, Cells \cup {Garbage})
  BY <1>1, <1>2 DEF list_init, Links
<1>4. Ring(links, Anchor, <<>>)
  BY <1>1, <1>2 DEF list_init, Ring, Distinct, Chained, CycleAt
<1> QED
  BY <1>2, <1>3, <1>4 DEF LInv

LEMMA LNextPreserves == LInv /\ LNext => LInv'
<1> SUFFICES ASSUME LInv, NEW n \in Nodes, AddHead(n) \/ AddTail(n) \/ Remove(n)
             PROVE  LInv'
  BY DEF LNext
<1> DEFINE P == Cells \cup {Garbage}
<1>1. /\ Cells \subseteq P /\ Anchor \in Cells /\ n \in Cells /\ n # Anchor
      /\ order \in Seq(Nodes) /\ order \in Seq(Cells)
      /\ links \in Links(Cells, P) /\ Ring(links, Anchor, order)
  BY NodesAssumption DEF LInv, Cells
<1> HIDE DEF P
<1>2. CASE AddHead(n)
  <2>1. n \notin Linked => \A i \in 1..Len(order) : order[i] # n
    BY DEF Linked
  <2>2. links' \in Links(Cells, P) /\ Ring(links', Anchor, order')
    BY <1>1, <1>2, <2>1, AddHeadRing DEF AddHead
  <2>3. order' \in Seq(Nodes)
    BY <1>1, <1>2 DEF AddHead
  <2> QED
    BY <2>2, <2>3 DEF LInv, P, Cells
<1>3. CASE AddTail(n)
  <2>1. n \notin Linked => \A i \in 1..Len(order) : order[i] # n
    BY DEF Linked
  <2>2. links' \in Links(Cells, P) /\ Ring(links', Anchor, order')
    BY <1>1, <1>3, <2>1, AddTailRing DEF AddTail
  <2>3. order' \in Seq(Nodes)
    BY <1>1, <1>3 DEF AddTail
  <2> QED
    BY <2>2, <2>3 DEF LInv, P, Cells
<1>4. CASE Remove(n)
  <2>1. PICK i \in 1..Len(order) :
          /\ order[i] = n /\ links' = list_remove(links, n)
          /\ order' = SubSeq(order, 1, i - 1) \o SubSeq(order, i + 1, Len(order))
    BY <1>4 DEF Remove
  <2>2. order' \in Seq(Nodes) /\ Inserted(order', i - 1, n, order)
    BY <1>1, <2>1, Without
  <2>3. order' \in Seq(Cells)
    BY <2>2 DEF Cells
  <2>4. links' \in Links(Cells, P) /\ Ring(links', Anchor, order')
    BY <1>1, <2>1, <2>2, <2>3, RemoveRing
  <2> QED
    BY <2>2, <2>4 DEF LInv, P, Cells
<1> QED
  BY <1>2, <1>3, <1>4

LEMMA LInvFollows == LInv => ListIsOrder
<1> SUFFICES ASSUME LInv
             PROVE  ListIsOrder
  OBVIOUS
<1>1. /\ order \in Seq(Nodes) /\ Len(order) \in Nat /\ Ring(links, Anchor, order)
      /\ IsFiniteSet(Cells) /\ Cardinality(Cells) \in Nat /\ Len(order) <= Cardinality(Cells)
  <2>1. IsFiniteSet(Cells) /\ Nodes \subseteq Cells
    BY NodesAssumption, FS_AddElement DEF Cells
  <2>2. IsFiniteSet(1..Len(order)) /\ Cardinality(1..Len(order)) = Len(order) /\ Len(order) \in Nat
    <3>1. Len(order) \in Nat
      BY DEF LInv
    <3> QED
      BY SMTT(30), <3>1, FS_Interval
  <2>3. order \in Injection(1..Len(order), Cells)
    BY <2>1 DEF LInv, Ring, Distinct, Injection, IsInjective
  <2>4. Len(order) <= Cardinality(Cells)
    BY <2>1, <2>2, <2>3, FS_Injection
  <2> QED
    BY <2>1, <2>2, <2>4, FS_CardinalityType DEF LInv
<1>2. WalkIsOrder
  BY <1>1, WalkVisits DEF WalkIsOrder
<1>3. BothWays
  <2>1. CASE order = <<>>
    BY <1>1, <2>1 DEF BothWays, Ring, Chained, CycleAt, list_empty
  <2>2. CASE order # <<>>
    <3>1. /\ 0 \in 0..Len(order) /\ Len(order) \in 0..Len(order) /\ Len(order) \in 1..Len(order)
          /\ 1 \in 1..Len(order) /\ Len(order) + 1 \notin 1..Len(order)
      BY <1>1, <2>2
    <3>2. /\ CycleAt(Anchor, order, 0) = Anchor /\ CycleAt(Anchor, order, 0 + 1) = order[1]
          /\ CycleAt(Anchor, order, Len(order)) = order[Len(order)]
          /\ CycleAt(Anchor, order, Len(order) + 1) = Anchor
      BY <3>1 DEF CycleAt
    <3>3. links.next[Anchor] = order[1] /\ links.prev[Anchor] = order[Len(order)]
      BY <1>1, <3>1, <3>2 DEF Ring, Chained
    <3>4. order[1] # Anchor
      BY <1>1, <3>1 DEF Ring
    <3> QED
      BY <1>1, <2>2, <3>3, <3>4 DEF BothWays, list_empty, list_first, list_last
  <2> QED
    BY <2>1, <2>2
<1> QED
  BY <1>2, <1>3 DEF ListIsOrder

-----------------------------------------------------------------------------
(* The console                                                               *)

Characters == Console!Printer \X Nat

CTypes ==
  /\ buf \in [Console!Place -> Characters]
  /\ task \in [Console!Printer -> [at : {"idle", "vsprintf", "puts", "done"},
                                   len : 0..MaxLen, s : Console!Place]]
  /\ out \in [Console!Printer -> Seq(Characters)]
  /\ mixed \subseteq Worker

\* No line reaches the last character, where the buffer ends.
Ended == buf[MaxLen + 1] = Console!NUL

\* Of two calls at once both are counted as mixed, unless one is a handler's.
Mixed ==
  \A p \in Worker, q \in Console!Printer :
    (p # q /\ task[p] # Console!Idle /\ task[q] # Console!Idle) => p \in mixed

\* What the call of p has done so far, if it is alone.
SoFar(p) ==
  LET t == task[p]
  IN  /\ t.at = "vsprintf" =>
           t.s <= t.len + 1 /\ out[p] = <<>> /\ \A k \in 1..(t.s - 1) : buf[k] = Console!Character(p, k)
      /\ t.at = "puts" =>
           /\ t.s <= t.len + 1 /\ out[p] = SubSeq(Console!Line(p), 1, t.s - 1)
           /\ \A k \in 1..t.len : buf[k] = Console!Character(p, k)
           /\ buf[t.len + 1] = Console!NUL
      /\ t.at = "done" => out[p] = Console!Line(p)

ConsoleInv ==
  /\ CTypes /\ Ended /\ Mixed
  /\ \A p \in Console!Printer : p \notin mixed => SoFar(p)

LEMMA Printers ==
  /\ MaxLen \in Nat \ {0} /\ "irq" \notin Worker
  /\ Console!Printer = Worker \cup {"irq"} /\ Console!Place = 1..(MaxLen + 1)
  /\ Console!Idle = [at |-> "idle", len |-> 0, s |-> 1]
  /\ Console!NUL \in Characters
  /\ \A p \in Console!Printer, k \in Nat : Console!Character(p, k) \in Characters
  /\ \A p \in Console!Printer, k \in Nat \ {0} : Console!Character(p, k) # Console!NUL
BY KlibAssumption DEF KlibAssumption, Console!Printer, Console!Place, Console!Idle, Console!NUL,
   Console!Character, Characters

LEMMA LineOf ==
  ASSUME CTypes, NEW p \in Console!Printer
  PROVE  /\ Console!Line(p) \in Seq(Characters) /\ Len(Console!Line(p)) = task[p].len
         /\ \A k \in 1..task[p].len : Console!Line(p)[k] = Console!Character(p, k)
         /\ task[p].len \in 0..MaxLen /\ task[p].s \in 1..(MaxLen + 1)
         /\ task[p].len \in Nat /\ task[p].s \in Nat
<1>1. task[p].len \in 0..MaxLen /\ task[p].s \in 1..(MaxLen + 1) /\ task[p].len \in Nat
  BY Printers DEF CTypes
<1>2. Console!Line(p) = [k \in 1..task[p].len |-> Console!Character(p, k)]
  BY Printers DEF Console!Line
<1>3. \A k \in 1..task[p].len : Console!Character(p, k) \in Characters
  BY <1>1, Printers
<1> QED
  BY <1>1, <1>2, <1>3

LEMMA CInitEstablishes == Console!CInit => ConsoleInv
<1> SUFFICES ASSUME Console!CInit
             PROVE  ConsoleInv
  OBVIOUS
<1>1. \A p \in Console!Printer : task[p] = Console!Idle /\ out[p] = <<>>
  BY DEF Console!CInit
<1>2. buf = [k \in Console!Place |-> Console!NUL] /\ mixed = {}
  BY Printers DEF Console!CInit, Console!FirstBuf
<1>3. CTypes
  BY <1>2, Printers DEF CTypes, Console!CInit
<1>4. Ended
  BY <1>2, Printers DEF Ended
<1>5. Mixed
  BY <1>1, Printers DEF Mixed
<1>6. \A p \in Console!Printer : SoFar(p)
  BY <1>1, Printers DEF SoFar
<1> QED
  BY <1>3, <1>4, <1>5, <1>6 DEF ConsoleInv

\* A step of p: the others that are not counted as mixed are idle.
LEMMA OthersIdle ==
  ASSUME ConsoleInv, NEW p \in Console!Printer, Console!MayRun(p),
         task[p] # Console!Idle, NEW q \in Console!Printer, q # p, q \notin mixed
  PROVE  task[q] = Console!Idle
<1>1. CASE q \in Worker
  BY <1>1 DEF ConsoleInv, Mixed
<1>2. CASE q = "irq"
  BY <1>2 DEF Console!MayRun
<1> QED
  BY <1>1, <1>2, Printers

\* What a step of a call that goes on has to show.
LEMMA StepOfCall ==
  ASSUME ConsoleInv, NEW p \in Console!Printer, Console!MayRun(p), task[p] # Console!Idle,
         mixed' = mixed, CTypes', Ended',
         \A q \in Console!Printer : q # p => task'[q] = task[q],
         p \notin mixed => SoFar(p)'
  PROVE  ConsoleInv'
<1>1. Mixed'
  BY Printers DEF ConsoleInv, Mixed
<1>2. ASSUME NEW q \in Console!Printer, q \notin mixed'
      PROVE  SoFar(q)'
  <2>1. CASE q = p
    BY <1>2, <2>1
  <2>2. CASE q # p
    <3>1. task'[q] = Console!Idle
      BY <1>2, <2>2, OthersIdle
    <3> QED
      BY <3>1, Printers DEF SoFar
  <2> QED
    BY <2>1, <2>2
<1> QED
  BY <1>1, <1>2 DEF ConsoleInv

LEMMA dbg_printf_Preserves ==
  ASSUME ConsoleInv, NEW p \in Console!Printer, NEW len \in 0..MaxLen, Console!dbg_printf(p, len)
  PROVE  ConsoleInv'
<1> DEFINE others == {q \in Worker \ {p} : task[q] # Console!Idle}
<1>1. /\ Console!MayRun(p) /\ task[p] = Console!Idle /\ buf' = buf
      /\ task' = [task EXCEPT ![p] = [at |-> "vsprintf", len |-> len, s |-> 1]]
      /\ out' = [out EXCEPT ![p] = <<>>]
      /\ mixed' = (mixed \ {p}) \cup others \cup {q \in {p} \cap Worker : others # {}}
  BY DEF Console!dbg_printf
<1>2. CTypes'
  <2>1. 1 \in Console!Place
    BY Printers
  <2> QED
    BY <1>1, <2>1 DEF CTypes, ConsoleInv
<1>3. Ended'
  BY <1>1 DEF Ended, ConsoleInv
<1>4. \A q \in Console!Printer : q # p => task'[q] = task[q]
  BY <1>1 DEF ConsoleInv, CTypes
<1>5. task'[p] = [at |-> "vsprintf", len |-> len, s |-> 1] /\ out'[p] = <<>>
  BY <1>1 DEF ConsoleInv, CTypes
<1>6. Mixed'
  <2> SUFFICES ASSUME NEW q \in Worker, NEW r \in Console!Printer, q # r,
                      task'[q] # Console!Idle, task'[r] # Console!Idle
               PROVE  q \in mixed'
    BY DEF Mixed
  <2>0. q \in Console!Printer
    BY Printers
  <2>1. CASE q = p
    <3>1. task[r] # Console!Idle /\ r # p
      BY <1>4, <2>1
    <3>2. r # "irq"
      BY <1>1, <2>1, <3>1, Printers DEF Console!MayRun
    <3>3. r \in others
      BY <3>1, <3>2, Printers
    <3> QED
      BY <1>1, <2>1, <3>3
  <2>2. CASE q # p
    <3>1. q \in others
      BY <1>4, <2>0, <2>2
    <3> QED
      BY <1>1, <3>1
  <2> QED
    BY <2>1, <2>2
<1>7. ASSUME NEW q \in Console!Printer, q \notin mixed'
      PROVE  SoFar(q)'
  <2>1. CASE q = p
    BY <1>5, <2>1, KlibAssumption DEF SoFar, KlibAssumption
  <2>2. CASE q # p
    <3>1. CASE q \in Worker
      <4>1. q \notin others
        BY <1>1, <1>7
      <4>2. task'[q] = Console!Idle
        BY <1>4, <2>2, <3>1, <4>1
      <4> QED
        BY <4>2, Printers DEF SoFar
    <3>2. CASE q = "irq"
      <4>1. task'[q] = Console!Idle
        BY <1>1, <1>4, <2>2, <3>2 DEF Console!MayRun
      <4> QED
        BY <4>1, Printers DEF SoFar
    <3> QED
      BY <3>1, <3>2, Printers
  <2> QED
    BY <2>1, <2>2
<1> QED
  BY <1>2, <1>3, <1>6, <1>7 DEF ConsoleInv

LEMMA vsprintf_Preserves ==
  ASSUME ConsoleInv, NEW p \in Console!Printer, Console!vsprintf(p)
  PROVE  ConsoleInv'
<1> DEFINE t == task[p]
           c == IF t.s <= t.len THEN Console!Character(p, t.s) ELSE Console!NUL
           u == IF t.s <= t.len THEN [t EXCEPT !.s = t.s + 1]
                ELSE [t EXCEPT !.at = "puts", !.s = 1]
<1>1. /\ Console!MayRun(p) /\ t.at = "vsprintf" /\ out' = out /\ mixed' = mixed
      /\ buf' = [buf EXCEPT ![t.s] = c]
      /\ task' = IF t.s <= t.len THEN [task EXCEPT ![p].s = t.s + 1]
                 ELSE [task EXCEPT ![p].at = "puts", ![p].s = 1]
  BY Printers DEF Console!vsprintf, Console!Stored
<1>2. /\ t \in [at : {"idle", "vsprintf", "puts", "done"}, len : 0..MaxLen, s : Console!Place]
      /\ t.len \in 0..MaxLen /\ t.s \in 1..(MaxLen + 1) /\ t.len \in Nat /\ t.s \in Nat
      /\ buf \in [1..(MaxLen + 1) -> Characters]
      /\ CTypes /\ MaxLen \in Nat
  BY Printers, LineOf DEF ConsoleInv, CTypes
<1>3. u \in [at : {"idle", "vsprintf", "puts", "done"}, len : 0..MaxLen, s : Console!Place]
      /\ u.len = t.len /\ (t.s <= t.len => u.at = "vsprintf" /\ u.s = t.s + 1)
      /\ (~ (t.s <= t.len) => u.at = "puts" /\ u.s = 1)
  <2>1. t.s <= t.len => t.s + 1 \in Console!Place
    BY <1>2, Printers
  <2>2. 1 \in Console!Place
    BY Printers
  <2> HIDE DEF t
  <2> QED
    BY <1>1, <1>2, <2>1, <2>2
<1>4. c \in Characters
  BY <1>2, Printers
<1>5. buf'[t.s] = c /\ \A k \in 1..(MaxLen + 1) : k # t.s => buf'[k] = buf[k]
  <2> HIDE DEF c, t
  <2> QED
    BY <1>1, <1>2
<1>6. /\ task'[p] = u /\ \A q \in Console!Printer : q # p => task'[q] = task[q]
      /\ task' \in [Console!Printer -> [at : {"idle", "vsprintf", "puts", "done"}, len : 0..MaxLen, s : Console!Place]]
  <2>1. task' = [task EXCEPT ![p] = u]
    BY <1>1, <1>2 DEF CTypes
  <2> HIDE DEF u
  <2> QED
    BY <1>2, <1>3, <2>1 DEF CTypes
<1>11. task[p] = t
  OBVIOUS
<1> HIDE DEF t, u, c
<1>7. CTypes'
  <2>1. buf' \in [Console!Place -> Characters]
    BY <1>1, <1>2, <1>4, Printers
  <2> QED
    BY <1>1, <1>2, <1>6, <2>1 DEF CTypes
<1>8. Ended'
  <2>1. MaxLen + 1 \in 1..(MaxLen + 1) /\ (t.s = MaxLen + 1 => ~ (t.s <= t.len))
    BY <1>2
  <2> QED
    BY <1>5, <2>1, Printers DEF Ended, ConsoleInv, c
<1>9. ASSUME p \notin mixed
      PROVE  SoFar(p)'
  <2>1. t.s <= t.len + 1 /\ out[p] = <<>> /\ \A k \in 1..(t.s - 1) : buf[k] = Console!Character(p, k)
    BY <1>1, <1>9, <1>11, Printers DEF ConsoleInv, SoFar
  <2>2. CASE t.s <= t.len
    <3>1. \A k \in 1..t.s : buf'[k] = Console!Character(p, k)
      BY <1>2, <1>5, <2>1, <2>2 DEF c
    <3>2. u.at = "vsprintf" /\ u.s = t.s + 1 /\ u.len = t.len /\ (t.s + 1) - 1 = t.s /\ t.s + 1 <= t.len + 1
      BY <1>2, <1>3, <2>2
    <3> QED
      BY <1>1, <1>6, <2>1, <3>1, <3>2, Printers DEF SoFar
  <2>3. CASE ~ (t.s <= t.len)
    <3>1. t.s = t.len + 1 /\ t.len + 1 \in 1..(MaxLen + 1) /\ u.at = "puts" /\ u.s = 1 /\ u.len = t.len
      BY <1>2, <1>3, <2>1, <2>3
    <3>2. \A k \in 1..t.len : buf'[k] = Console!Character(p, k)
      BY <1>2, <1>5, <2>1, <3>1
    <3>3. buf'[t.len + 1] = Console!NUL
      BY <1>5, <2>3, <3>1 DEF c
    <3>4. SubSeq(Console!Line(p)', 1, 1 - 1) = <<>>
      OBVIOUS
    <3>5. out'[p] = SubSeq(Console!Line(p)', 1, u.s - 1)
      BY <1>1, <2>1, <3>1, <3>4
    <3>6. task'[p].at = "puts" /\ task'[p].len = t.len /\ task'[p].s = u.s /\ u.s <= t.len + 1
      BY <1>2, <1>6, <3>1
    <3> QED
      BY <3>2, <3>3, <3>5, <3>6 DEF SoFar
  <2> QED
    BY <2>2, <2>3
<1>10. task[p] # Console!Idle
  BY <1>1, <1>11, Printers
<1> QED
  BY <1>1, <1>6, <1>7, <1>8, <1>9, <1>10, StepOfCall

LEMMA puts_Preserves ==
  ASSUME ConsoleInv, NEW p \in Console!Printer, Console!puts(p)
  PROVE  ConsoleInv'
<1> DEFINE t == task[p]
           R == [at : {"idle", "vsprintf", "puts", "done"}, len : 0..MaxLen, s : Console!Place]
<1>1. /\ Console!MayRun(p) /\ t.at = "puts" /\ buf' = buf /\ mixed' = mixed
      /\ IF buf[t.s] = Console!NUL
         THEN task' = [task EXCEPT ![p].at = "done"] /\ out' = out
         ELSE /\ out' = [out EXCEPT ![p] = Append(out[p], buf[t.s])]
              /\ task' = [task EXCEPT ![p].s = t.s + 1]
  BY Printers DEF Console!puts
<1>2. /\ t \in R /\ CTypes /\ Ended /\ MaxLen \in Nat
      /\ t.len \in 0..MaxLen /\ t.s \in 1..(MaxLen + 1) /\ t.len \in Nat /\ t.s \in Nat
      /\ buf \in [1..(MaxLen + 1) -> Characters]
      /\ task \in [Console!Printer -> R] /\ out \in [Console!Printer -> Seq(Characters)]
      /\ out[p] \in Seq(Characters) /\ task[p] = t
  BY Printers, LineOf DEF ConsoleInv, CTypes
<1>3. Ended'
  BY <1>1, <1>2 DEF Ended
<1>4. task[p] # Console!Idle
  BY <1>1, Printers
<1>5. ASSUME p \notin mixed
      PROVE  /\ t.s <= t.len + 1 /\ out[p] = SubSeq(Console!Line(p), 1, t.s - 1)
             /\ \A k \in 1..t.len : buf[k] = Console!Character(p, k)
             /\ buf[t.len + 1] = Console!NUL
  BY <1>1, <1>5, Printers DEF ConsoleInv, SoFar
<1> HIDE DEF t
<1>6. CASE buf[t.s] = Console!NUL
  <2>1. /\ task'[p] = [t EXCEPT !.at = "done"] /\ task'[p].at = "done" /\ task'[p].len = t.len
        /\ task' \in [Console!Printer -> R] /\ out' = out
        /\ \A q \in Console!Printer : q # p => task'[q] = task[q]
    <3>1. task' = [task EXCEPT ![p] = [t EXCEPT !.at = "done"]] /\ [t EXCEPT !.at = "done"] \in R
      BY <1>1, <1>2, <1>6
    <3> QED
      BY <1>1, <1>2, <1>6, <3>1
  <2>2. CTypes'
    BY <1>1, <1>2, <2>1 DEF CTypes
  <2>3. ASSUME p \notin mixed
        PROVE  SoFar(p)'
    <3>1. t.s = t.len + 1
      <4>1. t.s <= t.len => buf[t.s] = Console!Character(p, t.s) /\ t.s # 0
        BY <1>2, <1>5, <2>3
      <4>2. ~ (t.s <= t.len)
        BY <1>2, <1>6, <4>1, Printers
      <4> QED
        BY <1>2, <1>5, <2>3, <4>2
    <3>2. out[p] = Console!Line(p)
      <4>1. (t.len + 1) - 1 = t.len /\ SubSeq(Console!Line(p), 1, t.len) = Console!Line(p)
        BY <1>2, LineOf
      <4> QED
        BY <1>5, <2>3, <3>1, <4>1
    <3>3. Console!Line(p)' = Console!Line(p)
      BY <1>2, <2>1 DEF Console!Line
    <3> QED
      BY <2>1, <3>2, <3>3 DEF SoFar
  <2> QED
    BY <1>1, <1>3, <1>4, <2>1, <2>2, <2>3, StepOfCall
<1>7. CASE buf[t.s] # Console!NUL
  <2>1. t.s + 1 \in Console!Place
    <3>1. t.s # MaxLen + 1
      BY <1>2, <1>7, Printers DEF Ended
    <3> QED
      BY <1>2, <3>1, Printers
  <2>2. /\ task'[p] = [t EXCEPT !.s = t.s + 1] /\ task'[p].at = "puts" /\ task'[p].len = t.len
        /\ task'[p].s = t.s + 1
        /\ task' \in [Console!Printer -> R]
        /\ \A q \in Console!Printer : q # p => task'[q] = task[q]
    <3>1. task' = [task EXCEPT ![p] = [t EXCEPT !.s = t.s + 1]] /\ [t EXCEPT !.s = t.s + 1] \in R
      BY <1>1, <1>2, <1>7, <2>1
    <3> QED
      BY <1>1, <1>2, <3>1
  <2>3. /\ out' = [out EXCEPT ![p] = Append(out[p], buf[t.s])]
        /\ Append(out[p], buf[t.s]) \in Seq(Characters)
        /\ out'[p] = Append(out[p], buf[t.s])
    BY <1>1, <1>2, <1>7
  <2>4. CTypes'
    <3>1. out' \in [Console!Printer -> Seq(Characters)]
      BY <1>2, <2>3
    <3> QED
      BY <1>1, <1>2, <2>2, <3>1 DEF CTypes
  <2>5. ASSUME p \notin mixed
        PROVE  SoFar(p)'
    <3>1. t.s <= t.len /\ buf[t.s] = Console!Character(p, t.s)
      <4>1. t.s # t.len + 1
        BY <1>5, <1>7, <2>5
      <4> QED
        BY <1>2, <1>5, <2>5, <4>1
    <3>2. Console!Line(p)' = Console!Line(p)
      BY <1>2, <2>2 DEF Console!Line
    <3>3. out'[p] = SubSeq(Console!Line(p), 1, (t.s + 1) - 1)
      <4> DEFINE line == Console!Line(p)
      <4>1. line \in Seq(Characters) /\ Len(line) = t.len /\ line[t.s] = Console!Character(p, t.s)
        BY <1>2, <3>1, LineOf
      <4> HIDE DEF line
      <4>2. Append(SubSeq(line, 1, t.s - 1), line[t.s]) = SubSeq(line, 1, t.s)
        BY <1>2, <3>1, <4>1
      <4>3. (t.s + 1) - 1 = t.s
        BY <1>2
      <4> QED
        BY <1>5, <2>3, <2>5, <3>1, <4>1, <4>2, <4>3 DEF line
    <3>4. t.s + 1 <= t.len + 1
      BY <1>2, <3>1
    <3> QED
      BY <1>1, <1>5, <2>2, <2>5, <3>2, <3>3, <3>4, Printers DEF SoFar
  <2> QED
    BY <1>1, <1>3, <1>4, <2>2, <2>4, <2>5, StepOfCall
<1> QED
  BY <1>6, <1>7

LEMMA return_Preserves ==
  ASSUME ConsoleInv, NEW p \in Console!Printer, Console!return(p)
  PROVE  ConsoleInv'
<1>1. /\ Console!MayRun(p) /\ task[p].at = "done" /\ UNCHANGED <<buf, out, mixed>>
      /\ task' = [task EXCEPT ![p] = Console!Idle]
  BY DEF Console!return
<1>2. task'[p] = Console!Idle /\ \A q \in Console!Printer : q # p => task'[q] = task[q]
  BY <1>1 DEF ConsoleInv, CTypes
<1>3. CTypes'
  BY <1>1, Printers DEF ConsoleInv, CTypes
<1>4. Ended' /\ SoFar(p)'
  BY <1>1, <1>2, Printers DEF ConsoleInv, Ended, SoFar
<1>5. task[p] # Console!Idle
  BY <1>1, Printers
<1> QED
  BY <1>1, <1>2, <1>3, <1>4, <1>5, StepOfCall

LEMMA CNextPreserves == ConsoleInv /\ Console!CNext => ConsoleInv'
BY dbg_printf_Preserves, vsprintf_Preserves, puts_Preserves, return_Preserves DEF Console!CNext

LEMMA ConsoleInvFollows == ConsoleInv => PrintsItsLine
<1> SUFFICES ASSUME ConsoleInv
             PROVE  PrintsItsLine
  OBVIOUS
<1>1. Console!EndAhead
  BY Printers DEF ConsoleInv, CTypes, Ended, Console!EndAhead
<1>2. Console!LineWhole
  <2>1. "irq" \notin mixed
    BY Printers DEF ConsoleInv, CTypes
  <2> QED
    BY <2>1 DEF ConsoleInv, SoFar, Console!LineWhole
<1> QED
  BY <1>1, <1>2 DEF PrintsItsLine, Console!PrintsItsLine

-----------------------------------------------------------------------------
(* Strings in memory                                                         *)

LEMMA MinIs ==
  ASSUME NEW T, T \subseteq Nat, NEW x \in T, \A y \in T : x <= y
  PROVE  Str!Min(T) = x
<1>1. \A z \in T : (\A y \in T : z <= y) => z = x
  OBVIOUS
<1> QED
  BY <1>1 DEF Str!Min

LEMMA MaxIs ==
  ASSUME NEW T, T \subseteq Nat, NEW x \in T, \A y \in T : y <= x
  PROVE  Str!Max(T) = x
<1>1. \A z \in T : (\A y \in T : z >= y) => z = x
  OBVIOUS
<1>2. \A y \in T : x >= y
  OBVIOUS
<1> QED
  BY <1>1, <1>2 DEF Str!Max

LEMMA MinIn ==
  ASSUME NEW T, T \subseteq Nat, T # {}
  PROVE  Str!Min(T) \in T /\ \A y \in T : Str!Min(T) <= y
<1>1. PICK x \in T : \A y \in T : x <= y
  BY LeastNat
<1>2. Str!Min(T) = x
  BY <1>1, MinIs
<1> QED
  BY <1>1, <1>2

\* A bounded set of numbers has a greatest one.
LEMMA Greatest ==
  ASSUME NEW T, NEW N \in Nat, T \subseteq 0..N, T # {}
  PROVE  \E x \in T : \A y \in T : y <= x
<1> DEFINE D == {N - x : x \in T}
<1>1. D \subseteq Nat /\ D # {}
  <2>1. \A x \in T : N - x \in Nat
    OBVIOUS
  <2> QED
    BY <2>1
<1>2. PICK d \in D : \A e \in D : d <= e
  <2> HIDE DEF D
  <2> QED
    BY <1>1, LeastNat
<1>3. PICK x \in T : d = N - x
  OBVIOUS
<1>4. \A y \in T : N - y \in D
  OBVIOUS
<1>5. \A y \in T : N - x <= N - y
  BY <1>2, <1>3, <1>4
<1> QED
  BY <1>5

LEMMA Memory ==
  /\ MemSize \in Nat /\ Char \subseteq Nat /\ 0 \in Char /\ Address = 1..MemSize
  /\ Char \subseteq 0..(CHAR - 1)
  /\ \A mem \in Mem : /\ mem \in [1..MemSize -> Char] /\ Len(mem) = MemSize /\ DOMAIN mem = 1..MemSize
                      /\ \A k \in 1..MemSize : mem[k] \in Nat /\ mem[k] \in Char
<1>1. /\ MemSize \in Nat /\ Char \subseteq Nat /\ 0 \in Char /\ Address = 1..MemSize
      /\ Char \subseteq 0..(CHAR - 1)
  BY KlibAssumption DEF KlibAssumption, Address
<1>2. ASSUME NEW mem \in Mem
      PROVE  /\ mem \in [1..MemSize -> Char] /\ Len(mem) = MemSize /\ DOMAIN mem = 1..MemSize
             /\ \A k \in 1..MemSize : mem[k] \in Nat /\ mem[k] \in Char
  <2>1. mem \in [1..MemSize -> Char]
    BY DEF Mem
  <2>2. \A k \in 1..MemSize : mem[k] \in Nat /\ mem[k] \in Char
    BY <1>1, <2>1
  <2>3. Len(mem) = MemSize
    BY <1>1, <2>1
  <2> QED
    BY <2>1, <2>2, <2>3
<1> QED
  BY <1>1, <1>2

\* Where a string ends, and what it is.
LEMMA StringIs ==
  ASSUME NEW mem \in Mem, NEW s \in Address, IsString(mem, s)
  PROVE  LET e == Str!EndOf(mem, s)
         IN  /\ e \in s..MemSize /\ e \in Nat /\ s \in Nat \ {0} /\ mem[e] = 0
             /\ \A k \in s..(e - 1) : mem[k] # 0
             /\ Str!LengthOf(mem, s) = e - s /\ e - s \in Nat
             /\ S(mem, s) \in Seq(Char) /\ Len(S(mem, s)) = e - s
             /\ \A k \in 1..(e - s) : S(mem, s)[k] = mem[s + k - 1] /\ s + k - 1 \in s..(e - 1)
<1> DEFINE e == Str!EndOf(mem, s)
           T == {k \in s..MemSize : mem[k] = 0}
<1>1. MemSize \in Nat /\ s \in Nat \ {0} /\ s <= MemSize /\ Len(mem) = MemSize /\ mem \in [1..MemSize -> Char]
  BY Memory
<1>2. e = Str!Min(T)
  BY <1>1 DEF Str!EndOf
<1>3. T \subseteq Nat /\ T # {}
  BY <1>1 DEF IsString
<1>4. e \in T /\ \A y \in T : e <= y
  <2> HIDE DEF T, e
  <2> QED
    BY <1>2, <1>3, MinIn
<1>5. e \in s..MemSize /\ mem[e] = 0
  BY <1>4
<1>6. ASSUME NEW k \in s..(e - 1)
      PROVE  mem[k] # 0
  <2>1. k \in s..MemSize /\ ~ (e <= k)
    BY <1>1, <1>5
  <2> QED
    BY <1>4, <2>1
<1> HIDE DEF e, T
<1>7. Str!LengthOf(mem, s) = e - s
  BY DEF Str!LengthOf, e
<1>8. S(mem, s) = SubSeq(mem, s, e - 1)
  BY DEF S, Str!Str, e
<1>9. e - s \in Nat /\ e \in Nat /\ s \in 1..MemSize /\ e - 1 \in 0..MemSize
  BY <1>1, <1>5
<1>10. /\ SubSeq(mem, s, e - 1) \in Seq(Char) /\ Len(SubSeq(mem, s, e - 1)) = e - s
       /\ \A k \in 1..(e - s) : SubSeq(mem, s, e - 1)[k] = mem[s + k - 1]
  <2>1. mem \in Seq(Char)
    BY <1>1
  <2>2. SubSeq(mem, s, e - 1) \in Seq(Char)
    BY <1>1, <1>9, <2>1
  <2>3. Len(SubSeq(mem, s, e - 1)) = e - s
    BY <1>1, <1>9, <2>1
  <2>4. \A k \in 1..(e - s) : SubSeq(mem, s, e - 1)[k] = mem[s + k - 1]
    BY <1>1, <1>9, <2>1
  <2> QED
    BY <2>2, <2>3, <2>4
<1>11. \A k \in 1..(e - s) : s + k - 1 \in s..(e - 1)
  BY <1>1, <1>9
<1> QED
  BY <1>1, <1>5, <1>6, <1>7, <1>8, <1>9, <1>10, <1>11 DEF e

-----------------------------------------------------------------------------
(* The loops that copy                                                       *)

\* The memory after n characters from src are put to dest.
Copied(mem, dest, src, n) ==
  [k \in 1..MemSize |-> IF k \in dest..(dest + n - 1) THEN mem[src + k - dest] ELSE mem[k]]

\* A turn of the loop upwards reads what no turn before it has written.
LEMMA TurnUp ==
  ASSUME NEW mem \in Mem, NEW dest \in Nat \ {0}, NEW src \in Nat \ {0}, NEW n \in Nat \ {0},
         dest + n - 1 <= MemSize, src + n - 1 <= MemSize,
         src + n - 1 \notin dest..(dest + n - 2)
  PROVE  LET w == Copied(mem, dest, src, n - 1)
         IN  Copied(mem, dest, src, n) = [w EXCEPT ![dest + n - 1] = w[src + n - 1]]
<1> DEFINE w == Copied(mem, dest, src, n - 1)
           v == [w EXCEPT ![dest + n - 1] = w[src + n - 1]]
<1>1. MemSize \in Nat
  BY Memory
<1>2. dest + (n - 1) - 1 = dest + n - 2 /\ src + n - 1 \in 1..MemSize /\ dest + n - 1 \in 1..MemSize
  BY <1>1
<1>3. w[src + n - 1] = mem[src + n - 1]
  BY <1>2 DEF Copied
<1>4. ASSUME NEW k \in 1..MemSize
      PROVE  Copied(mem, dest, src, n)[k] = v[k]
  <2>1. CASE k = dest + n - 1
    <3>1. src + k - dest = src + n - 1 /\ k \in dest..(dest + n - 1)
      BY <1>1, <2>1
    <3>2. v[k] = w[src + n - 1]
      BY <2>1 DEF Copied
    <3> QED
      BY <1>3, <3>1, <3>2 DEF Copied
  <2>2. CASE k # dest + n - 1
    <3>1. k \in dest..(dest + n - 1) <=> k \in dest..(dest + n - 2)
      BY <1>1, <2>2
    <3>2. v[k] = w[k]
      BY <2>2 DEF Copied
    <3> QED
      BY <1>2, <3>1, <3>2 DEF Copied
  <2> QED
    BY <2>1, <2>2
<1> QED
  BY <1>4 DEF Copied

LEMMA CopyUpIs ==
  ASSUME NEW mem \in Mem, NEW dest \in Nat \ {0}, NEW src \in Nat \ {0}, NEW n \in Nat,
         dest + n - 1 <= MemSize, src + n - 1 <= MemSize,
         dest <= src \/ src + n <= dest
  PROVE  Str!CopyUp(mem, dest, src, n) = Copied(mem, dest, src, n)
<1> DEFINE F(w) == [k \in 0..n |-> IF k = 0 THEN mem
                                   ELSE [w[k - 1] EXCEPT ![dest + k - 1] = w[k - 1][src + k - 1]]]
           goal == [k \in 0..n |-> Copied(mem, dest, src, k)]
           after == CHOOSE w : w = F(w)
<1>0. MemSize \in Nat /\ mem \in [1..MemSize -> Char]
  BY Memory
<1>1. Copied(mem, dest, src, 0) = mem
  BY <1>0 DEF Copied
<1>2. ASSUME NEW k \in 1..n
      PROVE  LET w == Copied(mem, dest, src, k - 1)
             IN  Copied(mem, dest, src, k) = [w EXCEPT ![dest + k - 1] = w[src + k - 1]]
  <2>1. /\ k \in Nat \ {0} /\ dest + k - 1 <= MemSize /\ src + k - 1 <= MemSize
        /\ src + k - 1 \notin dest..(dest + k - 2)
    BY <1>0
  <2> QED
    BY <2>1, TurnUp
<1>3. goal = F(goal)
  <2>1. ASSUME NEW k \in 0..n
        PROVE  goal[k] = F(goal)[k]
    <3>1. CASE k = 0
      BY <1>1, <3>1
    <3>2. CASE k # 0
      <4>1. k \in 1..n /\ k - 1 \in 0..n
        BY <3>2
      <4>2. goal[k - 1] = Copied(mem, dest, src, k - 1) /\ goal[k] = Copied(mem, dest, src, k)
        BY <4>1
      <4> HIDE DEF goal
      <4>3. F(goal)[k] = [goal[k - 1] EXCEPT ![dest + k - 1] = goal[k - 1][src + k - 1]]
        BY <3>2
      <4> QED
        BY <1>2, <4>1, <4>2, <4>3
    <3> QED
      BY <3>1, <3>2
  <2>2. DOMAIN goal = 0..n /\ goal = [k \in 0..n |-> goal[k]]
    OBVIOUS
  <2>3. F(goal) = [k \in 0..n |-> F(goal)[k]]
    <3> HIDE DEF goal
    <3> QED
      OBVIOUS
  <2> HIDE DEF goal, F
  <2> QED
    BY <2>1, <2>2, <2>3
<1>4. after = F(after)
  <2> HIDE DEF F, goal
  <2> QED
    BY <1>3
<1>5. Str!CopyUp(mem, dest, src, n) = after[n]
  BY DEF Str!CopyUp
<1> HIDE DEF after
<1>6. ASSUME NEW k \in 0..n, after[k] # Copied(mem, dest, src, k)
      PROVE  FALSE
  <2> DEFINE T == {m \in 0..n : after[m] # Copied(mem, dest, src, m)}
  <2>1. PICK m \in T : \A y \in T : m <= y
    <3>1. T \subseteq Nat /\ T # {}
      BY <1>6
    <3> HIDE DEF T
    <3> QED
      BY <3>1, LeastNat
  <2>2. m \in 0..n /\ after[m] # Copied(mem, dest, src, m)
    OBVIOUS
  <2>3. after[0] = mem
    BY <1>4
  <2>4. m \in 1..n /\ m - 1 \in 0..n /\ m - 1 \notin T /\ m # 0
    BY <1>1, <2>1, <2>2, <2>3
  <2>5. after[m - 1] = Copied(mem, dest, src, m - 1)
    BY <2>4
  <2>6. after[m] = [after[m - 1] EXCEPT ![dest + m - 1] = after[m - 1][src + m - 1]]
    BY <1>4, <2>2, <2>4
  <2> QED
    BY <1>2, <2>2, <2>4, <2>5, <2>6
<1>7. n \in 0..n
  OBVIOUS
<1> QED
  BY <1>5, <1>6, <1>7

\* A turn of the loop downwards reads what no turn before it has written.
LEMMA TurnDown ==
  ASSUME NEW mem \in Mem, NEW dest \in Nat \ {0}, NEW src \in Nat \ {0}, NEW n \in Nat \ {0},
         dest + n - 1 <= MemSize, src + n - 1 <= MemSize,
         src \notin (dest + 1)..(dest + n - 1)
  PROVE  LET w == Copied(mem, dest + 1, src + 1, n - 1)
         IN  Copied(mem, dest, src, n) = [w EXCEPT ![dest] = w[src]]
<1> DEFINE w == Copied(mem, dest + 1, src + 1, n - 1)
           v == [w EXCEPT ![dest] = w[src]]
<1>1. MemSize \in Nat
  BY Memory
<1>2. (dest + 1) + (n - 1) - 1 = dest + n - 1 /\ src \in 1..MemSize /\ dest \in 1..MemSize
  BY <1>1
<1>3. w[src] = mem[src]
  BY <1>2 DEF Copied
<1>4. ASSUME NEW k \in 1..MemSize
      PROVE  Copied(mem, dest, src, n)[k] = v[k]
  <2>1. CASE k = dest
    <3>1. src + k - dest = src /\ k \in dest..(dest + n - 1)
      BY <1>1, <2>1
    <3>2. v[k] = w[src]
      BY <2>1 DEF Copied
    <3> QED
      BY <1>3, <3>1, <3>2 DEF Copied
  <2>2. CASE k # dest
    <3>1. k \in dest..(dest + n - 1) <=> k \in (dest + 1)..(dest + n - 1)
      BY <1>1, <2>2
    <3>2. v[k] = w[k] /\ (src + 1) + k - (dest + 1) = src + k - dest
      BY <2>2 DEF Copied
    <3> QED
      BY <1>2, <3>1, <3>2 DEF Copied
  <2> QED
    BY <2>1, <2>2
<1> QED
  BY <1>4 DEF Copied

LEMMA CopyDownIs ==
  ASSUME NEW mem \in Mem, NEW dest \in Nat \ {0}, NEW src \in Nat \ {0}, NEW n \in Nat,
         dest + n - 1 <= MemSize, src + n - 1 <= MemSize, src <= dest
  PROVE  Str!CopyDown(mem, dest, src, n) = Copied(mem, dest, src, n)
<1> DEFINE F(w) == [k \in 0..n |-> IF k = 0 THEN mem
                                   ELSE [w[k - 1] EXCEPT ![dest + n - k] = w[k - 1][src + n - k]]]
           down(k) == Copied(mem, dest + n - k, src + n - k, k)
           goal == [k \in 0..n |-> down(k)]
           after == CHOOSE w : w = F(w)
<1>0. MemSize \in Nat /\ mem \in [1..MemSize -> Char]
  BY Memory
<1>1. down(0) = mem
  BY <1>0 DEF Copied
<1>2. ASSUME NEW k \in 1..n
      PROVE  down(k) = [down(k - 1) EXCEPT ![dest + n - k] = down(k - 1)[src + n - k]]
  <2> DEFINE d == dest + n - k
             t == src + n - k
  <2>1. /\ k \in Nat \ {0} /\ d \in Nat \ {0} /\ t \in Nat \ {0}
        /\ d + k - 1 <= MemSize /\ t + k - 1 <= MemSize
        /\ t \notin (d + 1)..(d + k - 1)
    BY <1>0
  <2>2. dest + n - (k - 1) = d + 1 /\ src + n - (k - 1) = t + 1
    BY <1>0
  <2>3. down(k - 1) = Copied(mem, d + 1, t + 1, k - 1) /\ down(k) = Copied(mem, d, t, k)
    BY <2>2
  <2> HIDE DEF d, t, down
  <2>4. Copied(mem, d, t, k) = [Copied(mem, d + 1, t + 1, k - 1) EXCEPT ![d] = Copied(mem, d + 1, t + 1, k - 1)[t]]
    BY <2>1, TurnDown
  <2> QED
    BY <2>3, <2>4 DEF d, t
<1>3. goal = F(goal)
  <2>1. ASSUME NEW k \in 0..n
        PROVE  goal[k] = F(goal)[k]
    <3>1. CASE k = 0
      BY <1>1, <3>1
    <3>2. CASE k # 0
      <4>1. k \in 1..n /\ k - 1 \in 0..n
        BY <3>2
      <4> HIDE DEF down
      <4>2. goal[k - 1] = down(k - 1) /\ goal[k] = down(k)
        BY <4>1
      <4> HIDE DEF goal
      <4>3. F(goal)[k] = [goal[k - 1] EXCEPT ![dest + n - k] = goal[k - 1][src + n - k]]
        BY <3>2
      <4> QED
        BY <1>2, <4>1, <4>2, <4>3
    <3> QED
      BY <3>1, <3>2
  <2>2. DOMAIN goal = 0..n /\ goal = [k \in 0..n |-> goal[k]]
    OBVIOUS
  <2>3. F(goal) = [k \in 0..n |-> F(goal)[k]]
    <3> HIDE DEF goal
    <3> QED
      OBVIOUS
  <2> HIDE DEF goal, F
  <2> QED
    BY <2>1, <2>2, <2>3
<1>4. after = F(after)
  <2> HIDE DEF F, goal
  <2> QED
    BY <1>3
<1>5. Str!CopyDown(mem, dest, src, n) = after[n]
  BY DEF Str!CopyDown
<1> HIDE DEF after, down
<1>6. ASSUME NEW k \in 0..n, after[k] # down(k)
      PROVE  FALSE
  <2> DEFINE T == {m \in 0..n : after[m] # down(m)}
  <2>1. PICK m \in T : \A y \in T : m <= y
    <3>1. T \subseteq Nat /\ T # {}
      BY <1>6
    <3> HIDE DEF T
    <3> QED
      BY <3>1, LeastNat
  <2>2. m \in 0..n /\ after[m] # down(m)
    OBVIOUS
  <2>3. after[0] = mem
    BY <1>4
  <2>4. m \in 1..n /\ m - 1 \in 0..n /\ m - 1 \notin T /\ m # 0
    BY <1>1, <2>1, <2>2, <2>3
  <2>5. after[m - 1] = down(m - 1)
    BY <2>4
  <2>6. after[m] = [after[m - 1] EXCEPT ![dest + n - m] = after[m - 1][src + n - m]]
    BY <1>4, <2>2, <2>4
  <2> QED
    BY <1>2, <2>2, <2>4, <2>5, <2>6
<1>7. down(n) = Copied(mem, dest, src, n)
  <2>1. dest + n - n = dest /\ src + n - n = src
    OBVIOUS
  <2> QED
    BY <2>1 DEF down
<1>8. n \in 0..n
  OBVIOUS
<1> QED
  BY <1>5, <1>6, <1>7, <1>8

\* Copied is what Put makes of the characters that stand at src.
LEMMA CopiedIsPut ==
  ASSUME NEW mem \in Mem, NEW dest \in Nat \ {0}, NEW src \in Nat \ {0}, NEW n \in Nat,
         dest + n - 1 <= MemSize, src + n - 1 <= MemSize
  PROVE  Copied(mem, dest, src, n) = Str!Put(mem, dest, SubSeq(mem, src, src + n - 1))
<1> DEFINE q == SubSeq(mem, src, src + n - 1)
<1>1. MemSize \in Nat /\ mem \in [1..MemSize -> Char] /\ DOMAIN mem = 1..MemSize
  BY Memory
<1>2. Len(q) = n /\ \A k \in 1..n : q[k] = mem[src + k - 1]
  BY <1>1
<1> HIDE DEF q
<1>3. ASSUME NEW k \in 1..MemSize
      PROVE  (IF k \in dest..(dest + n - 1) THEN mem[src + k - dest] ELSE mem[k])
               = (IF k \in dest..(dest + Len(q) - 1) THEN q[k - dest + 1] ELSE mem[k])
  <2>1. CASE k \in dest..(dest + n - 1)
    <3>1. k - dest + 1 \in 1..n /\ src + (k - dest + 1) - 1 = src + k - dest
      BY <1>1, <2>1
    <3> QED
      BY <1>2, <2>1, <3>1
  <2>2. CASE k \notin dest..(dest + n - 1)
    BY <1>2, <2>2
  <2> QED
    BY <2>1, <2>2
<1> QED
  BY <1>1, <1>3 DEF Copied, Str!Put, q

-----------------------------------------------------------------------------
(* Bytes, chars and the ints passed for them                                 *)

Half == CHAR \div 2

LEMMA Halves == CHAR \in Nat \ {0} /\ Half \in Nat \ {0} /\ 2 * Half = CHAR
<1>1. CHAR \in Nat /\ CHAR >= 2 /\ CHAR % 2 = 0
  BY KlibAssumption DEF KlibAssumption
<1> QED
  BY <1>1 DEF Half

LEMMA PassingIs == Passing \subseteq Int
<1>1. Passed \subseteq Nat
  BY KlibAssumption DEF KlibAssumption
<1>2. \A c \in Passed : c \in Int /\ -c \in Int
  BY <1>1
<1> QED
  BY <1>2 DEF Passing

\* A char and the byte it is of.
LEMMA PlainIs ==
  ASSUME NEW x \in 0..(CHAR - 1)
  PROVE  /\ Str!Plain(x) = IF High(x) THEN x - CHAR ELSE x
         /\ High(x) <=> x >= Half
         /\ Str!Plain(x) \in Int /\ Str!Plain(x) % CHAR = x
         /\ Str!Plain(x) = 0 <=> x = 0
<1>1. Str!Plain(x) = (IF High(x) THEN x - CHAR ELSE x) /\ (High(x) <=> x >= Half)
  BY DEF Str!Plain, High, Half
<1>2. x % CHAR = x
  BY Halves
<1>3. (x - CHAR) % CHAR = x
  BY Halves
<1> QED
  BY <1>1, <1>2, <1>3, Halves

\* Chars are ordered as their bytes are, but the high ones before the low.
LEMMA PlainOrder ==
  ASSUME NEW x \in 0..(CHAR - 1), NEW y \in 0..(CHAR - 1)
  PROVE  /\ Str!Sign(Str!Plain(x) - Str!Plain(y)) = Str!Sign(x - y) <=> ~ (High(x) # High(y))
         /\ Str!Sign(Str!Plain(x) - Str!Plain(y)) = 0 <=> x = y
         /\ Str!Sign(x - y) = 0 <=> x = y
         /\ High(x) # High(y) => x # y
<1>1. /\ Str!Plain(x) = IF x >= Half THEN x - CHAR ELSE x
      /\ Str!Plain(y) = IF y >= Half THEN y - CHAR ELSE y
      /\ High(x) = (x >= Half) /\ High(y) = (y >= Half)
  BY DEF Str!Plain, High, Half
<1> QED
  BY <1>1, Halves DEF Str!Sign

-----------------------------------------------------------------------------
(* The functions of string.c, one by one                                     *)

Right(fn, mem, a, b, n) ==
  (Returned(fn, mem, a, b, n) = InC(fn, mem, a, b, n)) <=> ~ Differs(fn, mem, a, b, n)

LEMMA memset_Right ==
  ASSUME NEW mem \in Mem, NEW a \in Address, NEW b \in Passing, NEW n \in 0..MemSize,
         May("memset", mem, a, b, n)
  PROVE  Right("memset", mem, a, b, n)
<1> DEFINE c == b % CHAR
           q == [k \in 1..n |-> c]
<1>1. Returned("memset", mem, a, b, n) = Str!memset(mem, a, b, n)
  BY DEF Returned
<1>2. InC("memset", mem, a, b, n) = Str!Put(mem, a, q)
  BY DEF InC
<1>3. ~ Differs("memset", mem, a, b, n)
  BY DEF Differs
<1> HIDE DEF c
<1>4. n \in Nat /\ a \in Nat /\ Len(q) = n /\ MemSize \in Nat
  BY Memory
<1>5. ASSUME NEW k \in DOMAIN mem
      PROVE  (IF k \in a..(a + n - 1) THEN c ELSE mem[k])
               = (IF k \in a..(a + Len(q) - 1) THEN q[k - a + 1] ELSE mem[k])
  <2>1. k \in a..(a + n - 1) => k - a + 1 \in 1..n
    BY <1>4
  <2> QED
    BY <1>4, <2>1
<1>6. Str!memset(mem, a, b, n) = Str!Put(mem, a, q)
  BY <1>5 DEF Str!memset, Str!Put, c
<1> QED
  BY <1>1, <1>2, <1>3, <1>6 DEF Right

LEMMA memcpy_Right ==
  ASSUME NEW mem \in Mem, NEW a \in Address, NEW b \in Address, NEW n \in 0..MemSize,
         May("memcpy", mem, a, b, n)
  PROVE  Right("memcpy", mem, a, b, n)
<1>1. Returned("memcpy", mem, a, b, n) = Str!CopyUp(mem, a, b, n)
  BY DEF Returned, Str!memcpy
<1>2. InC("memcpy", mem, a, b, n) = Str!Put(mem, a, SubSeq(mem, b, b + n - 1))
  BY DEF InC
<1>3. ~ Differs("memcpy", mem, a, b, n)
  BY DEF Differs
<1>4. Fits(a, n) /\ Fits(b, n) /\ Apart(a, n, b, n)
  BY DEF May
<1>5. /\ n \in Nat /\ a \in Nat \ {0} /\ b \in Nat \ {0}
      /\ a + n - 1 <= MemSize /\ b + n - 1 <= MemSize /\ (a <= b \/ b + n <= a)
  BY <1>4, Memory DEF Fits, Apart
<1> QED
  BY <1>1, <1>2, <1>3, <1>5, CopyUpIs, CopiedIsPut DEF Right

LEMMA memmove_Right ==
  ASSUME NEW mem \in Mem, NEW a \in Address, NEW b \in Address, NEW n \in 0..MemSize,
         May("memmove", mem, a, b, n)
  PROVE  Right("memmove", mem, a, b, n)
<1>1. Returned("memmove", mem, a, b, n) = Str!memmove(mem, a, b, n)
  BY DEF Returned
<1>2. InC("memmove", mem, a, b, n) = Str!Put(mem, a, SubSeq(mem, b, b + n - 1))
  BY DEF InC
<1>3. ~ Differs("memmove", mem, a, b, n)
  BY DEF Differs
<1>4. Fits(a, n) /\ Fits(b, n)
  BY DEF May
<1>5. /\ n \in Nat /\ a \in Nat \ {0} /\ b \in Nat \ {0}
      /\ a + n - 1 <= MemSize /\ b + n - 1 <= MemSize
  BY <1>4, Memory DEF Fits
<1>6. Str!memmove(mem, a, b, n) = Copied(mem, a, b, n)
  <2>1. CASE b <= a /\ b + n > a
    BY <1>5, <2>1, CopyDownIs DEF Str!memmove
  <2>2. CASE ~ (b <= a /\ b + n > a)
    <3>1. a <= b \/ b + n <= a
      BY <1>5, <2>2
    <3> QED
      BY <1>5, <2>2, <3>1, CopyUpIs DEF Str!memmove
  <2> QED
    BY <2>1, <2>2
<1> QED
  BY <1>1, <1>2, <1>3, <1>5, <1>6, CopiedIsPut DEF Right

\* With a 0 behind them.
WithEnd(mem, dest, src, n) == [Copied(mem, dest, src, n) EXCEPT ![dest + n] = 0]

\* A copy of l characters and a 0 behind it is what Put makes of the string.
LEMMA EndedIsPut ==
  ASSUME NEW mem \in Mem, NEW a \in Nat \ {0}, NEW b \in Nat \ {0}, NEW l \in Nat,
         a + l <= MemSize, b + l - 1 <= MemSize,
         NEW q \in Seq(Char), Len(q) = l, \A k \in 1..l : q[k] = mem[b + k - 1]
  PROVE  WithEnd(mem, a, b, l) = Str!Put(mem, a, Append(q, 0))
<1> DEFINE r == Append(q, 0)
           v == [Copied(mem, a, b, l) EXCEPT ![a + l] = 0]
<1>1. MemSize \in Nat /\ mem \in [1..MemSize -> Char] /\ DOMAIN mem = 1..MemSize
  BY Memory
<1>2. Len(r) = l + 1 /\ r[l + 1] = 0 /\ \A k \in 1..l : r[k] = mem[b + k - 1]
  OBVIOUS
<1>3. v = [k \in 1..MemSize |-> IF k = a + l THEN 0
                                ELSE IF k \in a..(a + l - 1) THEN mem[b + k - a] ELSE mem[k]]
  BY <1>1 DEF Copied
<1> HIDE DEF r, v
<1>4. ASSUME NEW k \in 1..MemSize
      PROVE  (IF k = a + l THEN 0 ELSE IF k \in a..(a + l - 1) THEN mem[b + k - a] ELSE mem[k])
               = (IF k \in a..(a + Len(r) - 1) THEN r[k - a + 1] ELSE mem[k])
  <2>1. CASE k = a + l
    <3>1. k - a + 1 = l + 1 /\ k \in a..(a + l + 1 - 1)
      BY <1>1, <2>1
    <3> QED
      BY <1>2, <2>1, <3>1
  <2>2. CASE k \in a..(a + l - 1)
    <3>1. k - a + 1 \in 1..l /\ b + (k - a + 1) - 1 = b + k - a /\ k # a + l /\ k \in a..(a + l + 1 - 1)
      BY <1>1, <2>2
    <3> QED
      BY <1>2, <2>2, <3>1
  <2>3. CASE k \notin a..(a + l)
    <3>1. k # a + l /\ k \notin a..(a + l - 1) /\ k \notin a..(a + l + 1 - 1)
      BY <1>1, <2>3
    <3> QED
      BY <1>2, <3>1
  <2> QED
    BY <1>1, <2>1, <2>2, <2>3
<1>5. Str!Put(mem, a, r) = [k \in 1..MemSize |-> IF k \in a..(a + Len(r) - 1) THEN r[k - a + 1] ELSE mem[k]]
  BY <1>1 DEF Str!Put
<1>6. v = Str!Put(mem, a, r)
  BY <1>3, <1>4, <1>5
<1> QED
  BY <1>6 DEF v, r, WithEnd

LEMMA strcpy_Right ==
  ASSUME NEW mem \in Mem, NEW a \in Address, NEW b \in Address, NEW n \in 0..MemSize,
         May("strcpy", mem, a, b, n)
  PROVE  Right("strcpy", mem, a, b, n)
<1> DEFINE l == Str!LengthOf(mem, b)
<1>1. Returned("strcpy", mem, a, b, n) = [Str!CopyUp(mem, a, b, l) EXCEPT ![a + l] = 0]
  BY DEF Returned, Str!strcpy
<1>2. InC("strcpy", mem, a, b, n) = Str!Put(mem, a, Append(S(mem, b), 0))
  BY DEF InC
<1>3. ~ Differs("strcpy", mem, a, b, n)
  BY DEF Differs
<1>4. IsString(mem, b) /\ Fits(a, l + 1) /\ Fits(b, l + 1) /\ Apart(a, l + 1, b, l + 1)
  BY DEF May
<1>5. /\ l \in Nat /\ S(mem, b) \in Seq(Char) /\ Len(S(mem, b)) = l
      /\ \A k \in 1..l : S(mem, b)[k] = mem[b + k - 1]
  BY <1>4, StringIs
<1> HIDE DEF l
<1>6. /\ a \in Nat \ {0} /\ b \in Nat \ {0} /\ a + l <= MemSize /\ a + l - 1 <= MemSize
      /\ b + l - 1 <= MemSize /\ (a <= b \/ b + l <= a)
  BY <1>4, <1>5, Memory DEF Fits, Apart
<1>7. Str!CopyUp(mem, a, b, l) = Copied(mem, a, b, l)
  BY <1>5, <1>6, CopyUpIs
<1>8. WithEnd(mem, a, b, l) = Str!Put(mem, a, Append(S(mem, b), 0))
  <2> DEFINE q == S(mem, b)
  <2>1. q \in Seq(Char) /\ Len(q) = l /\ \A k \in 1..l : q[k] = mem[b + k - 1]
    BY <1>5
  <2> HIDE DEF q
  <2>2. WithEnd(mem, a, b, l) = Str!Put(mem, a, Append(q, 0))
    BY ZenonT(60), <1>5, <1>6, <2>1, EndedIsPut
  <2> QED
    BY <2>2 DEF q
<1> QED
  BY <1>1, <1>2, <1>3, <1>7, <1>8 DEF Right, WithEnd

LEMMA strncat_Right ==
  ASSUME NEW mem \in Mem, NEW a \in Address, NEW b \in Address, NEW n \in 0..MemSize,
         May("strncat", mem, a, b, n)
  PROVE  Right("strncat", mem, a, b, n)
<1> DEFINE lb == Str!LengthOf(mem, b)
           e == Str!EndOf(mem, a)
           l == Str!AtMost(lb, n)
           q == Str!Prefix(S(mem, b), n)
<1>1. Returned("strncat", mem, a, b, n) = [Str!CopyUp(mem, e, b, l) EXCEPT ![e + l] = 0]
  BY DEF Returned, Str!strncat
<1>2. InC("strncat", mem, a, b, n) = Str!Put(mem, a + Len(S(mem, a)), Append(q, 0))
  BY DEF InC
<1>3. ~ Differs("strncat", mem, a, b, n)
  BY DEF Differs
<1>4. /\ IsString(mem, a) /\ IsString(mem, b)
      /\ Fits(a, Str!LengthOf(mem, a) + l + 1)
      /\ Apart(a, Str!LengthOf(mem, a) + lb + 1, b, lb + 1)
  BY DEF May
<1>5. /\ e \in Nat /\ e >= a /\ Str!LengthOf(mem, a) = e - a /\ Len(S(mem, a)) = e - a
      /\ a + (e - a) = e
  BY <1>4, StringIs
<1>6. /\ lb \in Nat /\ S(mem, b) \in Seq(Char) /\ Len(S(mem, b)) = lb /\ b + lb <= MemSize
      /\ \A k \in 1..lb : S(mem, b)[k] = mem[b + k - 1]
  BY SMTT(30), <1>4, StringIs
<1>7. l \in Nat /\ l <= lb /\ n \in Nat
  BY <1>6 DEF Str!AtMost
<1>8. q = SubSeq(S(mem, b), 1, l)
  BY <1>6 DEF Str!Prefix
<1> HIDE DEF l, lb, e, q
<1>9. q \in Seq(Char) /\ Len(q) = l /\ \A k \in 1..l : q[k] = mem[b + k - 1]
  BY <1>6, <1>7, <1>8
<1>10. /\ e \in Nat \ {0} /\ b \in Nat \ {0} /\ e + l <= MemSize /\ e + l - 1 <= MemSize
       /\ b + l - 1 <= MemSize /\ (e <= b \/ b + l <= e)
  BY <1>4, <1>5, <1>6, <1>7, Memory DEF Fits, Apart
<1>11. Str!CopyUp(mem, e, b, l) = Copied(mem, e, b, l)
  BY <1>7, <1>10, CopyUpIs
<1>12. WithEnd(mem, e, b, l) = Str!Put(mem, e, Append(q, 0))
  BY <1>7, <1>9, <1>10, EndedIsPut, ZenonT(40)
<1> QED
  BY <1>1, <1>2, <1>3, <1>5, <1>11, <1>12 DEF Right, WithEnd

\* strcat does all but the 0 at the end: right where a 0 was there already.
LEMMA strcat_Right ==
  ASSUME NEW mem \in Mem, NEW a \in Address, NEW b \in Address, NEW n \in 0..MemSize,
         May("strcat", mem, a, b, n)
  PROVE  Right("strcat", mem, a, b, n)
<1> DEFINE l == Str!LengthOf(mem, b)
           e == Str!EndOf(mem, a)
<1>1. Returned("strcat", mem, a, b, n) = Str!CopyUp(mem, e, b, l)
  BY DEF Returned, Str!strcat
<1>2. InC("strcat", mem, a, b, n) = Str!Put(mem, a + Len(S(mem, a)), Append(S(mem, b), 0))
  BY DEF InC
<1>3. Differs("strcat", mem, a, b, n) <=> mem[a + Len(S(mem, a)) + Len(S(mem, b))] # 0
  BY DEF Differs
<1>4. /\ IsString(mem, a) /\ IsString(mem, b)
      /\ Fits(a, Str!LengthOf(mem, a) + l + 1)
      /\ Apart(a, Str!LengthOf(mem, a) + l + 1, b, l + 1)
  BY DEF May
<1>5. /\ e \in Nat /\ e >= a /\ Str!LengthOf(mem, a) = e - a /\ Len(S(mem, a)) = e - a
      /\ a + (e - a) = e
  BY <1>4, StringIs
<1>6. /\ l \in Nat /\ S(mem, b) \in Seq(Char) /\ Len(S(mem, b)) = l /\ b + l <= MemSize
      /\ \A k \in 1..l : S(mem, b)[k] = mem[b + k - 1]
  BY SMTT(30), <1>4, StringIs
<1> HIDE DEF l, e
<1>7. /\ e \in Nat \ {0} /\ b \in Nat \ {0} /\ e + l <= MemSize /\ e + l - 1 <= MemSize
      /\ b + l - 1 <= MemSize /\ (e <= b \/ b + l <= e) /\ e + l \in 1..MemSize
      /\ e + l \notin e..(e + l - 1)
  BY <1>4, <1>5, <1>6, Memory DEF Fits, Apart
<1>8. Str!CopyUp(mem, e, b, l) = Copied(mem, e, b, l)
  BY <1>6, <1>7, CopyUpIs
<1>9. WithEnd(mem, e, b, l) = Str!Put(mem, e, Append(S(mem, b), 0))
  BY <1>6, <1>7, EndedIsPut, ZenonT(90)
<1>10. Copied(mem, e, b, l)[e + l] = mem[e + l] /\ DOMAIN Copied(mem, e, b, l) = 1..MemSize
       /\ Copied(mem, e, b, l) = [k \in 1..MemSize |-> Copied(mem, e, b, l)[k]]
  BY <1>7 DEF Copied
<1>11. Copied(mem, e, b, l) = [Copied(mem, e, b, l) EXCEPT ![e + l] = 0] <=> mem[e + l] = 0
  <2> DEFINE f == Copied(mem, e, b, l)
  <2> HIDE DEF f
  <2>1. f[e + l] = mem[e + l] /\ DOMAIN f = 1..MemSize /\ f = [k \in 1..MemSize |-> f[k]]
    BY <1>10 DEF f
  <2>2. [f EXCEPT ![e + l] = 0][e + l] = 0
    BY <1>7, <2>1
  <2>3. mem[e + l] = 0 => f = [f EXCEPT ![e + l] = 0]
    BY <1>7, <2>1
  <2> QED
    BY <2>1, <2>2, <2>3 DEF f
<1> QED
  BY <1>1, <1>2, <1>3, <1>5, <1>6, <1>8, <1>9, <1>11 DEF Right, WithEnd

\* strncpy fills nothing up: right where all behind the string was 0 already.
LEMMA strncpy_Right ==
  ASSUME NEW mem \in Mem, NEW a \in Address, NEW b \in Address, NEW n \in 0..MemSize,
         May("strncpy", mem, a, b, n)
  PROVE  Right("strncpy", mem, a, b, n)
<1> DEFINE l == Str!LengthOf(mem, b)
           m == Str!AtMost(l, n)
           q == [k \in 1..n |-> IF k <= Len(S(mem, b)) THEN S(mem, b)[k] ELSE 0]
           w == Copied(mem, a, b, m)
           v == Str!Put(mem, a, q)
<1>1. Returned("strncpy", mem, a, b, n) = Str!CopyUp(mem, a, b, m)
  BY DEF Returned, Str!strncpy
<1>2. InC("strncpy", mem, a, b, n) = v
  BY DEF InC
<1>3. Differs("strncpy", mem, a, b, n) <=> \E k \in (a + Len(S(mem, b)))..(a + n - 1) : mem[k] # 0
  BY DEF Differs
<1>4. IsString(mem, b) /\ Fits(a, n) /\ Apart(a, n, b, l + 1)
  BY DEF May
<1>5. /\ l \in Nat /\ S(mem, b) \in Seq(Char) /\ Len(S(mem, b)) = l /\ b + l <= MemSize
      /\ \A k \in 1..l : S(mem, b)[k] = mem[b + k - 1]
  BY <1>4, StringIs
<1>6. /\ m \in Nat /\ m <= l /\ m <= n /\ (m = l \/ m = n) /\ n \in Nat
      /\ Len(q) = n /\ \A k \in 1..n : q[k] = IF k <= l THEN mem[b + k - 1] ELSE 0
  BY <1>5 DEF Str!AtMost
<1>7. /\ MemSize \in Nat /\ mem \in [1..MemSize -> Char] /\ DOMAIN mem = 1..MemSize
      /\ a \in Nat \ {0} /\ b \in Nat \ {0}
  BY Memory
<1> HIDE DEF l, m, q
<1>8. /\ a + m - 1 <= MemSize /\ b + m - 1 <= MemSize /\ (a <= b \/ b + m <= a)
      /\ a + n - 1 <= MemSize
  BY <1>4, <1>5, <1>6, <1>7 DEF Fits, Apart
<1>9. Str!CopyUp(mem, a, b, m) = w
  BY <1>6, <1>7, <1>8, CopyUpIs
<1>10. /\ w = [k \in 1..MemSize |-> w[k]] /\ v = [k \in 1..MemSize |-> v[k]]
       /\ \A k \in 1..MemSize : w[k] = IF k \in a..(a + m - 1) THEN mem[b + k - a] ELSE mem[k]
       /\ \A k \in 1..MemSize : v[k] = IF k \in a..(a + n - 1) THEN q[k - a + 1] ELSE mem[k]
  BY <1>6, <1>7 DEF Copied, Str!Put
<1> HIDE DEF w, v
<1>11. ASSUME NEW k \in 1..MemSize, k \notin (a + l)..(a + n - 1)
       PROVE  w[k] = v[k]
  <2>1. CASE k \in a..(a + m - 1)
    <3>1. /\ k \in a..(a + n - 1) /\ k - a + 1 \in 1..n /\ k - a + 1 <= l
          /\ b + (k - a + 1) - 1 = b + k - a
      BY <1>5, <1>6, <1>7, <2>1
    <3> QED
      BY <1>6, <1>10, <2>1, <3>1
  <2>2. CASE k \notin a..(a + m - 1)
    <3>1. k \notin a..(a + n - 1)
      BY <1>5, <1>6, <1>7, <1>11, <2>2
    <3> QED
      BY <1>10, <2>2, <3>1
  <2> QED
    BY <2>1, <2>2
<1>12. ASSUME NEW k \in (a + l)..(a + n - 1)
       PROVE  k \in 1..MemSize /\ w[k] = mem[k] /\ v[k] = 0
  <2>1. /\ k \in 1..MemSize /\ k \notin a..(a + m - 1) /\ k \in a..(a + n - 1)
        /\ k - a + 1 \in 1..n /\ ~ (k - a + 1 <= l)
    BY <1>5, <1>6, <1>7, <1>8
  <2> QED
    BY <1>6, <1>10, <2>1
<1>13. w = v <=> \A k \in (a + l)..(a + n - 1) : mem[k] = 0
  <2>1. w = v => \A k \in (a + l)..(a + n - 1) : mem[k] = 0
    BY <1>12
  <2>2. ASSUME \A k \in (a + l)..(a + n - 1) : mem[k] = 0
        PROVE  \A k \in 1..MemSize : w[k] = v[k]
    BY <1>11, <1>12, <2>2
  <2> QED
    BY <1>10, <2>1, <2>2
<1> QED
  BY <1>1, <1>2, <1>3, <1>5, <1>9, <1>13 DEF Right

\* strlen counts the 0 as well: never right.
LEMMA strlen_Right ==
  ASSUME NEW mem \in Mem, NEW a \in Address, NEW b \in Address, NEW n \in 0..MemSize,
         May("strlen", mem, a, b, n)
  PROVE  Right("strlen", mem, a, b, n)
<1>1. Returned("strlen", mem, a, b, n) = Str!EndOf(mem, a) + 1 - a
  BY DEF Returned, Str!strlen
<1>2. InC("strlen", mem, a, b, n) = Len(S(mem, a))
  BY DEF InC
<1>3. Differs("strlen", mem, a, b, n)
  BY DEF Differs
<1>4. IsString(mem, a)
  BY DEF May
<1>5. Len(S(mem, a)) = Str!EndOf(mem, a) - a /\ Str!EndOf(mem, a) \in Nat /\ a \in Nat
  BY <1>4, StringIs
<1> QED
  BY <1>1, <1>2, <1>3, <1>5 DEF Right

\* The places of a character in a string: those of its byte, its end apart, if it
\* was passed as a char of its value is, or else none.
LEMMA FoundIs ==
  ASSUME NEW mem \in Mem, NEW a \in Address, IsString(mem, a), NEW n \in Passing
  PROVE  LET z == a + Len(S(mem, a))
             Same == {k \in a..z : mem[k] = n % CHAR}
         IN  /\ a \in Nat \ {0} /\ z \in Nat /\ z <= MemSize /\ MemSize \in Nat
             /\ Str!Found(mem, a, n) = IF n % CHAR = 0 \/ Str!Plain(n % CHAR) # n THEN {} ELSE Same
<1> DEFINE e == Str!EndOf(mem, a)
           z == a + Len(S(mem, a))
           c == n % CHAR
<1>1. /\ e \in a..MemSize /\ e \in Nat /\ a \in Nat \ {0} /\ Len(S(mem, a)) = e - a /\ MemSize \in Nat
      /\ mem[e] = 0 /\ \A k \in a..(e - 1) : mem[k] # 0
  BY StringIs, Memory
<1>2. Str!Found(mem, a, n) = {k \in a..(e - 1) : Str!Plain(mem[k]) = n}
  BY DEF Str!Found
<1> HIDE DEF e
<1>3. z = e
  BY <1>1
<1>4. ASSUME NEW k \in a..(e - 1)
      PROVE  Str!Plain(mem[k]) = n <=> c # 0 /\ Str!Plain(c) = n /\ mem[k] = c
  <2>1. k \in 1..MemSize /\ mem[k] # 0
    BY <1>1
  <2>2. mem[k] \in 0..(CHAR - 1)
    BY <2>1, Memory
  <2>3. Str!Plain(mem[k]) % CHAR = mem[k]
    BY <2>2, PlainIs
  <2>4. Str!Plain(mem[k]) = n => c = mem[k]
    BY <2>3
  <2> HIDE DEF c
  <2> QED
    BY <2>1, <2>4
<1>5. ASSUME c # 0
      PROVE  {k \in a..(e - 1) : mem[k] = c} = {k \in a..e : mem[k] = c}
  <2> HIDE DEF c
  <2>1. \A k \in a..e : k \in a..(e - 1) \/ k = e
    BY <1>1
  <2>2. \A k \in a..(e - 1) : k \in a..e
    BY <1>1
  <2> QED
    BY <1>1, <1>5, <2>1, <2>2
<1>6. CASE c = 0 \/ Str!Plain(c) # n
  <2> HIDE DEF c
  <2> QED
    BY <1>1, <1>2, <1>3, <1>4, <1>6 DEF c
<1>7. CASE ~ (c = 0 \/ Str!Plain(c) # n)
  <2>1. Str!Found(mem, a, n) = {k \in a..(e - 1) : mem[k] = c}
    <3> HIDE DEF c
    <3> QED
      BY <1>2, <1>4, <1>7
  <2> QED
    BY <1>1, <1>3, <1>5, <1>7, <2>1
<1> QED
  BY <1>6, <1>7

LEMMA strchr_Right ==
  ASSUME NEW mem \in Mem, NEW a \in Address, NEW b \in Address, NEW n \in Passing,
         May("strchr", mem, a, b, n)
  PROVE  Right("strchr", mem, a, b, n)
<1> DEFINE c == n % CHAR
           z == a + Len(S(mem, a))
           T == {k \in a..z : mem[k] = c}
           First(k) == k >= a /\ mem[k] = c /\ \A j \in a..(k - 1) : mem[j] # c
           Missed == c = 0 \/ Str!Plain(c) # n
           Value == IF \E k \in a..z : mem[k] = c THEN CHOOSE k \in Address : First(k) ELSE 0
<1>1. Returned("strchr", mem, a, b, n) = IF Str!Found(mem, a, n) = {} THEN 0 ELSE Str!Min(Str!Found(mem, a, n))
  BY DEF Returned, Str!strchr, Str!NULL
<1>2. InC("strchr", mem, a, b, n) = Value
  BY DEF InC
<1>3. Differs("strchr", mem, a, b, n) <=> Value # 0 /\ Missed
  BY <1>2 DEF Differs
<1>4. IsString(mem, a)
  BY DEF May
<1>5. /\ a \in Nat \ {0} /\ z \in Nat /\ z <= MemSize /\ MemSize \in Nat
      /\ Str!Found(mem, a, n) = IF Missed THEN {} ELSE T
  BY <1>4, FoundIs
<1> HIDE DEF c, z, Missed
<1>6. CASE T = {}
  <2>1. Value = 0 /\ Str!Found(mem, a, n) = {}
    BY <1>5, <1>6
  <2> QED
    BY <1>1, <1>2, <1>3, <2>1 DEF Right
<1>7. CASE T # {}
  <2>1. T \subseteq Nat
    BY <1>5
  <2>2. Str!Min(T) \in T /\ \A y \in T : Str!Min(T) <= y
    <3> HIDE DEF T
    <3> QED
      BY <1>7, <2>1, MinIn
  <2> DEFINE x == Str!Min(T)
  <2>3. x \in a..z /\ mem[x] = c /\ \A y \in a..z : mem[y] = c => x <= y
    BY <2>2
  <2> HIDE DEF x
  <2>4. x \in Address /\ First(x)
    BY <1>5, <2>3, Memory
  <2>5. ASSUME NEW k \in Address, First(k)
        PROVE  k = x
    <3>1. k \in Nat /\ x \in Nat
      BY <2>4, Memory
    <3>2. ~ (k < x)
      BY <1>5, <2>3, <2>5, <3>1
    <3>3. ~ (x < k)
      BY <1>5, <2>3, <2>5, <3>1
    <3> QED
      BY <3>1, <3>2, <3>3
  <2>6. (CHOOSE k \in Address : First(k)) = x
    <3> HIDE DEF First
    <3> QED
      BY <2>4, <2>5
  <2>7. Value = x /\ x # 0
    BY <1>5, <1>7, <2>3, <2>6
  <2>8. Returned("strchr", mem, a, b, n) = IF Missed THEN 0 ELSE x
    BY <1>1, <1>5, <1>7 DEF x
  <2> HIDE DEF Value
  <2> QED
    BY <1>2, <1>3, <2>7, <2>8 DEF Right
<1> QED
  BY <1>6, <1>7

LEMMA strrchr_Right ==
  ASSUME NEW mem \in Mem, NEW a \in Address, NEW b \in Address, NEW n \in Passing,
         May("strrchr", mem, a, b, n)
  PROVE  Right("strrchr", mem, a, b, n)
<1> DEFINE c == n % CHAR
           z == a + Len(S(mem, a))
           T == {k \in a..z : mem[k] = c}
           Last(k) == mem[k] = c /\ \A j \in (k + 1)..z : mem[j] # c
           Missed == c = 0 \/ Str!Plain(c) # n
           Value == IF \E k \in a..z : mem[k] = c THEN CHOOSE k \in a..z : Last(k) ELSE 0
<1>1. Returned("strrchr", mem, a, b, n) = IF Str!Found(mem, a, n) = {} THEN 0 ELSE Str!Max(Str!Found(mem, a, n))
  BY DEF Returned, Str!strrchr, Str!NULL
<1>2. InC("strrchr", mem, a, b, n) = Value
  BY DEF InC
<1>3. Differs("strrchr", mem, a, b, n) <=> Value # 0 /\ Missed
  BY <1>2 DEF Differs
<1>4. IsString(mem, a)
  BY DEF May
<1>5. /\ a \in Nat \ {0} /\ z \in Nat /\ z <= MemSize /\ MemSize \in Nat
      /\ Str!Found(mem, a, n) = IF Missed THEN {} ELSE T
  BY <1>4, FoundIs
<1> HIDE DEF c, z, Missed
<1>6. CASE T = {}
  <2>1. Value = 0 /\ Str!Found(mem, a, n) = {}
    BY <1>5, <1>6
  <2> QED
    BY <1>1, <1>2, <1>3, <2>1 DEF Right
<1>7. CASE T # {}
  <2>1. T \subseteq 0..MemSize /\ T \subseteq Nat
    BY <1>5
  <2>2. PICK x \in T : \A y \in T : y <= x
    <3> HIDE DEF T
    <3> QED
      BY <1>5, <1>7, <2>1, Greatest
  <2>3. Str!Max(T) = x
    <3> HIDE DEF T
    <3> QED
      BY <2>1, <2>2, MaxIs
  <2>4. x \in a..z /\ mem[x] = c /\ \A y \in a..z : mem[y] = c => y <= x
    BY <2>2
  <2>5. Last(x)
    BY <1>5, <2>4
  <2>6. ASSUME NEW k \in a..z, Last(k)
        PROVE  k = x
    BY <1>5, <2>4, <2>6
  <2>7. (CHOOSE k \in a..z : Last(k)) = x
    <3> HIDE DEF Last
    <3> QED
      BY <2>4, <2>5, <2>6
  <2>8. Value = x /\ x # 0
    BY <1>5, <2>4, <2>7
  <2>9. Returned("strrchr", mem, a, b, n) = IF Missed THEN 0 ELSE x
    BY <1>1, <1>5, <1>7, <2>3
  <2> HIDE DEF Value
  <2> QED
    BY <1>2, <1>3, <2>8, <2>9 DEF Right
<1> QED
  BY <1>6, <1>7

\* Dictionary order, as Order asks for it.
Before(q, r) ==
  \E i \in 1..Len(r) : /\ Len(q) >= i - 1 /\ SubSeq(q, 1, i - 1) = SubSeq(r, 1, i - 1)
                       /\ Len(q) >= i => q[i] < r[i]

\* The first m characters agree and there it ends, or the next do not.
Agree(q, r, m) ==
  /\ m \in Nat /\ m <= Len(q) /\ m <= Len(r)
  /\ \A k \in 1..m : q[k] = r[k]
  /\ m < Len(q) /\ m < Len(r) => q[m + 1] # r[m + 1]

\* The character behind the first m, 0 if the string has no more.
Following(q, m) == IF m < Len(q) THEN q[m + 1] ELSE 0

LEMMA BeforeIs ==
  ASSUME NEW q \in Seq(Nat), NEW r \in Seq(Nat), NEW m, Agree(q, r, m)
  PROVE  Before(q, r) <=> m < Len(r) /\ (m < Len(q) => q[m + 1] < r[m + 1])
<1>1. m \in Nat /\ Len(q) \in Nat /\ Len(r) \in Nat /\ m <= Len(q) /\ m <= Len(r)
  BY DEF Agree
<1>2. ASSUME m < Len(r), m < Len(q) => q[m + 1] < r[m + 1]
      PROVE  Before(q, r)
  <2>1. m + 1 \in 1..Len(r) /\ Len(q) >= (m + 1) - 1 /\ (m + 1) - 1 = m
    BY <1>1, <1>2
  <2>2. SubSeq(q, 1, m) = SubSeq(r, 1, m)
    <3>1. \A k \in 1..m : q[k] = r[k]
      BY DEF Agree
    <3> QED
      BY <1>1, <3>1
  <2>3. Len(q) >= m + 1 => q[m + 1] < r[m + 1]
    BY <1>1, <1>2
  <2> QED
    BY <2>1, <2>2, <2>3 DEF Before
<1>3. ASSUME Before(q, r)
      PROVE  m < Len(r) /\ (m < Len(q) => q[m + 1] < r[m + 1])
  <2>1. PICK i \in 1..Len(r) : /\ Len(q) >= i - 1 /\ SubSeq(q, 1, i - 1) = SubSeq(r, 1, i - 1)
                               /\ Len(q) >= i => q[i] < r[i]
    BY <1>3 DEF Before
  <2>2. \A k \in 1..(i - 1) : q[k] = r[k]
    <3>1. \A k \in 1..(i - 1) : SubSeq(q, 1, i - 1)[k] = q[k]
      BY <1>1, <2>1
    <3>2. \A k \in 1..(i - 1) : SubSeq(r, 1, i - 1)[k] = r[k]
      BY <1>1, <2>1
    <3> QED
      BY <2>1, <3>1, <3>2
  <2>3. ~ (i - 1 > m)
    <3>1. ASSUME i - 1 > m
          PROVE  FALSE
      <4>1. m + 1 \in 1..(i - 1) /\ m < Len(q) /\ m < Len(r)
        BY <1>1, <2>1, <3>1
      <4> QED
        BY <2>2, <4>1 DEF Agree
    <3> QED
      BY <3>1
  <2>4. ~ (i - 1 < m)
    <3>1. ASSUME i - 1 < m
          PROVE  FALSE
      <4>1. i \in 1..m /\ Len(q) >= i /\ i \in 1..Len(q)
        BY <1>1, <2>1, <3>1
      <4>2. q[i] = r[i] /\ q[i] < r[i] /\ q[i] \in Nat
        BY <2>1, <4>1 DEF Agree
      <4> QED
        BY <4>2
    <3> QED
      BY <3>1
  <2>5. i = m + 1
    BY <1>1, <2>1, <2>3, <2>4
  <2> QED
    BY <1>1, <2>1, <2>5
<1> QED
  BY <1>2, <1>3

\* Strings without 0 are ordered like the characters behind what they share.
LEMMA OrderIs ==
  ASSUME NEW q \in Seq(Nat \ {0}), NEW r \in Seq(Nat \ {0}), NEW m, Agree(q, r, m)
  PROVE  Str!Order(q, r) = Str!Sign(Following(q, m) - Following(r, m))
<1>1. q \in Seq(Nat) /\ r \in Seq(Nat) /\ m \in Nat /\ Len(q) \in Nat /\ Len(r) \in Nat
  BY DEF Agree
<1>2. Agree(r, q, m)
  BY DEF Agree
<1>3. Str!Order(q, r) = IF Before(q, r) THEN -1 ELSE IF Before(r, q) THEN 1 ELSE 0
  BY DEF Str!Order, Before
<1>4. Before(q, r) <=> m < Len(r) /\ (m < Len(q) => q[m + 1] < r[m + 1])
  BY <1>1, BeforeIs
<1>5. Before(r, q) <=> m < Len(q) /\ (m < Len(r) => r[m + 1] < q[m + 1])
  BY <1>1, <1>2, BeforeIs
<1>6. /\ m < Len(q) => q[m + 1] \in Nat /\ q[m + 1] > 0
      /\ m < Len(r) => r[m + 1] \in Nat /\ r[m + 1] > 0
  <2>1. /\ m < Len(q) => m + 1 \in 1..Len(q)
        /\ m < Len(r) => m + 1 \in 1..Len(r)
    BY <1>1
  <2>2. (m < Len(q) => q[m + 1] \in Nat \ {0}) /\ (m < Len(r) => r[m + 1] \in Nat \ {0})
    BY <2>1
  <2> QED
    BY <2>2
<1>7. m < Len(q) /\ m < Len(r) => q[m + 1] # r[m + 1]
  BY DEF Agree
<1> QED
  BY <1>1, <1>3, <1>4, <1>5, <1>6, <1>7 DEF Str!Sign, Following

\* What two strings of memory share, seen from where the comparison stops.
LEMMA SharedIs ==
  ASSUME NEW mem \in Mem, NEW a \in Address, NEW b \in Address, IsString(mem, a), IsString(mem, b),
         NEW m \in Nat, \A k \in 0..(m - 1) : mem[a + k] = mem[b + k] /\ mem[a + k] # 0,
         a + m <= MemSize, b + m <= MemSize
  PROVE  /\ m <= Len(S(mem, a)) /\ m <= Len(S(mem, b))
         /\ \A k \in 1..m : S(mem, a)[k] = S(mem, b)[k]
         /\ Following(S(mem, a), m) = mem[a + m] /\ Following(S(mem, b), m) = mem[b + m]
         /\ S(mem, a) \in Seq(Nat \ {0}) /\ S(mem, b) \in Seq(Nat \ {0})
<1> DEFINE q == S(mem, a)
           r == S(mem, b)
           d == Str!EndOf(mem, a)
           e == Str!EndOf(mem, b)
<1>1. /\ d \in a..MemSize /\ d \in Nat /\ a \in Nat \ {0} /\ mem[d] = 0 /\ d - a \in Nat
      /\ \A k \in a..(d - 1) : mem[k] # 0
      /\ q \in Seq(Char) /\ Len(q) = d - a
      /\ \A k \in 1..(d - a) : q[k] = mem[a + k - 1] /\ a + k - 1 \in a..(d - 1)
  BY StringIs
<1>2. /\ e \in b..MemSize /\ e \in Nat /\ b \in Nat \ {0} /\ mem[e] = 0 /\ e - b \in Nat
      /\ \A k \in b..(e - 1) : mem[k] # 0
      /\ r \in Seq(Char) /\ Len(r) = e - b
      /\ \A k \in 1..(e - b) : r[k] = mem[b + k - 1] /\ b + k - 1 \in b..(e - 1)
  BY StringIs
<1>3. MemSize \in Nat /\ \A k \in 1..MemSize : mem[k] \in Nat
  BY Memory
<1> HIDE DEF q, r, d, e
<1>4. m <= d - a
  <2>1. ASSUME d - a < m
        PROVE  FALSE
    <3>1. d - a \in 0..(m - 1) /\ a + (d - a) = d
      BY <1>1, <2>1
    <3>2. mem[a + (d - a)] # 0
      BY <3>1
    <3> QED
      BY <1>1, <3>1, <3>2
  <2> QED
    BY <1>1, <2>1
<1>5. m <= e - b
  <2>1. ASSUME e - b < m
        PROVE  FALSE
    <3>1. e - b \in 0..(m - 1) /\ b + (e - b) = e
      BY <1>2, <2>1
    <3>2. mem[b + (e - b)] # 0
      BY <3>1
    <3> QED
      BY <1>2, <3>1, <3>2
  <2> QED
    BY <1>2, <2>1
<1>6. ASSUME NEW k \in 1..m
      PROVE  q[k] = r[k]
  <2>1. /\ k \in 1..(d - a) /\ k \in 1..(e - b) /\ k - 1 \in 0..(m - 1)
        /\ a + (k - 1) = a + k - 1 /\ b + (k - 1) = b + k - 1
    BY <1>1, <1>2, <1>4, <1>5
  <2>2. mem[a + (k - 1)] = mem[b + (k - 1)]
    BY <2>1
  <2> QED
    BY <1>1, <1>2, <2>1, <2>2
<1>7. Following(q, m) = mem[a + m]
  <2>1. CASE m < d - a
    <3>1. m + 1 \in 1..(d - a) /\ a + (m + 1) - 1 = a + m
      BY <1>1, <2>1
    <3>2. q[m + 1] = mem[a + m]
      BY <1>1, <3>1
    <3> QED
      BY <1>1, <2>1, <3>2 DEF Following
  <2>2. CASE ~ (m < d - a)
    <3>1. a + m = d
      BY <1>1, <1>4, <2>2
    <3> QED
      BY <1>1, <2>2, <3>1 DEF Following
  <2> QED
    BY <2>1, <2>2
<1>8. Following(r, m) = mem[b + m]
  <2>1. CASE m < e - b
    <3>1. m + 1 \in 1..(e - b) /\ b + (m + 1) - 1 = b + m
      BY <1>2, <2>1
    <3>2. r[m + 1] = mem[b + m]
      BY <1>2, <3>1
    <3> QED
      BY <1>2, <2>1, <3>2 DEF Following
  <2>2. CASE ~ (m < e - b)
    <3>1. b + m = e
      BY <1>2, <1>5, <2>2
    <3> QED
      BY <1>2, <2>2, <3>1 DEF Following
  <2> QED
    BY <2>1, <2>2
<1>9. q \in Seq(Nat \ {0})
  <2>1. \A k \in 1..(d - a) : q[k] \in Nat \ {0}
    <3>1. \A k \in a..(d - 1) : k \in 1..MemSize
      BY <1>1, <1>3
    <3> QED
      BY <1>1, <1>3, <3>1
  <2> QED
    BY <1>1, <2>1
<1>10. r \in Seq(Nat \ {0})
  <2>1. \A k \in 1..(e - b) : r[k] \in Nat \ {0}
    <3>1. \A k \in b..(e - 1) : k \in 1..MemSize
      BY <1>2, <1>3
    <3> QED
      BY <1>2, <1>3, <3>1
  <2> QED
    BY <1>2, <2>1
<1> QED
  BY <1>1, <1>2, <1>4, <1>5, <1>6, <1>7, <1>8, <1>9, <1>10 DEF q, r

\* Whether the signs differ shows where the comparison stops.
LEMMA SignsDifferIs ==
  ASSUME NEW mem, NEW a, NEW b, NEW l \in Nat, NEW m \in 0..l,
         \A k \in 0..(m - 1) : mem[a + k] = mem[b + k],
         mem[a + m] # mem[b + m] \/ m = l
  PROVE  SignsDiffer(mem, a, b, l) <=> High(mem[a + m]) # High(mem[b + m])
<1>1. ASSUME High(mem[a + m]) # High(mem[b + m])
      PROVE  SignsDiffer(mem, a, b, l)
  BY <1>1 DEF SignsDiffer
<1>2. ASSUME SignsDiffer(mem, a, b, l)
      PROVE  High(mem[a + m]) # High(mem[b + m])
  <2>1. PICK i \in 0..l : /\ \A k \in 0..(i - 1) : mem[a + k] = mem[b + k]
                          /\ High(mem[a + i]) # High(mem[b + i])
    BY <1>2 DEF SignsDiffer
  <2>2. mem[a + i] # mem[b + i]
    BY <2>1
  <2>3. ~ (i < m)
    BY <2>2
  <2>4. ~ (m < i)
    <3>1. m < i => m \in 0..(i - 1) /\ m # l
      OBVIOUS
    <3> QED
      BY <2>1, <3>1
  <2>5. i = m
    BY <2>3, <2>4
  <2> QED
    BY <2>1, <2>5
<1> QED
  BY <1>1, <1>2

LEMMA strcmp_Right ==
  ASSUME NEW mem \in Mem, NEW a \in Address, NEW b \in Address, NEW n \in 0..MemSize,
         May("strcmp", mem, a, b, n)
  PROVE  Right("strcmp", mem, a, b, n)
<1> DEFINE l == Str!AtMost(Str!LengthOf(mem, a), Str!LengthOf(mem, b))
           T == {k \in 0..l : mem[a + k] # mem[b + k] \/ mem[a + k] = 0}
           m == Str!Min(T)
<1>1. Returned("strcmp", mem, a, b, n) = Str!Sign(Str!Plain(mem[a + m]) - Str!Plain(mem[b + m]))
  BY DEF Returned, Str!strcmp
<1>2. InC("strcmp", mem, a, b, n) = Str!Order(S(mem, a), S(mem, b))
  BY DEF InC
<1>3. Differs("strcmp", mem, a, b, n)
        <=> SignsDiffer(mem, a, b, Str!AtMost(Len(S(mem, a)), Len(S(mem, b))))
  BY DEF Differs
<1>4. IsString(mem, a) /\ IsString(mem, b)
  BY DEF May
<1>5. /\ l \in Nat /\ a \in Nat \ {0} /\ b \in Nat \ {0} /\ a + l <= MemSize /\ b + l <= MemSize
      /\ mem[a + l] = 0 \/ mem[b + l] = 0
      /\ \A k \in 0..(l - 1) : mem[a + k] # 0
      /\ Str!AtMost(Len(S(mem, a)), Len(S(mem, b))) = l
      /\ MemSize \in Nat
  <2> DEFINE d == Str!EndOf(mem, a)
             e == Str!EndOf(mem, b)
  <2>1. /\ d \in a..MemSize /\ d \in Nat /\ a \in Nat \ {0} /\ mem[d] = 0
        /\ Str!LengthOf(mem, a) = d - a /\ d - a \in Nat /\ Len(S(mem, a)) = d - a
        /\ \A k \in a..(d - 1) : mem[k] # 0
    BY <1>4, StringIs
  <2>2. /\ e \in b..MemSize /\ e \in Nat /\ b \in Nat \ {0} /\ mem[e] = 0
        /\ Str!LengthOf(mem, b) = e - b /\ e - b \in Nat /\ Len(S(mem, b)) = e - b
    BY <1>4, StringIs
  <2>3. MemSize \in Nat
    BY Memory
  <2> HIDE DEF d, e
  <2>4. /\ l \in Nat /\ l <= d - a /\ l <= e - b /\ (l = d - a \/ l = e - b)
    BY <2>1, <2>2 DEF Str!AtMost
  <2>5. Str!AtMost(Len(S(mem, a)), Len(S(mem, b))) = l
    BY <2>1, <2>2
  <2> HIDE DEF l
  <2>6. \A k \in 0..(l - 1) : a + k \in a..(d - 1)
    BY <2>1, <2>4
  <2>7. (l = d - a => a + l = d) /\ (l = e - b => b + l = e) /\ a + l <= MemSize /\ b + l <= MemSize
    BY <2>1, <2>2, <2>3, <2>4
  <2> QED
    BY <2>1, <2>2, <2>3, <2>4, <2>7, <2>5, <2>6
<1> HIDE DEF l
<1>6. T \subseteq Nat /\ T # {}
  <2>1. T \subseteq Nat
    OBVIOUS
  <2>2. l \in 0..l /\ (mem[a + l] # mem[b + l] \/ mem[a + l] = 0)
    BY <1>5
  <2> QED
    BY <2>1, <2>2
<1>7. m \in T /\ \A y \in T : m <= y
  <2> HIDE DEF T
  <2> QED
    BY <1>6, MinIn
<1>8. m \in 0..l /\ (mem[a + m] # mem[b + m] \/ mem[a + m] = 0)
  BY <1>7
<1>9. \A k \in 0..(m - 1) : mem[a + k] = mem[b + k] /\ mem[a + k] # 0
  <2>1. \A k \in 0..(m - 1) : k \in 0..l /\ ~ (m <= k)
    BY <1>5, <1>8
  <2> QED
    BY <1>7, <2>1
<1> HIDE DEF T, m
<1>10. m \in Nat /\ a + m <= MemSize /\ b + m <= MemSize
  BY <1>5, <1>8
<1>11. /\ m <= Len(S(mem, a)) /\ m <= Len(S(mem, b))
       /\ \A k \in 1..m : S(mem, a)[k] = S(mem, b)[k]
       /\ Following(S(mem, a), m) = mem[a + m] /\ Following(S(mem, b), m) = mem[b + m]
       /\ S(mem, a) \in Seq(Nat \ {0}) /\ S(mem, b) \in Seq(Nat \ {0})
  BY <1>4, <1>9, <1>10, SharedIs
<1>12. Agree(S(mem, a), S(mem, b), m)
  <2> DEFINE q == S(mem, a)
             r == S(mem, b)
  <2> HIDE DEF q, r
  <2>1. ASSUME m < Len(q), m < Len(r)
        PROVE  q[m + 1] # r[m + 1]
    <3>1. q[m + 1] = mem[a + m] /\ r[m + 1] = mem[b + m] /\ m + 1 \in 1..Len(q) /\ q \in Seq(Nat \ {0})
      BY <1>10, <1>11, <2>1 DEF Following, q, r
    <3>2. q[m + 1] # 0
      BY <3>1
    <3> QED
      BY <1>8, <3>1, <3>2
  <2> QED
    BY <1>10, <1>11, <2>1 DEF Agree, q, r
<1> DEFINE x == mem[a + m]
           y == mem[b + m]
<1>13. x \in 0..(CHAR - 1) /\ y \in 0..(CHAR - 1)
  <2>1. a + m \in 1..MemSize /\ b + m \in 1..MemSize
    BY <1>5, <1>10
  <2> QED
    BY <2>1, Memory
<1>14. Str!Order(S(mem, a), S(mem, b)) = Str!Sign(x - y)
  BY <1>11, <1>12, OrderIs
<1>15. SignsDiffer(mem, a, b, l) <=> High(x) # High(y)
  <2>1. x # y \/ m = l
    <3>1. x = y => ~ (m \in 0..(l - 1))
      BY <1>5, <1>8
    <3> QED
      BY <1>5, <1>8, <3>1
  <2>2. l \in Nat /\ m \in 0..l /\ \A k \in 0..(m - 1) : mem[a + k] = mem[b + k]
    BY <1>5, <1>8, <1>9
  <2> QED
    BY <2>1, <2>2, SignsDifferIs
<1>16. Returned("strcmp", mem, a, b, n) = Str!Sign(Str!Plain(x) - Str!Plain(y))
  BY <1>1 DEF m, T
<1> HIDE DEF x, y
<1>17. Str!Sign(Str!Plain(x) - Str!Plain(y)) = Str!Sign(x - y) <=> ~ (High(x) # High(y))
  BY <1>13, PlainOrder
<1> QED
  BY <1>2, <1>3, <1>5, <1>14, <1>15, <1>16, <1>17 DEF Right

\* strncmp goes on behind the end and looks at one character too many: right
\* unless the strings are equal so far and it finds a difference behind, or the
\* first difference is one of signs.
LEMMA strncmp_Right ==
  ASSUME NEW mem \in Mem, NEW a \in Address, NEW b \in Address, NEW n \in 0..MemSize,
         May("strncmp", mem, a, b, n)
  PROVE  Right("strncmp", mem, a, b, n)
<1> DEFINE T == {k \in 0..n : mem[a + k] # mem[b + k] \/ k = n}
           i == Str!Min(T)
           U == {k \in 0..n : mem[a + k] # mem[b + k] \/ mem[a + k] = 0 \/ k = n}
           m == Str!Min(U)
           q == Str!Prefix(S(mem, a), n)
           r == Str!Prefix(S(mem, b), n)
           Different == \E k \in 0..n : mem[a + k] # mem[b + k]
<1>1. Returned("strncmp", mem, a, b, n) = Str!Sign(Str!Plain(mem[a + i]) - Str!Plain(mem[b + i]))
  BY DEF Returned, Str!strncmp
<1>2. InC("strncmp", mem, a, b, n) = Str!Order(q, r)
  BY DEF InC
<1>3. Differs("strncmp", mem, a, b, n) 
        <=> SignsDiffer(mem, a, b, n) \/ (Str!Order(q, r) = 0 /\ Different)
  BY <1>2 DEF Differs
<1>4. IsString(mem, a) /\ IsString(mem, b) /\ Fits(a, n + 1) /\ Fits(b, n + 1)
  BY DEF May
<1>5. /\ n \in Nat /\ a \in Nat \ {0} /\ b \in Nat \ {0} /\ a + n <= MemSize /\ b + n <= MemSize
      /\ MemSize \in Nat /\ \A k \in 1..MemSize : mem[k] \in Nat
  BY <1>4, Memory DEF Fits
<1>6. i \in T /\ \A y \in T : i <= y
  <2>1. n \in T /\ T \subseteq Nat
    BY <1>5
  <2> HIDE DEF T
  <2> QED
    BY <2>1, MinIn
<1>7. m \in U /\ \A y \in U : m <= y
  <2>1. n \in U /\ U \subseteq Nat
    BY <1>5
  <2> HIDE DEF U
  <2> QED
    BY <2>1, MinIn
<1>8. i \in 0..n /\ (mem[a + i] # mem[b + i] \/ i = n) /\ \A k \in 0..n : mem[a + k] # mem[b + k] => i <= k
  BY <1>6
<1>9. /\ m \in 0..n /\ (mem[a + m] # mem[b + m] \/ mem[a + m] = 0 \/ m = n)
      /\ \A k \in 0..(m - 1) : mem[a + k] = mem[b + k] /\ mem[a + k] # 0
  <2>1. m \in 0..n /\ (mem[a + m] # mem[b + m] \/ mem[a + m] = 0 \/ m = n)
    BY <1>7
  <2>2. \A k \in 0..(m - 1) : k \in 0..n /\ ~ (m <= k)
    BY <1>5, <2>1
  <2> QED
    BY <1>7, <2>1, <2>2
<1> HIDE DEF T, i, U, m, Different
<1>10. /\ mem[a + i] \in 0..(CHAR - 1) /\ mem[b + i] \in 0..(CHAR - 1)
       /\ mem[a + i] \in Nat /\ mem[b + i] \in Nat /\ mem[a + m] \in Nat /\ mem[b + m] \in Nat
       /\ m \in Nat /\ a + m <= MemSize /\ b + m <= MemSize /\ i \in Nat /\ m <= n
  <2>1. /\ a + i \in 1..MemSize /\ b + i \in 1..MemSize /\ a + m \in 1..MemSize /\ b + m \in 1..MemSize
        /\ i \in Nat /\ m \in Nat /\ m <= n
    BY <1>5, <1>8, <1>9
  <2> QED
    BY <1>5, <2>1, Memory
<1> DEFINE x == mem[a + i]
           y == mem[b + i]
<1>11. Str!Sign(Str!Plain(x) - Str!Plain(y)) = 0 <=> ~ Different
  <2>1. Str!Sign(Str!Plain(x) - Str!Plain(y)) = 0 <=> mem[a + i] = mem[b + i]
    BY <1>10, PlainOrder
  <2>2. mem[a + i] # mem[b + i] => Different
    BY <1>8 DEF Different
  <2>3. ASSUME Different
        PROVE  mem[a + i] # mem[b + i]
    <3>1. PICK k \in 0..n : mem[a + k] # mem[b + k]
      BY <2>3 DEF Different
    <3>2. i <= k
      BY <1>8, <3>1
    <3>3. CASE i = n
      BY <1>8, <3>1, <3>2, <3>3
    <3>4. CASE i # n
      BY <1>8, <3>4
    <3> QED
      BY <3>3, <3>4
  <2> QED
    BY <2>1, <2>2, <2>3
<1>12. /\ m <= Len(S(mem, a)) /\ m <= Len(S(mem, b))
       /\ \A k \in 1..m : S(mem, a)[k] = S(mem, b)[k]
       /\ Following(S(mem, a), m) = mem[a + m] /\ Following(S(mem, b), m) = mem[b + m]
       /\ S(mem, a) \in Seq(Nat \ {0}) /\ S(mem, b) \in Seq(Nat \ {0})
  BY <1>4, <1>9, <1>10, SharedIs
<1>13. /\ q \in Seq(Nat \ {0}) /\ r \in Seq(Nat \ {0}) /\ m <= Len(q) /\ m <= Len(r)
       /\ Len(q) <= n /\ Len(r) <= n /\ Len(q) \in Nat /\ Len(r) \in Nat
       /\ \A k \in 1..m : q[k] = r[k]
       /\ m < n => Following(q, m) = mem[a + m] /\ Following(r, m) = mem[b + m]
  <2>1. ASSUME NEW s \in Seq(Nat \ {0}), m <= Len(s)
        PROVE  LET p == Str!Prefix(s, n)
               IN  /\ p \in Seq(Nat \ {0}) /\ m <= Len(p) /\ Len(p) <= n /\ Len(p) \in Nat
                   /\ \A k \in 1..m : p[k] = s[k]
                   /\ m < n => Following(p, m) = Following(s, m)
    <3> DEFINE p == Str!Prefix(s, n)
               j == Str!AtMost(Len(s), n)
    <3>1. j \in Nat /\ j <= Len(s) /\ j <= n /\ m <= j /\ (j = n \/ j = Len(s)) /\ Len(s) \in Nat
      BY <1>5, <1>10, <2>1 DEF Str!AtMost
    <3>2. p = SubSeq(s, 1, j)
      BY DEF Str!Prefix
    <3> HIDE DEF p, j
    <3>3. p \in Seq(Nat \ {0}) /\ Len(p) = j /\ \A k \in 1..j : p[k] = s[k]
      BY <3>1, <3>2
    <3>4. ASSUME m < n
          PROVE  Following(p, m) = Following(s, m)
      <4>1. m < j <=> m < Len(s)
        BY <1>10, <3>1, <3>4
      <4>2. m < j => m + 1 \in 1..j
        BY <1>10, <3>1
      <4> QED
        BY <3>3, <4>1, <4>2 DEF Following
    <3>5. \A k \in 1..m : p[k] = s[k]
      BY SMTT(30), <1>10, <3>1, <3>3
    <3> QED
      BY <3>1, <3>3, <3>4, <3>5 DEF p
  <2>2. /\ q \in Seq(Nat \ {0}) /\ m <= Len(q) /\ Len(q) <= n /\ Len(q) \in Nat
        /\ \A k \in 1..m : q[k] = S(mem, a)[k]
        /\ m < n => Following(q, m) = mem[a + m]
    BY <1>12, <2>1
  <2>3. /\ r \in Seq(Nat \ {0}) /\ m <= Len(r) /\ Len(r) <= n /\ Len(r) \in Nat
        /\ \A k \in 1..m : r[k] = S(mem, b)[k]
        /\ m < n => Following(r, m) = mem[b + m]
    BY <1>12, <2>1
  <2> QED
    BY <1>12, <2>2, <2>3
<1> HIDE DEF q, r
<1>14. Agree(q, r, m)
  <2>1. ASSUME m < Len(q), m < Len(r)
        PROVE  q[m + 1] # r[m + 1]
    <3>1. /\ q[m + 1] = mem[a + m] /\ r[m + 1] = mem[b + m] /\ m + 1 \in 1..Len(q) /\ m # n
      BY <1>5, <1>10, <1>13, <2>1 DEF Following
    <3>2. q[m + 1] # 0
      BY <1>13, <3>1
    <3> QED
      BY <1>9, <3>1, <3>2
  <2> QED
    BY <1>10, <1>13, <2>1 DEF Agree
<1>15. Str!Order(q, r) = Str!Sign(Following(q, m) - Following(r, m))
  BY <1>13, <1>14, OrderIs
<1>16. SignsDiffer(mem, a, b, n) <=> High(x) # High(y)
  <2>1. \A k \in 0..(i - 1) : mem[a + k] = mem[b + k]
    <3>1. \A k \in 0..(i - 1) : k \in 0..n /\ ~ (i <= k)
      BY <1>5, <1>8
    <3> QED
      BY <1>8, <3>1
  <2>2. n \in Nat /\ i \in 0..n /\ (mem[a + i] # mem[b + i] \/ i = n)
    BY <1>5, <1>8
  <2> QED
    BY <2>1, <2>2, SignsDifferIs
<1>17. High(x) # High(y) => Different
  BY <1>8 DEF Different
<1>18. CASE m < n /\ mem[a + m] # mem[b + m]
  <2>1. i = m
    <3>1. i <= m
      BY <1>8, <1>9, <1>18
    <3>2. ~ (i < m)
      <4>1. ASSUME i < m
            PROVE  FALSE
        <5>1. i \in 0..(m - 1) /\ i # n
          BY <1>5, <1>8, <1>10, <1>18, <4>1
        <5> QED
          BY <1>8, <1>9, <5>1
      <4> QED
        BY <4>1
    <3> QED
      BY <1>10, <3>1, <3>2
  <2>2. Str!Order(q, r) = Str!Sign(mem[a + i] - mem[b + i])
    BY <1>13, <1>15, <1>18, <2>1
  <2>3. Str!Order(q, r) # 0
    BY <1>10, <1>18, <2>1, <2>2 DEF Str!Sign
  <2> QED
    BY <1>1, <1>2, <1>3, <1>10, <1>16, <2>2, <2>3, PlainOrder DEF Right
<1>19. CASE ~ (m < n /\ mem[a + m] # mem[b + m])
  <2>1. Following(q, m) = Following(r, m) /\ Following(q, m) \in Nat
    <3>1. CASE m < n
      BY <1>10, <1>13, <1>19, <3>1
    <3>2. CASE ~ (m < n)
      <4>1. ~ (m < Len(q)) /\ ~ (m < Len(r))
        BY <1>5, <1>10, <1>13, <3>2
      <4> QED
        BY <4>1 DEF Following
    <3> QED
      BY <3>1, <3>2
  <2>2. Str!Order(q, r) = 0
    BY <1>15, <2>1 DEF Str!Sign
  <2> QED
    BY <1>1, <1>2, <1>3, <1>11, <1>16, <1>17, <2>2 DEF Right
<1> QED
  BY <1>18, <1>19

\* Every function of string.c, in all it may be called with.
LEMMA AllRight ==
  ASSUME NEW fn \in StringFn, NEW mem \in Mem, NEW a \in Address, NEW b \in Second(fn),
         NEW n \in Third(fn), May(fn, mem, a, b, n)
  PROVE  Right(fn, mem, a, b, n)
<1>1. CASE fn = "memset"
  <2>1. b \in Passing /\ n \in 0..MemSize
    BY <1>1 DEF Second, Third
  <2> QED
    BY <1>1, <2>1, memset_Right
<1>2. CASE fn \in {"strchr", "strrchr"}
  <2>1. b \in Address /\ n \in Passing
    BY <1>2 DEF Second, Third
  <2> QED
    BY <1>2, <2>1, strchr_Right, strrchr_Right
<1>3. CASE fn \in StringFn \ {"memset", "strchr", "strrchr"}
  <2>1. b \in Address /\ n \in 0..MemSize
    BY <1>3 DEF Second, Third
  <2> QED
    BY <1>3, <2>1, strlen_Right, strcmp_Right, strncmp_Right, strcpy_Right, strncpy_Right,
       strcat_Right, strncat_Right, memcpy_Right, memmove_Right DEF StringFn
<1> QED
  BY <1>1, <1>2, <1>3

\* Of a call of a string function what it returned is known.
CallInv ==
  call.fn \in StringFn =>
    Right(call.fn, call.mem, call.a, call.b, call.n) /\
    done.value = Returned(call.fn, call.mem, call.a, call.b, call.n)

LEMMA CallInvFollows == CallInv => AsInC
BY DEF CallInv, AsInC, Right

LEMMA string_call_Preserves == string_call => CallInv'
<1> SUFFICES ASSUME string_call
             PROVE  CallInv'
  OBVIOUS
<1>1. PICK fn \in StringFn : \E mem \in Mem, a \in Address, b \in Second(fn), n \in Third(fn) :
        /\ May(fn, mem, a, b, n)
        /\ call' = [fn |-> fn, mem |-> mem, a |-> a, b |-> b, n |-> n]
        /\ done' = [value |-> Returned(fn, mem, a, b, n)]
  BY DEF string_call
<1>2. PICK mem \in Mem, a \in Address, b \in Second(fn), n \in Third(fn) :
        /\ May(fn, mem, a, b, n)
        /\ call' = [fn |-> fn, mem |-> mem, a |-> a, b |-> b, n |-> n]
        /\ done' = [value |-> Returned(fn, mem, a, b, n)]
  BY <1>1
<1>3. Right(fn, mem, a, b, n)
  BY <1>2, AllRight
<1>4. /\ call'.fn = fn /\ call'.mem = mem /\ call'.a = a /\ call'.b = b /\ call'.n = n
      /\ done'.value = Returned(fn, mem, a, b, n)
  BY <1>2
<1> QED
  BY <1>3, <1>4 DEF CallInv

-----------------------------------------------------------------------------
(* What vsprintf writes *)

\* The digits of both cases.
Glyph == {Fmt!lower_digit[i] : i \in 1..16} \cup {Fmt!upper_digit[i] : i \in 1..16}

LEMMA Glyphs ==
  /\ "0" \in Glyph /\ Digit("0") = 0
  /\ \A c \in Glyph : c \notin NoDigit /\ Digit(c) \in 0..15
  /\ \A v \in 0..15 : /\ Fmt!lower_digit[v + 1] \in Glyph /\ Digit(Fmt!lower_digit[v + 1]) = v
                      /\ Fmt!upper_digit[v + 1] \in Glyph /\ Digit(Fmt!upper_digit[v + 1]) = v
<1>1. \A i \in 1..16 : Fmt!lower_digit[i] \notin {"+", "-", "x"} /\ Fmt!upper_digit[i] \notin {"+", "-", "x"}
  BY DEF Fmt!lower_digit, Fmt!upper_digit
<1>2. Fmt!Blank \notin {"0", "1", "2", "3", "4", "5", "6", "7", "8", "9", "a", "b", "c", "d", "e", "f",
                        "A", "B", "C", "D", "E", "F"}
  BY DEF Fmt!Blank
<1>3. \A i \in 1..16 : Fmt!lower_digit[i] # Fmt!Blank /\ Fmt!upper_digit[i] # Fmt!Blank
  <2>1. \A i \in 1..16 :
          {Fmt!lower_digit[i], Fmt!upper_digit[i]} \subseteq
            {"0", "1", "2", "3", "4", "5", "6", "7", "8", "9", "a", "b", "c", "d", "e", "f",
             "A", "B", "C", "D", "E", "F"}
    BY DEF Fmt!lower_digit, Fmt!upper_digit
  <2> QED
    BY <1>2, <2>1
<1>4. \A c \in Glyph : c \notin NoDigit
  BY <1>1, <1>3 DEF Glyph, NoDigit
<1>5. ASSUME NEW v \in 0..15, NEW w \in 0..15
      PROVE  /\ Fmt!lower_digit[v + 1] = Fmt!lower_digit[w + 1] => v = w
             /\ Fmt!lower_digit[v + 1] = Fmt!upper_digit[w + 1] => v = w
             /\ Fmt!upper_digit[v + 1] = Fmt!upper_digit[w + 1] => v = w
  <2>1. /\ \A i, j \in 1..16 : Fmt!lower_digit[i] = Fmt!lower_digit[j] => i = j
        /\ \A i, j \in 1..16 : Fmt!lower_digit[i] = Fmt!upper_digit[j] => i = j
        /\ \A i, j \in 1..16 : Fmt!upper_digit[i] = Fmt!upper_digit[j] => i = j
    <3>1. \A i, j \in 1..16 : Fmt!lower_digit[i] = Fmt!lower_digit[j] => i = j
      BY DEF Fmt!lower_digit
    <3>2. \A i, j \in 1..16 : Fmt!lower_digit[i] = Fmt!upper_digit[j] => i = j
      BY DEF Fmt!lower_digit, Fmt!upper_digit
    <3>3. \A i, j \in 1..16 : Fmt!upper_digit[i] = Fmt!upper_digit[j] => i = j
      BY DEF Fmt!upper_digit
    <3> QED
      BY <3>1, <3>2, <3>3
  <2>2. v + 1 \in 1..16 /\ w + 1 \in 1..16
    OBVIOUS
  <2> QED
    BY <2>1, <2>2
<1>6. ASSUME NEW v \in 0..15
      PROVE  /\ Fmt!lower_digit[v + 1] \in Glyph /\ Digit(Fmt!lower_digit[v + 1]) = v
             /\ Fmt!upper_digit[v + 1] \in Glyph /\ Digit(Fmt!upper_digit[v + 1]) = v
  <2>1. v + 1 \in 1..16
    OBVIOUS
  <2>2. Fmt!lower_digit[v + 1] \in Glyph /\ Fmt!upper_digit[v + 1] \in Glyph
    BY <2>1 DEF Glyph
  <2>3. \A w \in 0..15 : Fmt!lower_digit[v + 1] \in {Fmt!lower_digit[w + 1], Fmt!upper_digit[w + 1]} => w = v
    BY <1>5
  <2>4. \A w \in 0..15 : Fmt!upper_digit[v + 1] \in {Fmt!lower_digit[w + 1], Fmt!upper_digit[w + 1]} => w = v
    BY <1>5
  <2>5. Digit(Fmt!lower_digit[v + 1]) = v
    BY <2>3 DEF Digit
  <2>6. Digit(Fmt!upper_digit[v + 1]) = v
    BY <2>4 DEF Digit
  <2> QED
    BY <2>2, <2>5, <2>6
<1>7. Fmt!lower_digit[1] = "0"
  BY DEF Fmt!lower_digit
<1>8. \A c \in Glyph : \E v \in 0..15 : c = Fmt!lower_digit[v + 1] \/ c = Fmt!upper_digit[v + 1]
  <2>1. \A i \in 1..16 : i - 1 \in 0..15 /\ (i - 1) + 1 = i
    OBVIOUS
  <2> QED
    BY <2>1 DEF Glyph
<1>9. "0" \in Glyph /\ Digit("0") = 0
  <2>1. 0 \in 0..15 /\ 0 + 1 = 1
    OBVIOUS
  <2> QED
    BY <1>6, <1>7, <2>1
<1> QED
  BY <1>4, <1>6, <1>8, <1>9

\* What a number read digit by digit comes to.
Runs(s, base, v) ==
  /\ v[0] = 0
  /\ \A k \in 1..Len(s) : v[k] = v[k - 1] * base + Digit(s[k])

\* s spells n.
Spells(s, base, n) ==
  /\ s \in Seq(Glyph) /\ Len(s) >= 1
  /\ \E v \in [0..Len(s) -> Nat] : v[Len(s)] = n /\ Runs(s, base, v)

LEMMA OneGlyph ==
  ASSUME NEW base \in {10, 16}, NEW c \in Glyph
  PROVE  Spells(<<c>>, base, Digit(c))
<1> DEFINE v == [k \in 0..1 |-> IF k = 0 THEN 0 ELSE Digit(c)]
<1>1. Digit(c) \in 0..15
  BY Glyphs
<1>2. <<c>> \in Seq(Glyph) /\ Len(<<c>>) = 1 /\ <<c>>[1] = c
  OBVIOUS
<1>3. v \in [0..1 -> Nat] /\ v[0] = 0 /\ v[1] = Digit(c)
  BY <1>1
<1> HIDE DEF v
<1>4. Runs(<<c>>, base, v)
  <2>1. \A k \in 1..Len(<<c>>) : k = 1 /\ k - 1 = 0
    BY <1>2
  <2>2. 0 * base = 0 /\ Digit(c) = 0 + Digit(c)
    BY <1>1
  <2> QED
    BY <1>2, <1>3, <2>1, <2>2 DEF Runs
<1> QED
  BY <1>2, <1>3, <1>4 DEF Spells

LEMMA OneMoreGlyph ==
  ASSUME NEW base \in {10, 16}, NEW s, NEW m \in Nat, Spells(s, base, m), NEW c \in Glyph
  PROVE  Spells(Append(s, c), base, m * base + Digit(c))
<1> DEFINE n == m * base + Digit(c)
           L == Len(s)
           t == Append(s, c)
<1>1. PICK v \in [0..L -> Nat] : v[L] = m /\ Runs(s, base, v)
  BY DEF Spells
<1>2. /\ s \in Seq(Glyph) /\ L \in Nat \ {0} /\ t \in Seq(Glyph) /\ Len(t) = L + 1
      /\ t[L + 1] = c /\ \A k \in 1..L : t[k] = s[k]
  BY DEF Spells
<1>3. Digit(c) \in Nat /\ n \in Nat
  <2>1. Digit(c) \in 0..15
    BY Glyphs
  <2>2. m * base \in Nat
    OBVIOUS
  <2> QED
    BY <2>1, <2>2
<1> DEFINE w == [k \in 0..(L + 1) |-> IF k = L + 1 THEN n ELSE v[k]]
<1> HIDE DEF t, L, n
<1>4. w \in [0..(L + 1) -> Nat] /\ w[L + 1] = n /\ w[0] = v[0] /\ \A k \in 0..L : w[k] = v[k]
  BY <1>1, <1>2, <1>3
<1> HIDE DEF w
<1>5. ASSUME NEW k \in 1..(L + 1)
      PROVE  w[k] = w[k - 1] * base + Digit(t[k])
  <2>1. CASE k = L + 1
    <3>1. k - 1 = L /\ L \in 0..L
      BY <1>2, <2>1
    <3> QED
      BY <1>1, <1>2, <1>4, <2>1, <3>1 DEF n
  <2>2. CASE k # L + 1
    <3>1. k \in 1..L /\ k \in 0..L /\ k - 1 \in 0..L
      BY <1>2, <2>2
    <3>2. v[k] = v[k - 1] * base + Digit(s[k])
      BY <1>1, <3>1 DEF Runs, L
    <3> QED
      BY <1>2, <1>4, <3>1, <3>2
  <2> QED
    BY <2>1, <2>2
<1>6. Runs(t, base, w)
  BY <1>1, <1>2, <1>4, <1>5 DEF Runs
<1>7. Spells(t, base, n)
  <2>1. Len(t) >= 1 /\ w \in [0..Len(t) -> Nat] /\ w[Len(t)] = n
    BY <1>2, <1>4
  <2> QED
    BY <1>2, <1>6, <2>1, Zenon DEF Spells
<1> QED
  BY <1>7 DEF t, n

\* Dividing a number makes it smaller.
LEMMA Divides ==
  ASSUME NEW base \in {10, 16}, NEW n \in Nat
  PROVE  /\ n \div base \in Nat /\ n % base \in 0..(base - 1) /\ base - 1 \in 0..15
         /\ n = (n \div base) * base + (n % base)
         /\ n >= base => n \div base < n
<1>1. /\ n \div 10 \in Nat /\ n % 10 \in 0..9 /\ n = (n \div 10) * 10 + (n % 10)
      /\ n >= 10 => n \div 10 < n
  OBVIOUS
<1>2. /\ n \div 16 \in Nat /\ n % 16 \in 0..15 /\ n = (n \div 16) * 16 + (n % 16)
      /\ n >= 16 => n \div 16 < n
  OBVIOUS
<1>3. 10 - 1 = 9 /\ 16 - 1 = 15 /\ 9 \in 0..15 /\ 15 \in 0..15
  OBVIOUS
<1>4. CASE base = 10
  BY <1>1, <1>3, <1>4, Zenon
<1>5. CASE base = 16
  BY <1>2, <1>3, <1>5, Zenon
<1> QED
  BY <1>4, <1>5

\* number() takes the digits from the last on: they spell the number.
LEMMA DigitsSpell ==
  ASSUME NEW value \in Nat, NEW base \in {10, 16}, NEW digit \in {Fmt!lower_digit, Fmt!upper_digit}
  PROVE  Spells(Fmt!Digits(value, base, digit), base, value)
<1> DEFINE Step(f, n) == IF n < base THEN <<digit[n + 1]>> ELSE Append(f[n \div base], digit[(n % base) + 1])
           F(f, m) == [n \in 0..m |-> Step(f, n)]
<1>1. \A m \in Nat : \E f : f = F(f, m)
  <2> DEFINE T == {m \in Nat : ~ \E f : f = F(f, m)}
  <2> SUFFICES ASSUME T # {}
               PROVE  FALSE
    BY Zenon
  <2>1. PICK m \in T : \A y \in T : m <= y
    <3>1. T \subseteq Nat
      OBVIOUS
    <3> HIDE DEF T
    <3> QED
      BY <3>1, LeastNat
  <2>2. m \in Nat /\ ~ \E f : f = F(f, m)
    BY Zenon, <2>1
  <2>3. PICK f : \A n \in 0..(m - 1) : f[n] = Step(f, n)
    <3>1. CASE m = 0
      BY <3>1
    <3>2. CASE m # 0
      <4>1. m - 1 \in Nat /\ m - 1 \notin T
        <5>1. m - 1 \in Nat /\ ~(m <= m - 1)
          BY <2>2, <3>2
        <5> HIDE DEF T
        <5> QED
          BY <2>1, <5>1
      <4>2. PICK f : f = F(f, m - 1)
        BY Zenon, <4>1
      <4>3. \A n \in 0..(m - 1) : F(f, m - 1)[n] = Step(f, n)
        OBVIOUS
      <4> HIDE DEF F, Step
      <4> QED
        BY <4>2, <4>3
    <3> QED
      BY <3>1, <3>2
  <2> DEFINE g == [n \in 0..m |-> IF n = m THEN Step(f, m) ELSE f[n]]
  <2>4. ASSUME NEW n \in 0..m
        PROVE  g[n] = Step(g, n)
    <3>1. n \in Nat /\ (n >= base => n \div base \in 0..(m - 1))
      <4>1. n \in Nat /\ n <= m
        BY <2>2
      <4> QED
        BY <2>2, <4>1, Divides
    <3>2. \A k \in 0..(m - 1) : g[k] = f[k]
      BY <2>2
    <3>3. g[n] = Step(f, n)
      <4>1. CASE n = m
        BY <4>1
      <4>2. CASE n # m
        <5>1. n \in 0..(m - 1)
          BY <2>2, <4>2
        <5> HIDE DEF Step, g
        <5> QED
          BY <2>3, <3>2, <5>1
      <4> QED
        BY <4>1, <4>2
    <3> HIDE DEF g
    <3>4. Step(g, n) = Step(f, n)
      BY <3>1, <3>2
    <3> QED
      BY <3>3, <3>4
  <2>5. g = [n \in 0..m |-> g[n]]
    OBVIOUS
  <2>6. F(g, m) = [n \in 0..m |-> Step(g, n)]
    OBVIOUS
  <2> HIDE DEF g, Step
  <2>7. g = F(g, m)
    BY <2>4, <2>5
  <2> HIDE DEF F
  <2> QED
    BY Zenon, <2>2, <2>7
<1> DEFINE tmp == CHOOSE f : f = F(f, value)
<1>2. tmp = F(tmp, value)
  <2> HIDE DEF F
  <2> QED
    BY Zenon, <1>1
<1>3. Fmt!Digits(value, base, digit) = tmp[value]
  BY DEF Fmt!Digits
<1> HIDE DEF tmp
<1>4. \A n \in 0..value : tmp[n] = Step(tmp, n)
  <2>1. \A n \in 0..value : F(tmp, value)[n] = Step(tmp, n)
    OBVIOUS
  <2> HIDE DEF F, Step
  <2> QED
    BY <1>2, <2>1
<1>5. ASSUME NEW n \in 0..value, ~ Spells(tmp[n], base, n)
      PROVE  FALSE
  <2> DEFINE T == {m \in 0..value : ~ Spells(tmp[m], base, m)}
  <2>1. PICK m \in T : \A y \in T : m <= y
    <3>1. T \subseteq Nat /\ T # {}
      BY <1>5
    <3> HIDE DEF T
    <3> QED
      BY <3>1, LeastNat
  <2>2. m \in 0..value /\ m \in Nat /\ ~ Spells(tmp[m], base, m)
    OBVIOUS
  <2>3. \A v \in 0..15 : digit[v + 1] \in Glyph /\ Digit(digit[v + 1]) = v
    BY Glyphs
  <2>4. CASE m < base
    <3>1. tmp[m] = <<digit[m + 1]>> /\ m \in 0..15
      <4>1. m \in 0..15
        BY <2>2, <2>4
      <4>2. Step(tmp, m) = <<digit[m + 1]>>
        BY <2>4
      <4> HIDE DEF Step
      <4> QED
        BY <1>4, <2>2, <4>1, <4>2
    <3> QED
      BY <2>2, <2>3, <3>1, OneGlyph
  <2>5. CASE ~(m < base)
    <3>1. /\ m \div base \in Nat /\ m % base \in 0..15 /\ m \div base < m
          /\ m = (m \div base) * base + (m % base)
      BY <2>2, <2>5, Divides
    <3>2. tmp[m] = Append(tmp[m \div base], digit[(m % base) + 1])
      BY <1>4, <2>2, <2>5
    <3>3. Spells(tmp[m \div base], base, m \div base)
      <4>1. m \div base \in 0..value /\ m \div base \notin T
        BY <2>1, <2>2, <3>1
      <4> QED
        BY <4>1
    <3> DEFINE c == digit[(m % base) + 1]
    <3>4. c \in Glyph /\ Digit(c) = m % base
      BY <2>3, <3>1
    <3> HIDE DEF c
    <3>5. Spells(Append(tmp[m \div base], c), base, (m \div base) * base + Digit(c))
      BY <3>1, <3>3, <3>4, OneMoreGlyph
    <3> QED
      BY <2>2, <3>1, <3>2, <3>4, <3>5 DEF c
  <2> QED
    BY <2>4, <2>5
<1>6. value \in 0..value
  OBVIOUS
<1> QED
  BY <1>3, <1>5, <1>6

\* One character further, what has been read of the text comes to.
Further(text, base, v, k) ==
  IF text[k] \in NoDigit THEN v[k - 1] ELSE v[k - 1] * base + Digit(text[k])

\* What a reader makes of a text, from the front on.
LEMMA ReadIs ==
  ASSUME NEW text, Len(text) \in Nat, NEW base
  PROVE  \E v : /\ v[0] = 0
                /\ \A k \in 1..Len(text) : v[k] = Further(text, base, v, k)
                /\ Read(text, base) = IF \E k \in 1..Len(text) : text[k] = "-"
                                      THEN -v[Len(text)] ELSE v[Len(text)]
<1> DEFINE Step(v, k) == IF k = 0 THEN 0 ELSE Further(text, base, v, k)
           F(v, m) == [k \in 0..m |-> Step(v, k)]
<1>1. \A m \in Nat : \E v : v = F(v, m)
  <2> DEFINE T == {m \in Nat : ~ \E v : v = F(v, m)}
  <2> SUFFICES ASSUME T # {}
               PROVE  FALSE
    BY Zenon
  <2>1. PICK m \in T : \A y \in T : m <= y
    <3>1. T \subseteq Nat
      OBVIOUS
    <3> HIDE DEF T
    <3> QED
      BY <3>1, LeastNat
  <2>2. m \in Nat /\ ~ \E v : v = F(v, m)
    BY Zenon, <2>1
  <2>3. PICK v : \A k \in 0..(m - 1) : v[k] = Step(v, k)
    <3>1. CASE m = 0
      BY <3>1
    <3>2. CASE m # 0
      <4>1. m - 1 \in Nat /\ m - 1 \notin T
        <5>1. m - 1 \in Nat /\ ~(m <= m - 1)
          BY <2>2, <3>2
        <5> HIDE DEF T
        <5> QED
          BY <2>1, <5>1
      <4>2. PICK v : v = F(v, m - 1)
        BY Zenon, <4>1
      <4>3. \A k \in 0..(m - 1) : F(v, m - 1)[k] = Step(v, k)
        OBVIOUS
      <4> HIDE DEF F, Step
      <4> QED
        BY <4>2, <4>3
    <3> QED
      BY <3>1, <3>2
  <2> DEFINE w == [k \in 0..m |-> IF k = m THEN Step(v, m) ELSE v[k]]
  <2>4. ASSUME NEW k \in 0..m
        PROVE  w[k] = Step(w, k)
    <3>1. \A j \in 0..(m - 1) : w[j] = v[j]
      BY <2>2
    <3>2. w[k] = Step(v, k)
      <4>1. CASE k = m
        BY <4>1
      <4>2. CASE k # m
        <5>1. k \in 0..(m - 1)
          BY <2>2, <4>2
        <5> HIDE DEF Step, w
        <5> QED
          BY <2>3, <3>1, <5>1
      <4> QED
        BY <4>1, <4>2
    <3>3. k # 0 => k - 1 \in 0..(m - 1)
      BY <2>2
    <3> HIDE DEF w
    <3>4. Step(w, k) = Step(v, k)
      BY <3>1, <3>3 DEF Further
    <3> QED
      BY <3>2, <3>4
  <2>5. w = [k \in 0..m |-> w[k]]
    OBVIOUS
  <2>6. F(w, m) = [k \in 0..m |-> Step(w, k)]
    OBVIOUS
  <2> HIDE DEF w, Step
  <2>7. w = F(w, m)
    BY <2>4, <2>5
  <2> HIDE DEF F
  <2> QED
    BY Zenon, <2>2, <2>7
<1> DEFINE value == CHOOSE v : v = F(v, Len(text))
<1>2. value = F(value, Len(text))
  <2> HIDE DEF F
  <2> QED
    BY Zenon, <1>1
<1>3. Read(text, base) = IF \E k \in 1..Len(text) : text[k] = "-"
                         THEN -value[Len(text)] ELSE value[Len(text)]
  BY DEF Read, Further
<1> HIDE DEF value
<1>4. \A k \in 0..Len(text) : value[k] = Step(value, k)
  <2>1. \A k \in 0..Len(text) : F(value, Len(text))[k] = Step(value, k)
    OBVIOUS
  <2> HIDE DEF F, Step
  <2> QED
    BY <1>2, <2>1
<1>5. value[0] = 0 /\ \A k \in 1..Len(text) : value[k] = Further(text, base, value, k)
  BY <1>4
<1> QED
  BY <1>3, <1>5

\* Digits in a text are read as the number they spell if only zeros and what is
\* no digit stand before them, and no digit behind them.
LEMMA NumberIsRead ==
  ASSUME NEW text, Len(text) \in Nat, NEW base \in {10, 16}, NEW n, NEW s, Spells(s, base, n),
         NEW i \in Nat, i + Len(s) <= Len(text),
         \A k \in 1..i : text[k] = "0" \/ text[k] \in NoDigit,
         \A k \in 1..Len(s) : text[i + k] = s[k],
         \A k \in (i + Len(s) + 1)..Len(text) : text[k] \in NoDigit
  PROVE  Read(text, base) = IF \E k \in 1..Len(text) : text[k] = "-" THEN -n ELSE n
<1> DEFINE L == Len(s)
<1>1. PICK u \in [0..L -> Nat] : u[L] = n /\ Runs(s, base, u)
  BY DEF Spells
<1>2. L \in Nat \ {0} /\ s \in Seq(Glyph)
  BY DEF Spells
<1>3. PICK v : /\ v[0] = 0
               /\ \A k \in 1..Len(text) : v[k] = Further(text, base, v, k)
               /\ Read(text, base) = IF \E k \in 1..Len(text) : text[k] = "-"
                                     THEN -v[Len(text)] ELSE v[Len(text)]
  BY ReadIs
<1> DEFINE Is(k) == IF k <= i THEN 0 ELSE IF k <= i + L THEN u[k - i] ELSE n
           T == {k \in 0..Len(text) : v[k] # Is(k)}
<1>4. T = {}
  <2> SUFFICES ASSUME T # {}
               PROVE  FALSE
    OBVIOUS
  <2>1. PICK m \in T : \A y \in T : m <= y
    <3>1. T \subseteq Nat
      OBVIOUS
    <3> HIDE DEF T
    <3> QED
      BY <3>1, LeastNat
  <2>2. m \in 0..Len(text) /\ v[m] # Is(m)
    OBVIOUS
  <2>3. m \in 1..Len(text)
    BY <1>3, <2>2
  <2>4. v[m - 1] = Is(m - 1)
    <3>1. m - 1 \in 0..Len(text) /\ ~(m <= m - 1)
      BY <2>3
    <3>2. m - 1 \notin T
      <4> HIDE DEF T
      <4> QED
        BY <2>1, <3>1
    <3> QED
      BY <3>1, <3>2
  <2>5. v[m] = Further(text, base, v, m)
    BY <1>3, <2>3
  <2> HIDE DEF T
  <2>6. CASE m <= i
    <3>1. Is(m) = 0 /\ Is(m - 1) = 0 /\ m \in 1..i
      BY <2>3, <2>6
    <3>2. 0 * base = 0 /\ 0 + 0 = 0
      OBVIOUS
    <3>3. text[m] = "0" \/ text[m] \in NoDigit
      BY <3>1
    <3> HIDE DEF Is
    <3> QED
      BY SMTT(30), <2>2, <2>4, <2>5, <3>1, <3>2, <3>3, Glyphs DEF Further
  <2>7. CASE i < m /\ m <= i + L
    <3>1. m - i \in 1..L /\ i + (m - i) = m /\ (m - i) - 1 = (m - 1) - i
      BY <1>2, <2>3, <2>7
    <3>2. text[m] = s[m - i] /\ s[m - i] \in Glyph
      BY <1>2, <3>1
    <3>3. Is(m) = u[m - i] /\ Is(m - 1) = u[(m - i) - 1]
      <4>1. Is(m) = u[m - i]
        BY <2>3, <2>7
      <4>2. CASE m - 1 = i
        <5>1. Is(m - 1) = 0 /\ (m - i) - 1 = 0
          BY <2>3, <2>7, <4>2
        <5> QED
          BY <1>1, <4>1, <5>1 DEF Runs
      <4>3. CASE m - 1 # i
        BY <1>2, <2>3, <2>7, <3>1, <4>1, <4>3
      <4> QED
        BY <4>2, <4>3
    <3>4. u[m - i] = u[(m - i) - 1] * base + Digit(s[m - i])
      BY <1>1, <3>1 DEF Runs
    <3>5. text[m] \notin NoDigit
      BY <3>2, Glyphs
    <3> HIDE DEF Is
    <3> QED
      BY <2>2, <2>4, <2>5, <3>2, <3>3, <3>4, <3>5 DEF Further
  <2>8. CASE i + L < m
    <3>1. Is(m) = n /\ m \in (i + L + 1)..Len(text)
      BY <1>2, <2>3, <2>8
    <3>2. Is(m - 1) = n
      <4>1. CASE m - 1 = i + L
        <5>1. (m - 1) - i = L /\ ~(m - 1 <= i) /\ m - 1 <= i + L
          BY <1>2, <2>3, <4>1
        <5> QED
          BY <1>1, <5>1
      <4>2. CASE m - 1 # i + L
        BY <1>2, <2>3, <2>8, <4>2
      <4> QED
        BY <4>1, <4>2
    <3>3. text[m] \in NoDigit
      BY <3>1
    <3> HIDE DEF Is
    <3> QED
      BY <2>2, <2>4, <2>5, <3>1, <3>2, <3>3 DEF Further
  <2>9. m \in Nat /\ i + L \in Nat
    BY <1>2, <2>3
  <2> QED
    BY <2>6, <2>7, <2>8, <2>9
<1>5. Is(Len(text)) = n
  <2>1. CASE Len(text) = i + L
    <3>1. Len(text) - i = L /\ ~(Len(text) <= i) /\ Len(text) <= i + L
      BY <1>2, <2>1
    <3> QED
      BY <1>1, <3>1
  <2>2. CASE Len(text) # i + L
    BY <1>2, <2>2
  <2> QED
    BY <2>1, <2>2
<1>6. Len(text) \in 0..Len(text)
  OBVIOUS
<1>7. v[Len(text)] = n
  <2>1. Len(text) \notin T
    BY <1>4
  <2> HIDE DEF Is
  <2> QED
    BY <1>5, <1>6, <2>1
<1> QED
  BY <1>3, <1>7

LEMMA Concat ==
  ASSUME NEW A, NEW s \in Seq(A), NEW t \in Seq(A)
  PROVE  /\ s \o t \in Seq(A) /\ Len(s) \in Nat /\ Len(t) \in Nat /\ Len(s \o t) = Len(s) + Len(t)
         /\ \A k \in 1..Len(s) : (s \o t)[k] = s[k]
         /\ \A k \in 1..Len(t) : (s \o t)[Len(s) + k] = t[k]
         /\ \A k \in (Len(s) + 1)..(Len(s) + Len(t)) : (s \o t)[k] = t[k - Len(s)]
OBVIOUS

LEMMA TimesIs ==
  ASSUME NEW A, NEW c \in A, NEW n \in Int
  PROVE  LET m == IF n > 0 THEN n ELSE 0
         IN  /\ Fmt!Times(n, c) \in Seq(A) /\ m \in Nat /\ Len(Fmt!Times(n, c)) = m
             /\ \A k \in 1..m : Fmt!Times(n, c)[k] = c
BY DEF Fmt!Times

\* What may stand before the digits of a number.
Leading == {"0"} \cup NoDigit

\* What number() writes before the zeros of a precision, with r to pad.
Front(num, base, flags, r) ==
  LET left == "-" \in flags
      zero == "0" \in flags /\ ~left
  IN  (IF ~left /\ ~zero THEN Fmt!Times(r, Fmt!Blank) ELSE <<>>)
      \o Fmt!sign(num, base, flags) \o Fmt!hash_str(base, flags)
      \o (IF zero THEN Fmt!Times(r, "0") ELSE <<>>)

LEMMA SignIs ==
  ASSUME NEW num, NEW base \in {10, 16}, NEW flags
  PROVE  LET s == Fmt!sign(num, base, flags)
             h == Fmt!hash_str(base, flags)
         IN  /\ s \in Seq({"-", "+", Fmt!Blank}) /\ s \in Seq(Leading) /\ Len(s) \in {0, 1}
             /\ (\E k \in 1..Len(s) : s[k] = "-") <=> (base = 10 /\ Fmt!Negative(num, flags))
             /\ h \in Seq(Leading) /\ Len(h) \in {0, 2}
             /\ \A k \in 1..Len(h) : h[k] # "-" /\ h[k] # Fmt!Blank
<1> DEFINE s == Fmt!sign(num, base, flags)
           h == Fmt!hash_str(base, flags)
<1>1. s \in {<<>>, <<"-">>, <<"+">>, <<Fmt!Blank>>}
  BY DEF Fmt!sign
<1>2. s = <<"-">> <=> (base = 10 /\ Fmt!Negative(num, flags))
  <2>1. Fmt!Blank # "-"
    BY DEF Fmt!Blank
  <2>2. <<"-">>[1] = "-" /\ <<"+">>[1] = "+" /\ <<Fmt!Blank>>[1] = Fmt!Blank /\ <<"-">> # <<>>
    OBVIOUS
  <2>3. <<"-">> # <<"+">> /\ <<"-">> # <<Fmt!Blank>>
    BY <2>1, <2>2
  <2> QED
    BY <2>2, <2>3 DEF Fmt!sign
<1>3. h \in {<<>>, <<"0", "x">>}
  BY DEF Fmt!hash_str
<1>4. Fmt!Blank \notin {"0", "x", "-"}
  BY DEF Fmt!Blank
<1>5. {"-", "+", Fmt!Blank, "0", "x"} \subseteq Leading
  BY DEF Leading, NoDigit
<1> HIDE DEF s, h
<1>6. h \in Seq(Leading) /\ Len(h) \in {0, 2} /\ \A k \in 1..Len(h) : h[k] # "-" /\ h[k] # Fmt!Blank
  <2>1. CASE h = <<>>
    BY <2>1
  <2>2. CASE h = <<"0", "x">>
    <3>1. Len(h) = 2 /\ h[1] = "0" /\ h[2] = "x" /\ h \in Seq(Leading)
      BY <1>5, <2>2
    <3> QED
      BY <1>4, <3>1
  <2> QED
    BY <1>3, <2>1, <2>2
<1>7. s \in Seq({"-", "+", Fmt!Blank}) /\ s \in Seq(Leading) /\ Len(s) \in {0, 1}
  <2>1. CASE s = <<>>
    BY <2>1
  <2>2. ASSUME NEW c \in {"-", "+", Fmt!Blank}, s = <<c>>
        PROVE  s \in Seq({"-", "+", Fmt!Blank}) /\ s \in Seq(Leading) /\ Len(s) \in {0, 1}
    <3>1. c \in Leading
      BY <1>5
    <3>2. s \in Seq(Leading) /\ Len(s) = 1
      BY <2>2, <3>1
    <3>3. s \in Seq({"-", "+", Fmt!Blank})
      BY <2>2
    <3> QED
      BY <3>2, <3>3
  <2> QED
    BY <1>1, <2>1, <2>2
<1>8. (\E k \in 1..Len(s) : s[k] = "-") <=> s = <<"-">>
  <2>1. CASE s = <<>>
    <3>1. <<>> # <<"-">> /\ Len(<<>>) = 0
      OBVIOUS
    <3> QED
      BY <2>1, <3>1
  <2>2. CASE s = <<"-">>
    BY <2>2
  <2>3. CASE s = <<"+">>
    BY <2>3
  <2>4. CASE s = <<Fmt!Blank>>
    BY <2>4, <1>4
  <2> QED
    BY <1>1, <2>1, <2>2, <2>3, <2>4
<1> QED
  BY <1>2, <1>6, <1>7, <1>8 DEF s, h

\* It has the length asked for, a minus only for a negative number, and blanks in front.
FrontRight(num, base, flags, r) ==
  LET f == Front(num, base, flags, r)
      pad == IF r > 0 /\ "-" \notin flags THEN r ELSE 0
  IN  /\ f \in Seq(Leading)
      /\ Len(f) = pad + Len(Fmt!sign(num, base, flags)) + Len(Fmt!hash_str(base, flags))
      /\ (\E k \in 1..Len(f) : f[k] = "-") <=> (base = 10 /\ Fmt!Negative(num, flags))
      /\ \A k \in 2..Len(f) : f[k] = Fmt!Blank => f[k - 1] = Fmt!Blank

LEMMA FrontIs ==
  ASSUME NEW num, NEW base \in {10, 16}, NEW flags, NEW r \in Int
  PROVE  FrontRight(num, base, flags, r)
<1> DEFINE s == Fmt!sign(num, base, flags)
           h == Fmt!hash_str(base, flags)
           left == "-" \in flags
           zero == "0" \in flags /\ ~left
           m == IF r > 0 THEN r ELSE 0
           P == IF ~left /\ ~zero THEN Fmt!Times(r, Fmt!Blank) ELSE <<>>
           Z == IF zero THEN Fmt!Times(r, "0") ELSE <<>>
           minus == base = 10 /\ Fmt!Negative(num, flags)
           f == ((P \o s) \o h) \o Z
<1>1. f = Front(num, base, flags, r)
  BY DEF Front
<1>2. /\ s \in Seq(Leading) /\ Len(s) \in {0, 1} /\ h \in Seq(Leading) /\ Len(h) \in {0, 2}
      /\ (\E k \in 1..Len(s) : s[k] = "-") <=> minus
      /\ \A k \in 1..Len(h) : h[k] # "-" /\ h[k] # Fmt!Blank
  BY SignIs
<1>3. Fmt!Blank \in Leading /\ "0" \in Leading /\ Fmt!Blank # "-" /\ Fmt!Blank # "0"
  BY DEF Leading, NoDigit, Fmt!Blank
<1>4. /\ P \in Seq(Leading) /\ Len(P) = (IF ~left /\ ~zero THEN m ELSE 0)
      /\ \A k \in 1..Len(P) : P[k] = Fmt!Blank
  <2>1. /\ Fmt!Times(r, Fmt!Blank) \in Seq(Leading) /\ Len(Fmt!Times(r, Fmt!Blank)) = m
        /\ \A k \in 1..m : Fmt!Times(r, Fmt!Blank)[k] = Fmt!Blank
    BY <1>3, TimesIs
  <2>2. <<>> \in Seq(Leading) /\ Len(<<>>) = 0
    OBVIOUS
  <2> QED
    BY <2>1, <2>2
<1>5. /\ Z \in Seq(Leading) /\ Len(Z) = (IF zero THEN m ELSE 0)
      /\ \A k \in 1..Len(Z) : Z[k] = "0"
  <2>1. /\ Fmt!Times(r, "0") \in Seq(Leading) /\ Len(Fmt!Times(r, "0")) = m
        /\ \A k \in 1..m : Fmt!Times(r, "0")[k] = "0"
    BY <1>3, TimesIs
  <2>2. <<>> \in Seq(Leading) /\ Len(<<>>) = 0
    OBVIOUS
  <2> QED
    BY <2>1, <2>2
<1>6. m \in Nat /\ Len(P) + Len(Z) = (IF left THEN 0 ELSE m) /\ (Len(P) = 0 \/ Len(Z) = 0)
  <2>1. m \in Nat
    OBVIOUS
  <2> HIDE DEF P, Z, m
  <2> QED
    BY <1>4, <1>5, <2>1
<1>7. /\ m \in Nat /\ Len(P) \in Nat /\ Len(Z) \in Nat /\ Len(s) \in Nat /\ Len(h) \in Nat
  BY <1>2, <1>4, <1>5
<1> HIDE DEF s, h, P, Z, minus
<1> DEFINE e1 == P \o s
           e2 == e1 \o h
<1>8. /\ e1 \in Seq(Leading) /\ Len(e1) = Len(P) + Len(s)
      /\ \A k \in 1..Len(P) : e1[k] = Fmt!Blank
      /\ \A k \in 1..Len(s) : e1[Len(P) + k] = s[k]
  BY <1>2, <1>4
<1> HIDE DEF e1
<1>9. /\ e2 \in Seq(Leading) /\ Len(e2) = Len(P) + Len(s) + Len(h)
      /\ \A k \in 1..Len(e1) : e2[k] = e1[k]
      /\ \A k \in 1..Len(h) : e2[Len(e1) + k] = h[k]
  <2>1. /\ e2 \in Seq(Leading) /\ Len(e2) = Len(e1) + Len(h)
        /\ \A k \in 1..Len(e1) : e2[k] = e1[k]
        /\ \A k \in 1..Len(h) : e2[Len(e1) + k] = h[k]
    BY <1>2, <1>8
  <2> QED
    BY <1>7, <1>8, <2>1
<1> HIDE DEF e2
<1>10. /\ f \in Seq(Leading) /\ Len(f) = Len(P) + Len(s) + Len(h) + Len(Z)
       /\ \A k \in 1..Len(e2) : f[k] = e2[k]
       /\ \A k \in 1..Len(Z) : f[Len(e2) + k] = "0"
  <2>1. f = e2 \o Z
    BY DEF e2, e1
  <2>2. /\ e2 \o Z \in Seq(Leading) /\ Len(e2 \o Z) = Len(e2) + Len(Z)
        /\ \A k \in 1..Len(e2) : (e2 \o Z)[k] = e2[k]
        /\ \A k \in 1..Len(Z) : (e2 \o Z)[Len(e2) + k] = Z[k]
    BY SMTT(30), <1>5, <1>9
  <2> HIDE DEF f
  <2> QED
    BY <1>5, <1>7, <1>9, <2>1, <2>2
<1> HIDE DEF f, m
<1> DEFINE p == Len(P)
           q == Len(P) + Len(s)
           e == Len(P) + Len(s) + Len(h)
<1>11. /\ \A k \in 1..p : f[k] = Fmt!Blank
       /\ \A k \in 1..Len(s) : f[p + k] = s[k]
       /\ \A k \in (q + 1)..e : f[k] # "-" /\ f[k] # Fmt!Blank
       /\ \A k \in (e + 1)..Len(f) : f[k] = "0"
  <2>1. ASSUME NEW k \in 1..p
        PROVE  f[k] = Fmt!Blank
    <3>1. k \in 1..Len(e1) /\ k \in 1..Len(e2)
      BY <1>7, <1>8, <1>9
    <3> QED
      BY <1>8, <1>9, <1>10, <3>1
  <2>2. ASSUME NEW k \in 1..Len(s)
        PROVE  f[p + k] = s[k]
    <3>1. p + k \in 1..Len(e1) /\ p + k \in 1..Len(e2)
      BY <1>7, <1>8, <1>9
    <3> QED
      BY <1>8, <1>9, <1>10, <3>1
  <2>3. ASSUME NEW k \in (q + 1)..e
        PROVE  f[k] # "-" /\ f[k] # Fmt!Blank
    <3>1. k - Len(e1) \in 1..Len(h) /\ k = Len(e1) + (k - Len(e1)) /\ k \in 1..Len(e2)
      BY <1>7, <1>8, <1>9
    <3>2. f[k] = h[k - Len(e1)]
      BY <1>9, <1>10, <3>1
    <3> QED
      BY <1>2, <3>1, <3>2
  <2>4. ASSUME NEW k \in (e + 1)..Len(f)
        PROVE  f[k] = "0"
    <3>1. k - Len(e2) \in 1..Len(Z) /\ k = Len(e2) + (k - Len(e2))
      BY <1>7, <1>9, <1>10
    <3> QED
      BY <1>10, <3>1
  <2> QED
    BY <2>1, <2>2, <2>3, <2>4
<1>12. (\E k \in 1..Len(f) : f[k] = "-") <=> minus
  <2>1. ASSUME NEW k \in 1..Len(f), f[k] = "-"
        PROVE  minus
    <3>1. k \in (p + 1)..q
      <4>1. k \notin 1..p /\ k \notin (q + 1)..e /\ k \notin (e + 1)..Len(f)
        BY <1>3, <1>11, <2>1
      <4> QED
        BY <1>7, <1>10, <4>1
    <3>2. k - p \in 1..Len(s) /\ k = p + (k - p)
      BY <1>7, <3>1
    <3> QED
      BY <1>2, <1>11, <2>1, <3>2
  <2>2. ASSUME minus
        PROVE  \E k \in 1..Len(f) : f[k] = "-"
    <3>1. PICK k \in 1..Len(s) : s[k] = "-"
      BY <1>2, <2>2
    <3>2. p + k \in 1..Len(f)
      BY <1>7, <1>10
    <3> QED
      BY <1>11, <3>1, <3>2
  <2> QED
    BY <2>1, <2>2
<1>13. \A k \in 2..Len(f) : f[k] = Fmt!Blank => f[k - 1] = Fmt!Blank
  <2> SUFFICES ASSUME NEW k \in 2..Len(f), f[k] = Fmt!Blank
               PROVE  f[k - 1] = Fmt!Blank
    OBVIOUS
  <2>1. k <= q
    <3>1. k \notin (q + 1)..e /\ k \notin (e + 1)..Len(f)
      BY <1>3, <1>11
    <3> QED
      BY <1>7, <1>10, <3>1
  <2>2. k - 1 \in 1..p
    <3>1. Len(f) \in Nat
      BY <1>7, <1>10
    <3>2. k \in Nat /\ k >= 2 /\ k <= Len(P) + Len(s)
      BY <2>1, <3>1
    <3>3. Len(s) <= 1
      BY <1>2
    <3> QED
      BY <1>7, <3>2, <3>3
  <2> QED
    BY <1>11, <2>2
<1>14. Len(f) = (IF r > 0 /\ "-" \notin flags THEN r ELSE 0) + Len(s) + Len(h)
  BY SMTT(30), <1>6, <1>7, <1>10 DEF m
<1> QED
  BY <1>1, <1>10, <1>12, <1>13, <1>14 DEF s, h, minus, FrontRight

\* A field: what pads and precedes the digits, the digits, blanks.
FieldRight(num, base, width, precision, flags, digits) ==
  LET text == Fmt!Field(num, base, width, precision, flags, digits)
      L == Len(digits)
  IN  /\ text \in Seq(Glyph \cup NoDigit) /\ Len(text) >= width
      /\ (\E k \in 1..Len(text) : text[k] = "-") <=> (base = 10 /\ Fmt!Negative(num, flags))
      /\ \A k \in 1..(Len(text) - 1) :
           text[k + 1] = Fmt!Blank => k = 1 \/ text[k] = Fmt!Blank \/ "-" \in flags
      /\ \E i \in Nat : /\ i + L <= Len(text) /\ precision <= i + L
                        /\ \A k \in 1..i : text[k] = "0" \/ text[k] \in NoDigit
                        /\ \A k \in 1..L : text[i + k] = digits[k]
                        /\ \A k \in (i + L + 1)..Len(text) : text[k] \in NoDigit
                        /\ \A k \in (i + L + 1 - precision)..i : text[k] = "0"

LEMMA FieldIs ==
  ASSUME NEW num, NEW base \in {10, 16}, NEW width \in Nat, NEW precision \in Nat, NEW flags,
         NEW digits \in Seq(Glyph), Len(digits) >= 1
  PROVE  FieldRight(num, base, width, precision, flags, digits)
<1> DEFINE L == Len(digits)
           A == Glyph \cup NoDigit
           hash == Fmt!hash_str(base, flags)
           room == Fmt!Room(width, precision, hash, digits)
           left == "-" \in flags
           minus == base = 10 /\ Fmt!Negative(num, flags)
           f == Front(num, base, flags, room)
           z == IF precision - L > 0 THEN precision - L ELSE 0
           Z == Fmt!Times(precision - L, "0")
           T == IF left THEN Fmt!Times(room, Fmt!Blank) ELSE <<>>
           text == ((f \o Z) \o digits) \o T
           m == IF room > 0 THEN room ELSE 0
<1>1. text = Fmt!Field(num, base, width, precision, flags, digits)
  BY DEF Fmt!Field, Front
<1>2. L \in Nat \ {0} /\ Len(hash) \in {0, 2} /\ Len(hash) \in Nat /\ z \in Nat
  BY SignIs
<1>3. room \in Int /\ room = width - Len(hash) - (L + z) /\ m \in Nat /\ precision <= L + z
  <2>1. Fmt!AtLeast(precision, L) = L + z
    BY <1>2 DEF Fmt!AtLeast
  <2> HIDE DEF hash
  <2>2. room = width - Len(hash) - (L + z)
    BY <2>1 DEF Fmt!Room
  <2>3. precision <= L + z
    BY <1>2
  <2> HIDE DEF z, room
  <2>4. room \in Int
    BY <1>2, <2>2
  <2> QED
    BY <1>2, <2>2, <2>3, <2>4
<1>4. "0" \in Glyph /\ Fmt!Blank \in NoDigit /\ "-" \in NoDigit /\ "0" \notin NoDigit /\ Fmt!Blank # "-"
  BY Glyphs DEF NoDigit, Fmt!Blank
<1>5. /\ f \in Seq(Leading) /\ f \in Seq(A)
      /\ Len(f) = (IF left THEN 0 ELSE m) + Len(Fmt!sign(num, base, flags)) + Len(hash)
      /\ (\E k \in 1..Len(f) : f[k] = "-") <=> minus
      /\ \A k \in 2..Len(f) : f[k] = Fmt!Blank => f[k - 1] = Fmt!Blank
  <2>1. /\ f \in Seq(Leading)
        /\ Len(f) = (IF room > 0 /\ ~left THEN room ELSE 0) + Len(Fmt!sign(num, base, flags)) + Len(hash)
        /\ (\E k \in 1..Len(f) : f[k] = "-") <=> minus
        /\ \A k \in 2..Len(f) : f[k] = Fmt!Blank => f[k - 1] = Fmt!Blank
    <3>1. room \in Int
      BY <1>3
    <3> HIDE DEF room
    <3>2. FrontRight(num, base, flags, room)
      BY <3>1, FrontIs
    <3> QED
      BY <3>2 DEF FrontRight
  <2>2. (IF room > 0 /\ ~left THEN room ELSE 0) = (IF left THEN 0 ELSE m)
    OBVIOUS
  <2>3. Leading \subseteq A
    BY <1>4 DEF Leading
  <2> HIDE DEF f, A, m
  <2>4. f \in Seq(A)
    BY <2>1, <2>3
  <2> QED
    BY <2>1, <2>2, <2>4
<1>6. Len(Fmt!sign(num, base, flags)) \in Nat
  BY SignIs
<1>7. Z \in Seq(A) /\ Len(Z) = z /\ \A k \in 1..z : Z[k] = "0"
  <2>1. precision - L \in Int /\ "0" \in A
    BY <1>2, <1>4
  <2> QED
    BY <2>1, TimesIs
<1>8. T \in Seq(A) /\ Len(T) = (IF left THEN m ELSE 0) /\ \A k \in 1..Len(T) : T[k] = Fmt!Blank
  <2>1. Fmt!Blank \in A
    BY <1>4
  <2> HIDE DEF room, A
  <2>2. /\ Fmt!Times(room, Fmt!Blank) \in Seq(A) /\ Len(Fmt!Times(room, Fmt!Blank)) = m
        /\ \A k \in 1..m : Fmt!Times(room, Fmt!Blank)[k] = Fmt!Blank
    BY ZenonT(60), <1>3, <2>1, TimesIs
  <2>3. <<>> \in Seq(A) /\ Len(<<>>) = 0
    OBVIOUS
  <2> QED
    BY <2>2, <2>3
<1>9. digits \in Seq(A)
  OBVIOUS
<1> HIDE DEF hash, room, minus, f, Z, T, z, m, A
<1> DEFINE b == f \o Z
           c == b \o digits
           i == Len(f) + z
<1>10. /\ b \in Seq(A) /\ Len(f) \in Nat /\ i \in Nat /\ Len(b) = i
       /\ \A k \in 1..Len(f) : b[k] = f[k]
       /\ \A k \in (Len(f) + 1)..i : b[k] = "0"
  <2>1. /\ b \in Seq(A) /\ Len(f) \in Nat /\ Len(b) = Len(f) + Len(Z)
        /\ \A k \in 1..Len(f) : b[k] = f[k]
        /\ \A k \in (Len(f) + 1)..(Len(f) + Len(Z)) : b[k] = Z[k - Len(f)]
    <3>1. f \in Seq(A) /\ Z \in Seq(A)
      BY <1>5, <1>7
    <3> QED
      BY <3>1, Concat
  <2> HIDE DEF b
  <2>2. \A k \in (Len(f) + 1)..i : k - Len(f) \in 1..z
    BY <1>2, <2>1
  <2> QED
    BY <1>2, <1>7, <2>1, <2>2
<1> HIDE DEF b, i
<1>11. /\ c \in Seq(A) /\ Len(c) = i + L
       /\ \A k \in 1..i : c[k] = b[k]
       /\ \A k \in 1..L : c[i + k] = digits[k]
  BY <1>9, <1>10
<1> HIDE DEF c
<1>12. /\ text \in Seq(A) /\ Len(text) = i + L + Len(T)
       /\ \A k \in 1..(i + L) : text[k] = c[k]
       /\ \A k \in (i + L + 1)..Len(text) : text[k] = Fmt!Blank
  <2>1. text = c \o T
    BY DEF c, b
  <2> HIDE DEF text
  <2>2. /\ c \o T \in Seq(A) /\ Len(c \o T) = Len(c) + Len(T) /\ Len(T) \in Nat
        /\ \A k \in 1..Len(c) : (c \o T)[k] = c[k]
        /\ \A k \in (Len(c) + 1)..(Len(c) + Len(T)) : (c \o T)[k] = T[k - Len(c)]
    <3>1. c \in Seq(A) /\ T \in Seq(A)
      BY <1>8, <1>11
    <3> QED
      BY <3>1
  <2>3. \A k \in (i + L + 1)..(i + L + Len(T)) : k - (i + L) \in 1..Len(T)
    BY <1>2, <1>10, <2>2
  <2> HIDE DEF L
  <2> QED
    BY <1>8, <1>11, <2>1, <2>2, <2>3
<1> HIDE DEF text
<1>13. Len(T) \in Nat /\ i \in Nat /\ L \in Nat \ {0} /\ z \in Nat /\ i = Len(f) + z
  BY <1>2, <1>8, <1>10 DEF i
<1> HIDE DEF L
<1>14. Len(text) \in Nat /\ Len(text) >= width
  <2>1. Len(text) = Len(f) + z + L + Len(T)
    BY <1>10, <1>12, <1>13
  <2>2. Len(f) + Len(T) >= m + Len(hash)
    BY <1>2, <1>3, <1>5, <1>6, <1>8
  <2>3. m >= width - Len(hash) - (L + z)
    BY <1>3 DEF m
  <2> QED
    BY <1>2, <1>3, <1>10, <1>13, <2>1, <2>2, <2>3
<1>15. /\ \A k \in 1..Len(f) : text[k] = f[k]
       /\ \A k \in (Len(f) + 1)..i : text[k] = "0"
       /\ \A k \in 1..L : text[i + k] = digits[k]
  <2>1. ASSUME NEW k \in 1..Len(f)
        PROVE  text[k] = f[k]
    <3>1. k \in 1..i /\ k \in 1..(i + L)
      BY <1>10, <1>13
    <3> QED
      BY <1>10, <1>11, <1>12, <3>1
  <2>2. ASSUME NEW k \in (Len(f) + 1)..i
        PROVE  text[k] = "0"
    <3>1. k \in 1..i /\ k \in 1..(i + L)
      BY <1>10, <1>13
    <3> QED
      BY <1>10, <1>11, <1>12, <3>1
  <2>3. ASSUME NEW k \in 1..L
        PROVE  text[i + k] = digits[k]
    <3>1. i + k \in 1..(i + L)
      BY <1>13
    <3> QED
      BY <1>11, <1>12, <3>1
  <2> QED
    BY <2>1, <2>2, <2>3
<1>16. \A k \in 1..L : text[i + k] \in Glyph /\ text[i + k] \notin NoDigit
  <2>1. \A k \in 1..L : digits[k] \in Glyph
    BY DEF L
  <2> QED
    BY <1>15, <2>1, Glyphs
<1>17. \A k \in 1..Len(text) :
         \/ k \in 1..Len(f)
         \/ k \in (Len(f) + 1)..i /\ text[k] = "0"
         \/ k \in (i + 1)..(i + L) /\ text[k] \notin NoDigit
         \/ k \in (i + L + 1)..Len(text) /\ text[k] = Fmt!Blank
  <2> SUFFICES ASSUME NEW k \in 1..Len(text), k \notin 1..Len(f)
               PROVE  \/ k \in (Len(f) + 1)..i /\ text[k] = "0"
                      \/ k \in (i + 1)..(i + L) /\ text[k] \notin NoDigit
                      \/ k \in (i + L + 1)..Len(text) /\ text[k] = Fmt!Blank
    OBVIOUS
  <2>1. CASE k \in (Len(f) + 1)..i
    BY <1>15, <2>1
  <2>2. CASE k \in (i + 1)..(i + L)
    <3>1. k - i \in 1..L /\ i + (k - i) = k
      BY <1>13, <2>2
    <3> QED
      BY <1>16, <2>2, <3>1
  <2>3. CASE k \in (i + L + 1)..Len(text)
    BY <1>12, <2>3
  <2> QED
    BY <1>10, <1>13, <1>14, <2>1, <2>2, <2>3
<1>18. (\E k \in 1..Len(text) : text[k] = "-") <=> minus
  <2>1. ASSUME NEW k \in 1..Len(text), text[k] = "-"
        PROVE  minus
    <3>1. k \in 1..Len(f)
      BY <1>4, <1>17, <2>1
    <3> QED
      BY <1>5, <1>15, <2>1, <3>1
  <2>2. ASSUME minus
        PROVE  \E k \in 1..Len(text) : text[k] = "-"
    <3>1. PICK k \in 1..Len(f) : f[k] = "-"
      BY <1>5, <2>2
    <3>2. k \in 1..Len(text)
      BY <1>10, <1>12, <1>13
    <3> QED
      BY <1>15, <3>1, <3>2
  <2> QED
    BY <2>1, <2>2
<1>19. ASSUME NEW k \in 1..(Len(text) - 1), text[k + 1] = Fmt!Blank, k # 1, ~left
       PROVE  text[k] = Fmt!Blank
  <2>1. k + 1 \in 1..Len(text) /\ Len(T) = 0
    BY <1>8, <1>14, <1>19
  <2>2. k + 1 \in 1..Len(f)
    BY <1>4, <1>12, <1>13, <1>17, <1>19, <2>1
  <2>3. k + 1 \in 2..Len(f) /\ k \in 1..Len(f) /\ (k + 1) - 1 = k
    BY <1>10, <2>2
  <2>4. f[k + 1] = Fmt!Blank
    BY <1>15, <1>19, <2>2
  <2>5. f[k] = Fmt!Blank
    BY <1>5, <2>3, <2>4
  <2> QED
    BY <1>15, <2>3, <2>5
<1>20. /\ i + L <= Len(text) /\ precision <= i + L
       /\ \A k \in 1..i : text[k] = "0" \/ text[k] \in NoDigit
       /\ \A k \in (i + L + 1)..Len(text) : text[k] \in NoDigit
       /\ \A k \in (i + L + 1 - precision)..i : text[k] = "0"
  <2>1. i + L <= Len(text)
    BY <1>12, <1>13
  <2>2. precision <= i + L
    BY <1>3, <1>10, <1>13
  <2>3. ASSUME NEW k \in 1..i
        PROVE  text[k] = "0" \/ text[k] \in NoDigit
    <3>1. CASE k \in 1..Len(f)
      <4>1. f[k] \in Leading
        BY <1>5, <3>1
      <4> QED
        BY <1>15, <3>1, <4>1 DEF Leading
    <3>2. CASE k \notin 1..Len(f)
      <4>1. k \in (Len(f) + 1)..i
        BY <1>10, <1>13, <3>2
      <4> QED
        BY <1>15, <4>1
    <3> QED
      BY <3>1, <3>2
  <2>4. \A k \in (i + L + 1)..Len(text) : text[k] \in NoDigit
    BY <1>4, <1>12
  <2>5. ASSUME NEW k \in (i + L + 1 - precision)..i
        PROVE  text[k] = "0"
    <3>1. k \in (Len(f) + 1)..i
      BY <1>3, <1>10, <1>13
    <3> QED
      BY <1>15, <3>1
  <2> QED
    BY <2>1, <2>2, <2>3, <2>4, <2>5
<1>21. \E j \in Nat : /\ j + L <= Len(text) /\ precision <= j + L
                      /\ \A k \in 1..j : text[k] = "0" \/ text[k] \in NoDigit
                      /\ \A k \in 1..L : text[j + k] = digits[k]
                      /\ \A k \in (j + L + 1)..Len(text) : text[k] \in NoDigit
                      /\ \A k \in (j + L + 1 - precision)..j : text[k] = "0"
  BY <1>13, <1>15, <1>20, Zenon
<1> QED
  BY <1>1, <1>12, <1>14, <1>18, <1>19, <1>21 DEF L, A, minus, FieldRight

\* What number() must have written of n, at least so wide, with so many digits.
Shows(text, base, n, width, precision, left) ==
  /\ text \in Seq(Glyph \cup NoDigit)
  /\ Read(text, base) = n
  /\ Len(text) >= width
  /\ Cardinality({k \in 1..Len(text) : text[k] \notin NoDigit}) >= precision
  /\ \A k \in 1..(Len(text) - 1) :
       text[k + 1] = Fmt!Blank => k = 1 \/ text[k] = Fmt!Blank \/ left

\* number() writes the number it is given.
LEMMA NumberIs ==
  ASSUME NEW num, NEW base \in {10, 16}, NEW width \in Nat, NEW precision \in Nat, NEW flags,
         Fmt!Magnitude(num, flags) \in Nat
  PROVE  Shows(Fmt!number(num, base, width, precision, flags), base,
               IF base = 10 /\ Fmt!Negative(num, flags) THEN -Fmt!Magnitude(num, flags)
               ELSE Fmt!Magnitude(num, flags),
               width, precision, "-" \in flags)
<1> DEFINE n == Fmt!Magnitude(num, flags)
           digits == Fmt!Digits(n, base, IF "UPPER" \in flags THEN Fmt!upper_digit ELSE Fmt!lower_digit)
           text == Fmt!Field(num, base, width, precision, flags, digits)
           L == Len(digits)
           minus == base = 10 /\ Fmt!Negative(num, flags)
<1>1. text = Fmt!number(num, base, width, precision, flags)
  BY DEF Fmt!number
<1>2. Spells(digits, base, n)
  <2> DEFINE digit == IF "UPPER" \in flags THEN Fmt!upper_digit ELSE Fmt!lower_digit
  <2>1. digit \in {Fmt!lower_digit, Fmt!upper_digit}
    OBVIOUS
  <2> HIDE DEF digit
  <2>2. Spells(Fmt!Digits(n, base, digit), base, n)
    BY <2>1, DigitsSpell
  <2> QED
    BY <2>2 DEF digit
<1> HIDE DEF digits, n
<1>3. digits \in Seq(Glyph) /\ L >= 1 /\ L \in Nat
  BY <1>2 DEF Spells
<1>4. FieldRight(num, base, width, precision, flags, digits)
  BY <1>3, FieldIs
<1>5. /\ text \in Seq(Glyph \cup NoDigit) /\ Len(text) >= width
      /\ (\E k \in 1..Len(text) : text[k] = "-") <=> minus
      /\ \A k \in 1..(Len(text) - 1) :
           text[k + 1] = Fmt!Blank => k = 1 \/ text[k] = Fmt!Blank \/ "-" \in flags
  BY <1>4 DEF FieldRight
<1>6. PICK i \in Nat : /\ i + L <= Len(text) /\ precision <= i + L
                       /\ \A k \in 1..i : text[k] = "0" \/ text[k] \in NoDigit
                       /\ \A k \in 1..L : text[i + k] = digits[k]
                       /\ \A k \in (i + L + 1)..Len(text) : text[k] \in NoDigit
                       /\ \A k \in (i + L + 1 - precision)..i : text[k] = "0"
  BY <1>4 DEF FieldRight
<1>7. Len(text) \in Nat
  BY <1>5
<1> HIDE DEF text, minus
<1>8. Read(text, base) = IF minus THEN -n ELSE n
  <2>1. Read(text, base) = IF \E k \in 1..Len(text) : text[k] = "-" THEN -n ELSE n
    BY <1>2, <1>6, <1>7, NumberIsRead
  <2> QED
    BY <1>5, <2>1
<1>9. Cardinality({k \in 1..Len(text) : text[k] \notin NoDigit}) >= precision
  <2> DEFINE low == i + L + 1 - precision
             D == {k \in 1..Len(text) : text[k] \notin NoDigit}
  <2>1. low \in Int /\ low >= 1 /\ i + L \in Nat /\ i + L - low + 1 = precision
    BY <1>3, <1>6
  <2>2. ASSUME NEW k \in low..(i + L)
        PROVE  k \in D
    <3>1. k \in 1..Len(text) /\ k \in Nat
      BY <1>3, <1>6, <1>7, <2>1
    <3>2. CASE k <= i
      <4>1. text[k] = "0"
        BY <1>6, <3>1, <3>2
      <4> QED
        BY <3>1, <4>1, Glyphs
    <3>3. CASE k > i
      <4>1. k - i \in 1..L /\ i + (k - i) = k
        BY <1>3, <2>1, <3>1, <3>3
      <4>2. text[k] = digits[k - i] /\ digits[k - i] \in Glyph
        BY <1>3, <1>6, <4>1
      <4> QED
        BY <3>1, <4>2, Glyphs
    <3> QED
      BY <3>1, <3>2, <3>3
  <2>3. IsFiniteSet(1..Len(text)) /\ D \subseteq 1..Len(text)
    BY <1>7, FS_Interval
  <2>4. IsFiniteSet(D)
    <3> HIDE DEF D
    <3> QED
      BY <2>3, FS_Subset
  <2>5. low..(i + L) \subseteq D
    <3> HIDE DEF D
    <3> QED
      BY <2>2
  <2>6. Cardinality(low..(i + L)) = precision
    <3>1. low > i + L => precision = 0
      BY <1>3, <2>1
    <3> HIDE DEF low
    <3> QED
      BY <2>1, <3>1, FS_Interval
  <2>7. Cardinality(low..(i + L)) <= Cardinality(D) /\ Cardinality(D) \in Nat
    <3> HIDE DEF D, low
    <3> QED
      BY <2>4, <2>5, FS_Subset, FS_CardinalityType
  <2> HIDE DEF low
  <2> QED
    BY <2>6, <2>7
<1> QED
  BY <1>1, <1>5, <1>8, <1>9 DEF Shows, n, minus

\* The characters a format has for flags.
FlagChar == {"+", "-", "0", Fmt!Blank, "#"}

\* What vsprintf has read of a directive for a number.
NumberDirective ==
  [flags : SUBSET FlagChar, width : Nat, precision : Nat, qualifier : {"none", "l", "h", "c"},
   conv : NumberConv, start : Nat, next : Nat]

LEMMA Sizes ==
  ASSUME NEW q
  PROVE  LET size == Fmt!SizeOf(q)
         IN  /\ LONG \in Nat /\ size \in 2..LONG /\ 2 * (size \div 2) = size /\ 2 * (LONG \div 2) = LONG
             /\ size = IF q = "h" THEN SHORT ELSE IF q = "c" THEN CHAR ELSE LONG
<1>1. LONG \in Nat /\ \A size \in {LONG, SHORT, CHAR} : size \in 2..LONG /\ size % 2 = 0
  BY KlibAssumption DEF KlibAssumption
<1>2. Fmt!SizeOf(q) \in {LONG, SHORT, CHAR}
  BY DEF Fmt!SizeOf
<1>3. \A m \in Nat : m % 2 = 0 => 2 * (m \div 2) = m
  OBVIOUS
<1>4. Fmt!SizeOf(q) = IF q = "h" THEN SHORT ELSE IF q = "c" THEN CHAR ELSE LONG
  BY DEF Fmt!SizeOf
<1>5. Fmt!SizeOf(q) \in 2..LONG /\ Fmt!SizeOf(q) \in Nat /\ Fmt!SizeOf(q) % 2 = 0 /\ LONG % 2 = 0
  BY <1>1, <1>2
<1> QED
  BY <1>1, <1>3, <1>4, <1>5

\* Cut to its type and widened again, an argument keeps its value.
LEMMA KeepsValue ==
  ASSUME NEW arg \in Nat, NEW q, NEW signed \in BOOLEAN, NEW flags, signed <=> "SIGN" \in flags
  PROVE  LET num == Fmt!Widened(arg, Fmt!SizeOf(q), signed)
         IN  /\ Fmt!Magnitude(num, flags) \in Nat
             /\ Meant(arg, q, signed) = IF Fmt!Negative(num, flags) THEN -Fmt!Magnitude(num, flags)
                                        ELSE Fmt!Magnitude(num, flags)
             /\ Fmt!Negative(num, flags) => signed
<1> DEFINE size == Fmt!SizeOf(q)
           cut == arg % size
           num == Fmt!Widened(arg, Fmt!SizeOf(q), signed)
           half == size \div 2
           middle == LONG \div 2
<1>1. /\ LONG \in Nat /\ size \in 2..LONG /\ 2 * half = size /\ 2 * middle = LONG
      /\ half \in Nat /\ middle \in Nat
  <2>1. /\ LONG \in Nat /\ size \in 2..LONG /\ 2 * half = size /\ 2 * middle = LONG
    BY Sizes
  <2> HIDE DEF size
  <2>2. half \in Nat /\ middle \in Nat
    BY <2>1
  <2> QED
    BY <2>1, <2>2
<1>2. cut \in 0..(size - 1)
  <2> HIDE DEF size
  <2> QED
    BY <1>1
<1>3. Meant(arg, q, signed) = IF signed /\ cut >= half THEN cut - size ELSE cut
  BY Sizes DEF Meant
<1>4. num = IF signed /\ cut >= half THEN cut + (LONG - size) ELSE cut
  BY DEF Fmt!Widened
<1> HIDE DEF size, cut, half, num
<1>5. Fmt!Negative(num, flags) <=> (num >= middle /\ signed)
  BY DEF Fmt!Negative
<1>6. Fmt!Magnitude(num, flags) = IF Fmt!Negative(num, flags) THEN LONG - num ELSE num
  BY DEF Fmt!Magnitude
<1> HIDE DEF middle
<1>7. CASE signed /\ cut >= half
  <2>1. num = cut + (LONG - size) /\ num >= middle /\ LONG - num = size - cut /\ size - cut \in Nat
    BY <1>1, <1>2, <1>4, <1>7
  <2>2. cut - size = -(size - cut)
    BY <1>1, <1>2
  <2> QED
    BY <1>3, <1>5, <1>6, <1>7, <2>1, <2>2 DEF num
<1>8. CASE ~(signed /\ cut >= half)
  <2>1. num = cut /\ cut \in Nat
    BY <1>1, <1>2, <1>4, <1>8
  <2>2. ~Fmt!Negative(num, flags)
    <3>1. CASE ~signed
      BY <1>5, <3>1
    <3>2. CASE signed
      <4>1. cut < half /\ half <= middle
        BY <1>1, <1>2, <1>8, <3>2
      <4> QED
        BY <1>1, <1>2, <1>5, <2>1, <4>1
    <3> QED
      BY <3>1, <3>2
  <2> QED
    BY <1>3, <1>6, <1>8, <2>1, <2>2 DEF num
<1> QED
  BY <1>7, <1>8

\* A directive for a number writes its argument.
LEMMA ConvertedIs ==
  ASSUME NEW d \in NumberDirective, NEW arg \in Nat
  PROVE  Shows(Fmt!Converted(d, arg), IF d.conv \in {"x", "X"} THEN 16 ELSE 10,
               Meant(arg, d.qualifier, d.conv = "d"), d.width, d.precision, "-" \in d.flags)
<1> DEFINE flags == d.flags \cup (IF d.conv \in Fmt!Signed THEN {"SIGN"} ELSE {})
                            \cup (IF d.conv = "X" THEN {"UPPER"} ELSE {})
           signed == d.conv \in Fmt!Signed
           base == IF d.conv \in {"x", "X"} THEN 16 ELSE 10
           num == Fmt!Widened(arg, Fmt!SizeOf(d.qualifier), signed)
           n == Fmt!Magnitude(num, flags)
<1>1. Fmt!Converted(d, arg) = Fmt!number(num, base, d.width, d.precision, flags)
  BY DEF Fmt!Converted
<1>2. d.width \in Nat /\ d.precision \in Nat /\ d.flags \subseteq FlagChar /\ d.conv \in NumberConv
  BY DEF NumberDirective
<1>3. signed \in BOOLEAN /\ (signed <=> d.conv = "d") /\ base \in {10, 16} /\ (signed => base = 10)
  BY <1>2 DEF NumberConv, Fmt!Signed
<1>4. (signed <=> "SIGN" \in flags) /\ ("-" \in flags <=> "-" \in d.flags)
  <2>1. "SIGN" \notin FlagChar
    BY DEF FlagChar, Fmt!Blank
  <2>2. "SIGN" # "UPPER" /\ "-" # "SIGN" /\ "-" # "UPPER"
    OBVIOUS
  <2> QED
    BY <1>2, <2>1, <2>2
<1> HIDE DEF flags, signed, base
<1>5. /\ n \in Nat
      /\ Meant(arg, d.qualifier, signed) = IF Fmt!Negative(num, flags) THEN -n ELSE n
      /\ Fmt!Negative(num, flags) => signed
  BY <1>3, <1>4, KeepsValue
<1> HIDE DEF num
<1>6. Shows(Fmt!number(num, base, d.width, d.precision, flags), base,
            IF base = 10 /\ Fmt!Negative(num, flags) THEN -n ELSE n, d.width, d.precision, "-" \in flags)
  BY <1>2, <1>3, <1>5, NumberIs
<1>7. (IF base = 10 /\ Fmt!Negative(num, flags) THEN -n ELSE n) = Meant(arg, d.qualifier, d.conv = "d")
  <2>1. signed = (d.conv = "d")
    BY <1>3 DEF signed
  <2> HIDE DEF n
  <2> QED
    BY <1>3, <1>5, <2>1
<1>8. ("-" \in flags) = ("-" \in d.flags)
  BY <1>4
<1> HIDE DEF n
<1> QED
  BY <1>1, <1>6, <1>7, <1>8 DEF base

-----------------------------------------------------------------------------
(* How vsprintf finds a directive                                            *)

\* The directives of the calls, of as many widths and precisions.
Asked == Directives(Flags, Precision, {"none", "l", "h", "c"}, NumberConv)
           \cup Directives(Flags, {0}, {"none"}, {"p", "%", "?", "s", "c"})
Letter == NumberConv \cup {"s"}
Text == FlagChar \cup Fmt!Digit \cup Letter \cup {"(", "%", ".", ")", "h", "l"}

LEMMA Texts ==
  /\ FlagChar \subseteq Text /\ Fmt!Digit \subseteq Text /\ Letter \subseteq Text
  /\ "(" \in Text /\ "%" \in Text /\ "." \in Text /\ ")" \in Text /\ "h" \in Text /\ "l" \in Text
BY DEF Text

\* Where the parts of a format begin.
WidthAt(d) == 3 + Len(d.flags)
PrecisionAt(d) == WidthAt(d) + (IF d.width = 0 THEN 0 ELSE 1)
LengthAt(d) == PrecisionAt(d) + (IF d.precision = 0 THEN 0 ELSE 2)
ConvAt(d) == LengthAt(d) + (IF d.qualifier = "none" THEN 0 ELSE IF d.qualifier = "c" THEN 2 ELSE 1)

LEMMA DirectiveParts ==
  ASSUME NEW d \in Asked, d.conv \in Letter
  PROVE  /\ d.flags \in Seq(FlagChar) /\ Len(d.flags) \in Nat
         /\ \A k \in 1..Len(d.flags) : d.flags[k] = "-" => d.flags[1] = "-"
         /\ d.width \in 0..9 /\ d.precision \in 0..9
         /\ d.qualifier \in {"none", "l", "h", "c"}
         /\ d.conv = "s" => d.precision = 0
<1>1. Width \subseteq 0..9 /\ Precision \subseteq 0..9
  BY KlibAssumption DEF KlibAssumption
<1>2. /\ d.flags \in Flags /\ d.width \in 0..9 /\ d.precision \in 0..9
      /\ d.qualifier \in {"none", "l", "h", "c"} /\ (d.conv = "s" => d.precision = 0)
  <2>1. CASE d \in Directives(Flags, Precision, {"none", "l", "h", "c"}, NumberConv)
    BY <1>1, <2>1 DEF Directives, NumberConv
  <2>2. CASE d \in Directives(Flags, {0}, {"none"}, {"p", "%", "?", "s", "c"})
    <3>1. d.flags \in Flags /\ d.width \in Width /\ d.precision = 0
      BY <2>2 DEF Directives
    <3>2. d.qualifier = "none"
      BY <2>2 DEF Directives
    <3>3. d.width \in 0..9
      BY <1>1, <3>1
    <3>4. d.precision \in 0..9
      BY <3>1
    <3> QED
      BY <3>1, <3>2, <3>3, <3>4, Zenon
  <2> QED
    BY <2>1, <2>2 DEF Asked
<1> DEFINE f == d.flags
<1>3. f \in Seq(FlagChar) /\ \A k \in 1..Len(f) : f[k] = "-" => f[1] = "-"
  <2>1. {"-", "0", "+", "#", Fmt!Blank} \subseteq FlagChar /\ Fmt!Blank # "-"
    BY DEF FlagChar, Fmt!Blank
  <2>2. CASE f = <<>>
    BY <2>2
  <2>3. ASSUME NEW c \in FlagChar, f = <<c>>
        PROVE  f \in Seq(FlagChar) /\ \A k \in 1..Len(f) : f[k] = "-" => f[1] = "-"
    BY <2>3
  <2>4. CASE f = <<"-", "0">>
    BY <2>1, <2>4
  <2>5. CASE f = <<"0", "+">>
    BY <2>1, <2>5
  <2>6. CASE f = <<"#", "0">>
    BY <2>1, <2>6
  <2>7. CASE f = <<"-", "#">>
    BY <2>1, <2>7
  <2> HIDE DEF f
  <2>8. f \in Flags
    BY <1>2 DEF f
  <2> QED
    BY <2>1, <2>2, <2>3, <2>4, <2>5, <2>6, <2>7, <2>8 DEF Flags
<1> QED
  BY <1>2, <1>3

LEMMA SpelledIs ==
  ASSUME NEW n \in 0..9
  PROVE  /\ Spelled(n) \in Seq(Text) /\ Len(Spelled(n)) = IF n = 0 THEN 0 ELSE 1
         /\ n # 0 => Spelled(n)[1] = Fmt!lower_digit[n + 1]
         /\ Fmt!lower_digit[n + 1] \in Fmt!Digit
         /\ n # 0 => Fmt!lower_digit[n + 1] \notin FlagChar
<1>1. n + 1 \in 1..10 /\ n + 1 \in 1..16
  OBVIOUS
<1>2. Fmt!lower_digit[n + 1] \in Text
  BY <1>1, Texts DEF Fmt!Digit
<1>3. \A i \in 1..16 : Fmt!lower_digit[i] \notin {"+", "-", "#"} /\ (i # 1 => Fmt!lower_digit[i] # "0")
  BY DEF Fmt!lower_digit
<1>4. Fmt!lower_digit[n + 1] # Fmt!Blank
  BY <1>1, Glyphs DEF NoDigit, Glyph
<1>5. Fmt!lower_digit[n + 1] \in Fmt!Digit
  BY <1>1 DEF Fmt!Digit
<1>6. n # 0 => n + 1 # 1
  OBVIOUS
<1>7. n # 0 => Fmt!lower_digit[n + 1] \notin FlagChar
  BY <1>1, <1>3, <1>4, <1>6 DEF FlagChar
<1>8. /\ Spelled(n) \in Seq(Text) /\ Len(Spelled(n)) = IF n = 0 THEN 0 ELSE 1
      /\ n # 0 => Spelled(n)[1] = Fmt!lower_digit[n + 1]
  <2>1. CASE n = 0
    BY <2>1 DEF Spelled
  <2>2. CASE n # 0
    BY <1>1, <1>2, <2>2 DEF Spelled
  <2> QED
    BY <2>1, <2>2
<1> QED
  BY <1>5, <1>7, <1>8

LEMMA OneAndOne ==
  ASSUME NEW A, NEW s \in Seq(A), NEW t \in Seq(A)
  PROVE  Len(s) = 1 /\ Len(t) = 1 =>
           s \o t \in Seq(A) /\ Len(s \o t) = 2 /\ (s \o t)[1] = s[1] /\ (s \o t)[2] = t[1]
<1>1. /\ s \o t \in Seq(A) /\ Len(s \o t) = Len(s) + Len(t)
      /\ \A k \in 1..Len(s) : (s \o t)[k] = s[k]
      /\ \A k \in 1..Len(t) : (s \o t)[Len(s) + k] = t[k]
  OBVIOUS
<1> HAVE Len(s) = 1 /\ Len(t) = 1
<1>2. 1 \in 1..Len(s) /\ 1 \in 1..Len(t) /\ Len(s) + 1 = 2 /\ Len(s) + Len(t) = 2
  OBVIOUS
<1> QED
  BY <1>1, <1>2

LEMMA TwoAndMore ==
  ASSUME NEW A, NEW s \in Seq(A), NEW t \in Seq(A)
  PROVE  Len(s) = 2 =>
           /\ s \o t \in Seq(A) /\ Len(s \o t) = 2 + Len(t)
           /\ (s \o t)[1] = s[1] /\ (s \o t)[2] = s[2]
           /\ \A k \in 1..Len(t) : (s \o t)[2 + k] = t[k]
<1>1. /\ s \o t \in Seq(A) /\ Len(s \o t) = Len(s) + Len(t)
      /\ \A k \in 1..Len(s) : (s \o t)[k] = s[k]
      /\ \A k \in 1..Len(t) : (s \o t)[Len(s) + k] = t[k]
  OBVIOUS
<1> HAVE Len(s) = 2
<1>2. 1 \in 1..Len(s) /\ 2 \in 1..Len(s)
  OBVIOUS
<1> QED
  BY <1>1, <1>2

LEMMA MoreAndTwo ==
  ASSUME NEW A, NEW s \in Seq(A), NEW t \in Seq(A)
  PROVE  Len(t) = 2 =>
           /\ s \o t \in Seq(A) /\ Len(s \o t) = Len(s) + 2
           /\ \A k \in 1..Len(s) : (s \o t)[k] = s[k]
           /\ (s \o t)[Len(s) + 1] = t[1] /\ (s \o t)[Len(s) + 2] = t[2]
<1>1. /\ s \o t \in Seq(A) /\ Len(s \o t) = Len(s) + Len(t)
      /\ \A k \in 1..Len(s) : (s \o t)[k] = s[k]
      /\ \A k \in 1..Len(t) : (s \o t)[Len(s) + k] = t[k]
  OBVIOUS
<1> HAVE Len(t) = 2
<1>2. 1 \in 1..Len(t) /\ 2 \in 1..Len(t)
  OBVIOUS
<1> QED
  BY <1>1, <1>2

\* What stands where in a format.
FormatRight(d) ==
  LET f == Format(d)
      c == LengthAt(d)
  IN  /\ f \in Seq(Text) /\ Len(f) = ConvAt(d) + 1
      /\ f[1] = "(" /\ f[2] = "%"
      /\ \A k \in 1..Len(d.flags) : f[2 + k] = d.flags[k]
      /\ d.width # 0 => f[WidthAt(d)] = Fmt!lower_digit[d.width + 1]
      /\ d.precision # 0 => /\ f[PrecisionAt(d)] = "."
                            /\ f[PrecisionAt(d) + 1] = Fmt!lower_digit[d.precision + 1]
      /\ d.qualifier = "c" => f[c] = "h" /\ f[c + 1] = "h"
      /\ d.qualifier \in {"l", "h"} => f[c] = d.qualifier
      /\ f[ConvAt(d)] = d.conv /\ f[ConvAt(d) + 1] = ")"

LEMMA FormatIs ==
  ASSUME NEW d \in Asked, d.conv \in Letter
  PROVE  FormatRight(d)
<1> DEFINE open == <<"(", "%">>
           fl == d.flags
           w == Spelled(d.width)
           p == IF d.precision = 0 THEN <<>> ELSE <<".">> \o Spelled(d.precision)
           q == Qualifier(d.qualifier)
           e == <<d.conv, ")">>
           f == ((((open \o fl) \o w) \o p) \o q) \o e
<1>1. f = Format(d)
  BY DEF Format
<1>2. /\ fl \in Seq(FlagChar) /\ Len(fl) \in Nat
      /\ d.width \in 0..9 /\ d.precision \in 0..9 /\ d.qualifier \in {"none", "l", "h", "c"}
  BY DirectiveParts
<1>3. open \in Seq(Text) /\ Len(open) = 2 /\ open[1] = "(" /\ open[2] = "%"
  <2>1. "(" \in Text /\ "%" \in Text
    BY Texts
  <2> QED
    BY <2>1
<1>4. fl \in Seq(Text)
  <2>1. FlagChar \subseteq Text
    BY Texts
  <2> HIDE DEF fl
  <2> QED
    BY <1>2, <2>1
<1>5. /\ w \in Seq(Text) /\ Len(w) = IF d.width = 0 THEN 0 ELSE 1
      /\ d.width # 0 => w[1] = Fmt!lower_digit[d.width + 1]
  BY <1>2, SpelledIs
<1>6. /\ p \in Seq(Text) /\ Len(p) = IF d.precision = 0 THEN 0 ELSE 2
      /\ d.precision # 0 => p[1] = "." /\ p[2] = Fmt!lower_digit[d.precision + 1]
  <2> DEFINE n == Spelled(d.precision)
  <2>1. /\ n \in Seq(Text) /\ Len(n) = IF d.precision = 0 THEN 0 ELSE 1
        /\ d.precision # 0 => n[1] = Fmt!lower_digit[d.precision + 1]
    BY <1>2, SpelledIs
  <2> HIDE DEF n
  <2>2. CASE d.precision = 0
    BY <2>2
  <2>3. CASE d.precision # 0
    <3>1. /\ <<".">> \in Seq(Text) /\ Len(<<".">>) = 1 /\ <<".">>[1] = "."
      BY Texts
    <3>2. /\ <<".">> \o n \in Seq(Text) /\ Len(<<".">> \o n) = 2
          /\ (<<".">> \o n)[1] = "." /\ (<<".">> \o n)[2] = n[1]
      <4>1. <<".">> \in Seq(Text) /\ n \in Seq(Text) /\ Len(n) = 1
        BY <2>1, <2>3, <3>1
      <4> DEFINE dot == <<".">>
      <4>2. dot \in Seq(Text) /\ Len(dot) = 1 /\ dot[1] = "."
        BY <3>1
      <4> HIDE DEF dot
      <4>3. /\ dot \o n \in Seq(Text) /\ Len(dot \o n) = 2
            /\ (dot \o n)[1] = dot[1] /\ (dot \o n)[2] = n[1]
        BY <4>1, <4>2, OneAndOne
      <4> QED
        BY <4>2, <4>3 DEF dot
    <3>3. p = <<".">> \o n
      BY <2>3 DEF n
    <3> QED
      BY <2>1, <2>3, <3>2, <3>3
  <2> QED
    BY <2>2, <2>3
<1>7. /\ q \in Seq(Text)
      /\ Len(q) = IF d.qualifier = "none" THEN 0 ELSE IF d.qualifier = "c" THEN 2 ELSE 1
      /\ d.qualifier = "c" => q[1] = "h" /\ q[2] = "h"
      /\ d.qualifier \in {"l", "h"} => q[1] = d.qualifier
  <2>1. CASE d.qualifier = "none"
    BY <2>1 DEF Qualifier
  <2>2. CASE d.qualifier = "c"
    BY <2>2, Texts DEF Qualifier
  <2>3. CASE d.qualifier \in {"l", "h"}
    BY <2>3, Texts DEF Qualifier
  <2> QED
    BY <1>2, <2>1, <2>2, <2>3
<1>8. e \in Seq(Text) /\ Len(e) = 2 /\ e[1] = d.conv /\ e[2] = ")"
  <2>1. d.conv \in Text /\ ")" \in Text
    BY Texts
  <2> QED
    BY <2>1
<1> HIDE DEF open, fl, w, p, q, e
<1> DEFINE g1 == open \o fl
           g2 == g1 \o w
           g3 == g2 \o p
           g4 == g3 \o q
<1>9. /\ g1 \in Seq(Text) /\ Len(g1) = 2 + Len(fl)
      /\ g1[1] = "(" /\ g1[2] = "%" /\ \A k \in 1..Len(fl) : g1[2 + k] = fl[k]
  <2>1. open \in Seq(Text) /\ fl \in Seq(Text) /\ Len(open) = 2
    BY <1>3, <1>4
  <2>2. /\ g1 \in Seq(Text) /\ Len(g1) = 2 + Len(fl)
        /\ g1[1] = open[1] /\ g1[2] = open[2] /\ \A k \in 1..Len(fl) : g1[2 + k] = fl[k]
    BY <2>1, TwoAndMore
  <2> HIDE DEF g1
  <2> QED
    BY <1>3, <2>2
<1> HIDE DEF g1
<1>10. /\ g2 \in Seq(Text) /\ Len(g2) = Len(g1) + Len(w)
       /\ \A k \in 1..Len(g1) : g2[k] = g1[k]
       /\ \A k \in 1..Len(w) : g2[Len(g1) + k] = w[k]
  <2>1. g1 \in Seq(Text) /\ w \in Seq(Text)
    BY <1>5, <1>9
  <2> QED
    BY <2>1
<1> HIDE DEF g2
<1>11. /\ g3 \in Seq(Text) /\ Len(g3) = Len(g2) + Len(p)
       /\ \A k \in 1..Len(g2) : g3[k] = g2[k]
       /\ \A k \in 1..Len(p) : g3[Len(g2) + k] = p[k]
  <2>1. g2 \in Seq(Text) /\ p \in Seq(Text)
    BY <1>6, <1>10
  <2> QED
    BY <2>1
<1> HIDE DEF g3
<1>12. /\ g4 \in Seq(Text) /\ Len(g4) = Len(g3) + Len(q)
       /\ \A k \in 1..Len(g3) : g4[k] = g3[k]
       /\ \A k \in 1..Len(q) : g4[Len(g3) + k] = q[k]
  <2>1. g3 \in Seq(Text) /\ q \in Seq(Text)
    BY <1>7, <1>11
  <2> QED
    BY <2>1
<1> HIDE DEF g4
<1>13. /\ f \in Seq(Text) /\ Len(f) = Len(g4) + 2
       /\ \A k \in 1..Len(g4) : f[k] = g4[k]
       /\ f[Len(g4) + 1] = d.conv /\ f[Len(g4) + 2] = ")"
  <2>1. f = g4 \o e
    BY DEF g4, g3, g2, g1
  <2>2. /\ g4 \o e \in Seq(Text) /\ Len(g4 \o e) = Len(g4) + 2
        /\ \A k \in 1..Len(g4) : (g4 \o e)[k] = g4[k]
        /\ (g4 \o e)[Len(g4) + 1] = e[1] /\ (g4 \o e)[Len(g4) + 2] = e[2]
    <3>1. g4 \in Seq(Text) /\ e \in Seq(Text) /\ Len(e) = 2
      BY <1>8, <1>12
    <3> QED
      BY <3>1, MoreAndTwo
  <2> HIDE DEF f
  <2> QED
    BY <1>8, <2>1, <2>2
<1> HIDE DEF f
<1>14. /\ Len(fl) \in Nat /\ Len(w) \in Nat /\ Len(p) \in Nat /\ Len(q) \in Nat
       /\ Len(g1) = 2 + Len(fl) /\ Len(g2) = Len(g1) + Len(w) /\ Len(g3) = Len(g2) + Len(p)
       /\ Len(g4) = Len(g3) + Len(q)
  BY <1>4, <1>5, <1>6, <1>7, <1>9, <1>10, <1>11, <1>12
<1>15. /\ WidthAt(d) = Len(g1) + 1 /\ PrecisionAt(d) = Len(g2) + 1 /\ LengthAt(d) = Len(g3) + 1
       /\ ConvAt(d) = Len(g4) + 1
  <2>1. WidthAt(d) = Len(g1) + 1
    BY <1>14 DEF WidthAt, fl
  <2>2. PrecisionAt(d) = Len(g2) + 1
    BY <1>5, <1>14, <2>1 DEF PrecisionAt
  <2>3. LengthAt(d) = Len(g3) + 1
    BY <1>6, <1>14, <2>2 DEF LengthAt
  <2>4. ConvAt(d) = Len(g4) + 1
    BY <1>7, <1>14, <2>3 DEF ConvAt
  <2> QED
    BY <2>1, <2>2, <2>3, <2>4
<1>16. /\ f[1] = "(" /\ f[2] = "%" /\ \A k \in 1..Len(fl) : f[2 + k] = fl[k]
  <2>1. \A k \in 1..Len(g1) : f[k] = g1[k]
    BY <1>10, <1>11, <1>12, <1>13, <1>14
  <2>2. 1 \in 1..Len(g1) /\ 2 \in 1..Len(g1) /\ \A k \in 1..Len(fl) : 2 + k \in 1..Len(g1)
    BY <1>14
  <2> QED
    BY <1>9, <2>1, <2>2
<1>17. d.width # 0 => f[WidthAt(d)] = Fmt!lower_digit[d.width + 1]
  <2> HAVE d.width # 0
  <2>1. 1 \in 1..Len(w) /\ w[1] = Fmt!lower_digit[d.width + 1]
    BY <1>5
  <2>2. Len(g1) + 1 \in 1..Len(g2) /\ Len(g1) + 1 \in 1..Len(g3) /\ Len(g1) + 1 \in 1..Len(g4)
    BY <1>14, <2>1
  <2> QED
    BY <1>10, <1>11, <1>12, <1>13, <1>15, <2>1, <2>2
<1>18. d.precision # 0 => /\ f[PrecisionAt(d)] = "."
                          /\ f[PrecisionAt(d) + 1] = Fmt!lower_digit[d.precision + 1]
  <2> HAVE d.precision # 0
  <2>1. 1 \in 1..Len(p) /\ 2 \in 1..Len(p) /\ p[1] = "." /\ p[2] = Fmt!lower_digit[d.precision + 1]
    BY <1>6
  <2>2. /\ Len(g2) + 1 \in 1..Len(g3) /\ Len(g2) + 1 \in 1..Len(g4)
        /\ Len(g2) + 2 \in 1..Len(g3) /\ Len(g2) + 2 \in 1..Len(g4)
        /\ PrecisionAt(d) + 1 = Len(g2) + 2
    BY <1>14, <1>15, <2>1
  <2> QED
    BY <1>11, <1>12, <1>13, <1>15, <2>1, <2>2
<1>19. /\ d.qualifier = "c" => f[LengthAt(d)] = "h" /\ f[LengthAt(d) + 1] = "h"
       /\ d.qualifier \in {"l", "h"} => f[LengthAt(d)] = d.qualifier
  <2>1. \A k \in 1..Len(q) : f[Len(g3) + k] = q[k]
    <3>1. \A k \in 1..Len(q) : Len(g3) + k \in 1..Len(g4)
      BY <1>14
    <3> QED
      BY <1>12, <1>13, <3>1
  <2>2. d.qualifier = "c" => 1 \in 1..Len(q) /\ 2 \in 1..Len(q)
    BY <1>7
  <2>3. d.qualifier \in {"l", "h"} => 1 \in 1..Len(q)
    BY <1>7
  <2>4. LengthAt(d) = Len(g3) + 1 /\ LengthAt(d) + 1 = Len(g3) + 2
    BY <1>14, <1>15
  <2> QED
    BY <1>7, <2>1, <2>2, <2>3, <2>4
<1>20. ConvAt(d) + 1 = Len(g4) + 2
  BY <1>14, <1>15
<1> QED
  BY <1>1, <1>13, <1>15, <1>16, <1>17, <1>18, <1>19, <1>20 DEF FormatRight, fl

\* What ends the flags, the width and the precision.
LEMMA Marks ==
  /\ \A c \in Letter \cup {"h", "l"} : c \notin FlagChar /\ c \notin Fmt!Digit /\ c # "." /\ c # Fmt!NUL
  /\ "." \notin FlagChar /\ "." \notin Fmt!Digit
  /\ \A c \in Letter : c # "h" /\ c # "l"
  /\ Fmt!lower_digit[1] = "0"
  /\ {"+", "-", "0", Fmt!Blank, "#"} = FlagChar
<1>1. \A i \in 1..10 : Fmt!lower_digit[i] \notin {"d", "u", "x", "X", "s", "h", "l", "."}
  BY DEF Fmt!lower_digit
<1>2. \A c \in Letter \cup {"h", "l"} : c \in {"d", "u", "x", "X", "s", "h", "l"}
  BY DEF Letter, NumberConv
<1>3. Fmt!Blank \notin {"d", "u", "x", "X", "s", "h", "l", "."}
  BY DEF Fmt!Blank
<1>4. \A c \in {"d", "u", "x", "X", "s", "h", "l"} : c \notin {"+", "-", "0", "#", ".", "NUL"}
  OBVIOUS
<1>5. "." \notin FlagChar /\ "." \notin Fmt!Digit
  BY <1>1, <1>3 DEF FlagChar, Fmt!Digit
<1>6. \A c \in Letter \cup {"h", "l"} : c \notin FlagChar /\ c \notin Fmt!Digit /\ c # "." /\ c # Fmt!NUL
  BY <1>1, <1>2, <1>3, <1>4 DEF FlagChar, Fmt!Digit, Fmt!NUL
<1>7. \A c \in Letter : c # "h" /\ c # "l"
  BY DEF Letter, NumberConv
<1>8. Fmt!lower_digit[1] = "0"
  BY DEF Fmt!lower_digit
<1> QED
  BY <1>5, <1>6, <1>7, <1>8 DEF FlagChar

LEMMA LeastOf ==
  ASSUME NEW T, T \subseteq Nat, NEW x \in T, \A y \in T : x <= y
  PROVE  Fmt!Min(T) = x
<1>1. \A z \in T : (\A y \in T : z <= y) => z = x
  OBVIOUS
<1> QED
  BY <1>1 DEF Fmt!Min

\* A skip ends where the first other character is.
LEMMA SkipIs ==
  ASSUME NEW fmt, Len(fmt) \in Nat, NEW i \in Nat, NEW j \in i..Len(fmt), NEW chars,
         \A k \in i..(j - 1) : fmt[k] \in chars, fmt[j] \notin chars
  PROVE  Fmt!Skip(fmt, i, chars) = j
<1> DEFINE T == {k \in i..(Len(fmt) + 1) : Fmt!At(fmt, k) \notin chars}
<1>1. \A k \in i..Len(fmt) : Fmt!At(fmt, k) = fmt[k]
  BY DEF Fmt!At
<1>2. j \in T
  BY <1>1
<1>3. ASSUME NEW y \in T
      PROVE  j <= y
  <2>1. y \in i..(Len(fmt) + 1) /\ Fmt!At(fmt, y) \notin chars
    OBVIOUS
  <2>2. y \notin i..(j - 1)
    <3> SUFFICES ASSUME y \in i..(j - 1)
                 PROVE  FALSE
      OBVIOUS
    <3>1. y \in i..Len(fmt)
      OBVIOUS
    <3> QED
      BY <1>1, <2>1, <3>1
  <2> QED
    BY <2>1, <2>2
<1>4. T \subseteq Nat
  OBVIOUS
<1> HIDE DEF T
<1>5. Fmt!Min(T) = j
  BY <1>2, <1>3, <1>4, LeastOf
<1> QED
  BY <1>5 DEF Fmt!Skip, T

LEMMA NoDigits ==
  ASSUME NEW fmt, NEW i \in Nat
  PROVE  Fmt!atoi(fmt, i, i) = 0
<1> DEFINE F(n) == [k \in (i - 1)..(i - 1) |->
                     IF k < i THEN 0
                     ELSE n[k - 1] * 10 + ((CHOOSE d \in 1..10 : Fmt!lower_digit[d] = fmt[k]) - 1)]
           z == [k \in (i - 1)..(i - 1) |-> 0]
           a == CHOOSE n : n = F(n)
<1>1. z = F(z)
  <2>1. \A k \in (i - 1)..(i - 1) : k < i
    OBVIOUS
  <2> QED
    BY <2>1
<1>2. a = F(a)
  <2> HIDE DEF F, z
  <2> QED
    BY Zenon, <1>1
<1>3. Fmt!atoi(fmt, i, i) = a[i - 1]
  BY DEF Fmt!atoi
<1> HIDE DEF a
<1>4. i - 1 \in (i - 1)..(i - 1) /\ i - 1 < i
  OBVIOUS
<1>5. F(a)[i - 1] = 0
  BY <1>4
<1> HIDE DEF F
<1> QED
  BY <1>2, <1>3, <1>5

LEMMA OneDigit ==
  ASSUME NEW fmt, NEW i \in Nat, NEW w \in 0..9, fmt[i] = Fmt!lower_digit[w + 1]
  PROVE  Fmt!atoi(fmt, i, i + 1) = w
<1> DEFINE v(k) == (CHOOSE d \in 1..10 : Fmt!lower_digit[d] = fmt[k]) - 1
           D == (i - 1)..((i + 1) - 1)
           F(n) == [k \in D |-> IF k < i THEN 0 ELSE n[k - 1] * 10 + v(k)]
           z == [k \in D |-> IF k < i THEN 0 ELSE w]
           a == CHOOSE n : n = F(n)
<1>1. v(i) = w
  <2>1. \A k, m \in 1..16 : Fmt!lower_digit[k] = Fmt!lower_digit[m] => k = m
    BY DEF Fmt!lower_digit
  <2>2. w + 1 \in 1..10 /\ \A d \in 1..10 : d \in 1..16
    OBVIOUS
  <2>3. \A d \in 1..10 : Fmt!lower_digit[d] = fmt[i] => d = w + 1
    BY <2>1, <2>2
  <2>4. (CHOOSE d \in 1..10 : Fmt!lower_digit[d] = fmt[i]) = w + 1
    BY <2>2, <2>3
  <2>5. (w + 1) - 1 = w
    OBVIOUS
  <2> QED
    BY Zenon, <2>4, <2>5
<1> HIDE DEF v
<1>2. i - 1 \in D /\ i \in D /\ i - 1 < i /\ ~(i < i) /\ \A k \in D : k = i - 1 \/ k = i
  OBVIOUS
<1> HIDE DEF D
<1>3. z = F(z)
  <2>1. z[i - 1] = 0 /\ z[i - 1] * 10 + v(i) = w
    BY <1>1, <1>2
  <2>2. \A k \in D : z[k] = F(z)[k]
    <3>1. F(z)[i - 1] = 0 /\ F(z)[i] = z[i - 1] * 10 + v(i) /\ z[i] = w
      BY <1>2
    <3> HIDE DEF F, z
    <3> QED
      BY <1>2, <2>1, <3>1
  <2>3. z = [k \in D |-> z[k]] /\ F(z) = [k \in D |-> F(z)[k]]
    OBVIOUS
  <2> HIDE DEF F, z
  <2> QED
    BY <2>2, <2>3
<1>4. a = F(a)
  <2> HIDE DEF F, z
  <2> QED
    BY Zenon, <1>3
<1>5. Fmt!atoi(fmt, i, i + 1) = a[(i + 1) - 1]
  BY DEF Fmt!atoi, v, D
<1> HIDE DEF a
<1>6. F(a)[i] = a[i - 1] * 10 + v(i) /\ F(a)[i - 1] = 0 /\ (i + 1) - 1 = i
  BY <1>2
<1> HIDE DEF F
<1> QED
  BY <1>1, <1>4, <1>5, <1>6

\* What vsprintf must have read of the format of d.
Seen(d) ==
  [flags |-> {d.flags[k] : k \in 1..Len(d.flags)}, width |-> d.width, precision |-> d.precision,
   qualifier |-> d.qualifier, conv |-> d.conv, start |-> 2, next |-> Len(Format(d))]

LEMMA Places ==
  ASSUME NEW d \in Asked, d.conv \in Letter
  PROVE  /\ WidthAt(d) \in Nat /\ WidthAt(d) >= 3 /\ WidthAt(d) = 3 + Len(d.flags)
         /\ PrecisionAt(d) \in Nat /\ LengthAt(d) \in Nat /\ ConvAt(d) \in Nat
         /\ d.width = 0 => PrecisionAt(d) = WidthAt(d)
         /\ d.width # 0 => PrecisionAt(d) = WidthAt(d) + 1
         /\ d.precision = 0 => LengthAt(d) = PrecisionAt(d)
         /\ d.precision # 0 => LengthAt(d) = PrecisionAt(d) + 2
         /\ d.qualifier = "none" => ConvAt(d) = LengthAt(d)
         /\ d.qualifier = "c" => ConvAt(d) = LengthAt(d) + 2
         /\ d.qualifier \in {"l", "h"} => ConvAt(d) = LengthAt(d) + 1
         /\ WidthAt(d) <= PrecisionAt(d) /\ PrecisionAt(d) <= LengthAt(d) /\ LengthAt(d) <= ConvAt(d)
<1>1. Len(d.flags) \in Nat /\ d.qualifier \in {"none", "l", "h", "c"}
  BY DirectiveParts
<1>2. WidthAt(d) \in Nat /\ WidthAt(d) >= 3 /\ WidthAt(d) = 3 + Len(d.flags)
  BY <1>1 DEF WidthAt
<1>3. /\ PrecisionAt(d) \in Nat /\ WidthAt(d) <= PrecisionAt(d)
      /\ d.width = 0 => PrecisionAt(d) = WidthAt(d)
      /\ d.width # 0 => PrecisionAt(d) = WidthAt(d) + 1
  <2>1. CASE d.width = 0
    BY <1>2, <2>1 DEF PrecisionAt
  <2>2. CASE d.width # 0
    BY <1>2, <2>2 DEF PrecisionAt
  <2> QED
    BY <2>1, <2>2
<1>4. /\ LengthAt(d) \in Nat /\ PrecisionAt(d) <= LengthAt(d)
      /\ d.precision = 0 => LengthAt(d) = PrecisionAt(d)
      /\ d.precision # 0 => LengthAt(d) = PrecisionAt(d) + 2
  BY <1>3 DEF LengthAt
<1>5. /\ ConvAt(d) \in Nat /\ LengthAt(d) <= ConvAt(d)
      /\ d.qualifier = "none" => ConvAt(d) = LengthAt(d)
      /\ d.qualifier = "c" => ConvAt(d) = LengthAt(d) + 2
      /\ d.qualifier \in {"l", "h"} => ConvAt(d) = LengthAt(d) + 1
  BY <1>4 DEF ConvAt
<1> QED
  BY <1>2, <1>3, <1>4, <1>5

\* vsprintf reads of a format the directive it was made of.
LEMMA DirectiveIs ==
  ASSUME NEW d \in Asked, d.conv \in Letter
  PROVE  Fmt!Directive(Format(d), 2) = Seen(d)
<1> DEFINE f == Format(d)
           fl == d.flags
           a == WidthAt(d)
           b == PrecisionAt(d)
           c == LengthAt(d)
           v == ConvAt(d)
<1>1. /\ f \in Seq(Text) /\ Len(f) = v + 1
      /\ \A k \in 1..Len(fl) : f[2 + k] = fl[k]
      /\ d.width # 0 => f[a] = Fmt!lower_digit[d.width + 1]
      /\ d.precision # 0 => f[b] = "." /\ f[b + 1] = Fmt!lower_digit[d.precision + 1]
      /\ d.qualifier = "c" => f[c] = "h" /\ f[c + 1] = "h"
      /\ d.qualifier \in {"l", "h"} => f[c] = d.qualifier
      /\ f[v] = d.conv
  BY FormatIs DEF FormatRight
<1>2. /\ fl \in Seq(FlagChar) /\ Len(fl) \in Nat /\ d.width \in 0..9 /\ d.precision \in 0..9
      /\ d.qualifier \in {"none", "l", "h", "c"}
  BY DirectiveParts
<1>3. /\ a \in Nat /\ a >= 3 /\ a = 3 + Len(fl) /\ b \in Nat /\ c \in Nat /\ v \in Nat
      /\ d.width = 0 => b = a
      /\ d.width # 0 => b = a + 1
      /\ d.precision = 0 => c = b
      /\ d.precision # 0 => c = b + 2
      /\ a <= b /\ b <= c /\ c <= v
  BY Places
<1>4. /\ d.qualifier = "none" => v = c
      /\ d.qualifier = "c" => v = c + 2
      /\ d.qualifier \in {"l", "h"} => v = c + 1
  BY Places
<1> HIDE DEF f, fl, a, b, c, v
<1>5. f[c] \in Letter \cup {"h", "l"}
  <2>1. CASE d.qualifier = "none"
    BY <1>1, <1>4, <2>1
  <2>2. CASE d.qualifier = "c"
    BY <1>1, <2>2
  <2>3. CASE d.qualifier \in {"l", "h"}
    BY <1>1, <2>3
  <2> QED
    BY <1>2, <2>1, <2>2, <2>3
<1>6. f[c] \notin FlagChar /\ f[c] \notin Fmt!Digit /\ f[c] # "."
  BY <1>5, Marks
<1>7. f[b] \notin FlagChar /\ f[b] \notin Fmt!Digit
  <2>1. CASE d.precision = 0
    BY <1>3, <1>6, <2>1
  <2>2. CASE d.precision # 0
    BY <1>1, <2>2, Marks
  <2> QED
    BY <2>1, <2>2
<1>8. f[a] \notin FlagChar
  <2>1. CASE d.width = 0
    BY <1>3, <1>7, <2>1
  <2>2. CASE d.width # 0
    BY <1>1, <1>2, <2>2, SpelledIs
  <2> QED
    BY <2>1, <2>2
<1>9. Len(f) \in Nat /\ a \in 3..Len(f) /\ b \in a..Len(f) /\ c \in b..Len(f) /\ v \in c..Len(f)
  <2>1. Len(f) = v + 1
    BY <1>1
  <2> QED
    BY <1>3, <2>1
<1>10. \A k \in 3..(a - 1) : f[k] = fl[k - 2] /\ k - 2 \in 1..Len(fl) /\ fl[k - 2] \in FlagChar
  <2> SUFFICES ASSUME NEW k \in 3..(a - 1)
               PROVE  f[k] = fl[k - 2] /\ k - 2 \in 1..Len(fl) /\ fl[k - 2] \in FlagChar
    OBVIOUS
  <2>1. k - 2 \in 1..Len(fl) /\ 2 + (k - 2) = k
    BY <1>2, <1>3
  <2>2. f[k] = fl[k - 2]
    BY <1>1, <2>1
  <2>3. fl[k - 2] \in FlagChar
    BY <1>2, <2>1
  <2> QED
    BY <2>1, <2>2, <2>3
<1>11. Fmt!Skip(f, 3, {"+", "-", "0", Fmt!Blank, "#"}) = a
  <2>1. 3 \in Nat /\ \A k \in 3..(a - 1) : f[k] \in FlagChar
    BY <1>10
  <2>2. Fmt!Skip(f, 3, FlagChar) = a
    BY <1>8, <1>9, <2>1, SkipIs
  <2> QED
    BY <2>2, Marks
<1>12. Fmt!EndOfWidth(f, a) = b
  <2>1. \A k \in a..(b - 1) : f[k] \in Fmt!Digit
    <3>1. CASE d.width = 0
      <4>1. \A k \in a..(b - 1) : FALSE
        BY <1>3, <3>1
      <4> QED
        BY <4>1
    <3>2. CASE d.width # 0
      <4>1. \A k \in a..(b - 1) : k = a
        BY <1>3, <3>2
      <4>2. f[a] \in Fmt!Digit
        BY <1>1, <1>2, <3>2, SpelledIs
      <4> QED
        BY <4>1, <4>2
    <3> QED
      BY <3>1, <3>2
  <2>2. Fmt!Skip(f, a, Fmt!Digit) = b
    BY <1>3, <1>7, <1>9, <2>1, SkipIs
  <2> QED
    BY <2>2 DEF Fmt!EndOfWidth
<1>13. Fmt!EndOfPrecision(f, b) = c
  <2>1. Fmt!At(f, b) = f[b]
    BY <1>3, <1>9 DEF Fmt!At
  <2>2. CASE d.precision = 0
    <3>1. f[b] # "." /\ c = b
      BY <1>3, <1>6, <2>2
    <3> QED
      BY <2>1, <3>1 DEF Fmt!EndOfPrecision
  <2>3. CASE d.precision # 0
    <3>1. f[b] = "." /\ c = b + 2 /\ b + 1 \in Nat /\ c \in (b + 1)..Len(f)
      BY <1>1, <1>3, <1>9, <2>3
    <3>2. \A k \in (b + 1)..(c - 1) : f[k] \in Fmt!Digit
      <4>1. \A k \in (b + 1)..(c - 1) : k = b + 1
        BY <1>3, <3>1
      <4>2. f[b + 1] \in Fmt!Digit
        BY <1>1, <1>2, <2>3, SpelledIs
      <4> QED
        BY <4>1, <4>2
    <3>3. Fmt!Skip(f, b + 1, Fmt!Digit) = c
      BY <1>6, <1>9, <3>1, <3>2, SkipIs
    <3> QED
      BY <2>1, <3>1, <3>3 DEF Fmt!EndOfPrecision
  <2> QED
    BY <2>2, <2>3
<1>14. Fmt!atoi(f, a, b) = d.width
  <2>1. CASE d.width = 0
    BY <1>3, <2>1, NoDigits
  <2>2. CASE d.width # 0
    <3>1. b = a + 1 /\ a \in Nat
      BY <1>3, <2>2
    <3>2. Fmt!atoi(f, a, a + 1) = d.width
      BY <1>1, <1>2, <2>2, <3>1, OneDigit
    <3> QED
      BY <3>1, <3>2
  <2> QED
    BY <2>1, <2>2
<1>15. (IF c = b THEN 0 ELSE Fmt!atoi(f, b + 1, c)) = d.precision
  <2>1. CASE d.precision = 0
    BY <1>3, <2>1
  <2>2. CASE d.precision # 0
    <3>1. c = (b + 1) + 1 /\ c # b /\ b + 1 \in Nat
      BY <1>3, <2>2
    <3>2. Fmt!atoi(f, b + 1, (b + 1) + 1) = d.precision
      BY <1>1, <1>2, <2>2, <3>1, OneDigit
    <3> QED
      BY <3>1, <3>2
  <2> QED
    BY <2>1, <2>2
<1> DEFINE qual == IF Fmt!At(f, c) = "h" /\ Fmt!At(f, c + 1) = "h" THEN "c"
                   ELSE IF Fmt!At(f, c) \in {"l", "h"} THEN Fmt!At(f, c) ELSE "none"
           conv == c + (IF qual = "none" THEN 0 ELSE IF qual = "c" THEN 2 ELSE 1)
<1>16. /\ Fmt!At(f, c) = f[c] /\ Fmt!At(f, v) = f[v]
       /\ d.qualifier # "none" => Fmt!At(f, c + 1) = f[c + 1]
  <2>1. d.qualifier # "none" => c + 1 \in 1..Len(f)
    BY <1>1, <1>2, <1>3, <1>4
  <2>2. c \in 1..Len(f) /\ v \in 1..Len(f)
    BY <1>3, <1>9
  <2> QED
    BY <1>9, <2>1, <2>2 DEF Fmt!At
<1>17. f[v] = d.conv /\ d.conv # "h" /\ d.conv # "l"
  BY <1>1, Marks
<1>18. qual = d.qualifier
  <2>1. CASE d.qualifier = "none"
    <3>1. f[c] = f[v]
      BY <1>4, <2>1
    <3> QED
      BY <1>16, <1>17, <2>1, <3>1
  <2>2. CASE d.qualifier = "c"
    BY <1>1, <1>16, <2>2
  <2>3. CASE d.qualifier \in {"l", "h"}
    <3>1. f[c] = d.qualifier /\ f[c + 1] = f[v]
      BY <1>1, <1>4, <2>3
    <3> QED
      BY <1>16, <1>17, <2>3, <3>1
  <2> QED
    BY <1>2, <2>1, <2>2, <2>3
<1>19. conv = v
  <2> HIDE DEF qual
  <2>1. CASE d.qualifier = "none"
    BY <1>3, <1>4, <1>18, <2>1
  <2>2. CASE d.qualifier = "c"
    BY <1>4, <1>18, <2>2
  <2>3. CASE d.qualifier \in {"l", "h"}
    BY <1>4, <1>18, <2>3
  <2> QED
    BY <1>2, <2>1, <2>2, <2>3
<1>20. {f[k] : k \in 3..(a - 1)} = {fl[k] : k \in 1..Len(fl)}
  <2>1. \A k \in 1..Len(fl) : 2 + k \in 3..(a - 1) /\ f[2 + k] = fl[k]
    BY <1>1, <1>2, <1>3
  <2> QED
    BY <1>10, <2>1
<1>21. Fmt!DirectiveUpTo(f, 2, a, b, c) =
         [flags |-> {f[k] : k \in (2 + 1)..(a - 1)}, width |-> Fmt!atoi(f, a, b),
          precision |-> IF c = b THEN 0 ELSE Fmt!atoi(f, b + 1, c),
          qualifier |-> qual, conv |-> Fmt!At(f, conv), start |-> 2, next |-> conv + 1]
  BY Zenon DEF Fmt!DirectiveUpTo
<1>22. 2 + 1 = 3 /\ v + 1 = Len(f)
  BY <1>1
<1> HIDE DEF qual, conv
<1>23. Fmt!Directive(f, 2) = Fmt!DirectiveUpTo(f, 2, a, b, c)
  BY <1>11, <1>12, <1>13, <1>22 DEF Fmt!Directive
<1>24. Fmt!At(f, conv) = d.conv
  BY <1>16, <1>17, <1>19
<1> QED
  BY <1>14, <1>15, <1>18, <1>19, <1>20, <1>21, <1>22, <1>23, <1>24, Zenon DEF Seen, f, fl

\* The loop copies the first character, writes the directive, copies the last, stops.
LEMMA VsprintfIs ==
  ASSUME NEW d \in Asked, d.conv \in Letter, NEW arg
  PROVE  Fmt!vsprintf(Format(d), <<arg>>).text =
           Append(Append(<<>>, "(") \o Fmt!Written(Seen(d), arg), ")")
<1> DEFINE f == Format(d)
           args == <<arg>>
           N == Len(f)
           st0 == [text |-> <<>>, used |-> 0, at |-> 1]
           st1 == [text |-> Append(<<>>, "("), used |-> 0, at |-> 2]
           st2 == [text |-> Append(<<>>, "(") \o Fmt!Written(Seen(d), arg), used |-> 1, at |-> N]
           st3 == [text |-> Append(Append(<<>>, "(") \o Fmt!Written(Seen(d), arg), ")"), used |-> 1,
                   at |-> N + 1]
           F(w) == [n \in 0..N |-> IF n = 0 THEN st0 ELSE Fmt!Turn(w[n - 1], f, args)]
           st(n) == IF n = 0 THEN st0 ELSE IF n = 1 THEN st1 ELSE IF n = 2 THEN st2 ELSE st3
           z == [n \in 0..N |-> st(n)]
           after == CHOOSE w : w = F(w)
<1>1. /\ N \in Nat /\ N >= 4 /\ f[1] = "(" /\ f[2] = "%" /\ f[N] = ")"
  <2>1. N = ConvAt(d) + 1 /\ f[1] = "(" /\ f[2] = "%" /\ f[ConvAt(d) + 1] = ")"
    BY FormatIs DEF FormatRight
  <2>2. ConvAt(d) \in Nat /\ ConvAt(d) >= 3
    BY Places
  <2> HIDE DEF f
  <2>3. N \in Nat /\ N >= 4
    BY <2>1, <2>2
  <2> QED
    BY <2>1, <2>3
<1>2. Fmt!Directive(f, 2) = Seen(d)
  BY DirectiveIs
<1>3. Seen(d).conv = d.conv /\ Seen(d).next = N
  BY DEF Seen
<1>4. d.conv \in Fmt!Known
  BY DEF Letter, NumberConv, Fmt!Known, Fmt!Signed
<1>5. args[1] = arg
  OBVIOUS
<1> HIDE DEF f, args
<1>6. Fmt!Turn(st0, f, args) = st1
  <2>1. st0.at = 1 /\ st0.text = <<>> /\ ~(1 > N) /\ f[1] # "%"
    BY <1>1
  <2>2. Fmt!Turn(st0, f, args) = Fmt!Copy(st0, f[1])
    <3> HIDE DEF st0
    <3> QED
      BY <2>1 DEF Fmt!Turn
  <2>3. Fmt!Copy(st0, f[1]) = [text |-> Append(st0.text, f[1]), used |-> st0.used, at |-> st0.at + 1]
    BY Zenon DEF Fmt!Copy
  <2>4. st0.used = 0 /\ st0.at + 1 = 2 /\ st0.text = <<>>
    OBVIOUS
  <2> QED
    BY <1>1, <2>2, <2>3, <2>4, Zenon
<1>7. Fmt!Turn(st1, f, args) = st2
  <2>1. st1.at = 2 /\ st1.used = 0 /\ st1.text = Append(<<>>, "(") /\ ~(2 > N) /\ f[2] = "%"
    BY <1>1
  <2>2. Fmt!Turn(st1, f, args) = Fmt!Convert(st1, Seen(d), args)
    <3> HIDE DEF st1
    <3> QED
      BY <1>2, <2>1 DEF Fmt!Turn
  <2>3. st1.used + 1 = 1
    BY <2>1
  <2>4. Fmt!Convert(st1, Seen(d), args) =
          [text |-> st1.text \o Fmt!Written(Seen(d), args[1]), used |-> 1, at |-> N]
    <3> HIDE DEF st1
    <3> QED
      BY <1>3, <1>4, <2>3, Zenon DEF Fmt!Convert
  <2> QED
    BY <1>5, <2>1, <2>2, <2>4, Zenon
<1>8. Fmt!Turn(st2, f, args) = st3
  <2>1. st2.at = N /\ ~(N > N) /\ f[N] # "%"
    BY <1>1
  <2>2. Fmt!Turn(st2, f, args) = Fmt!Copy(st2, f[N])
    <3> HIDE DEF st2
    <3> QED
      BY <2>1 DEF Fmt!Turn
  <2>3. Fmt!Copy(st2, f[N]) = [text |-> Append(st2.text, f[N]), used |-> st2.used, at |-> st2.at + 1]
    BY Zenon DEF Fmt!Copy
  <2>4. st2.text = Append(<<>>, "(") \o Fmt!Written(Seen(d), arg) /\ st2.used = 1 /\ st2.at + 1 = N + 1
    OBVIOUS
  <2> QED
    BY <1>1, <2>2, <2>3, <2>4, Zenon
<1>9. Fmt!Turn(st3, f, args) = st3
  <2>1. st3.at > Len(f)
    BY <1>1
  <2> HIDE DEF st3
  <2> QED
    BY <2>1 DEF Fmt!Turn
<1> HIDE DEF st0, st1, st2, st3, N
<1>10. \A n \in 1..N : st(n) = Fmt!Turn(st(n - 1), f, args)
  <2> SUFFICES ASSUME NEW n \in 1..N
               PROVE  st(n) = Fmt!Turn(st(n - 1), f, args)
    OBVIOUS
  <2>1. CASE n = 1
    <3>1. n - 1 = 0 /\ n # 0
      BY <2>1
    <3> QED
      BY <1>6, <2>1, <3>1
  <2>2. CASE n = 2
    <3>1. n - 1 = 1 /\ n # 0 /\ n # 1 /\ n - 1 # 0
      BY <2>2
    <3> QED
      BY <1>7, <2>2, <3>1
  <2>3. CASE n = 3
    <3>1. n - 1 = 2 /\ n # 0 /\ n # 1 /\ n # 2 /\ n - 1 # 0 /\ n - 1 # 1
      BY <2>3
    <3> QED
      BY <1>8, <2>3, <3>1
  <2>4. CASE n > 3
    <3>1. n # 0 /\ n # 1 /\ n # 2 /\ n - 1 # 0 /\ n - 1 # 1 /\ n - 1 # 2
      BY <2>4
    <3> QED
      BY <1>9, <3>1
  <2>5. n = 1 \/ n = 2 \/ n = 3 \/ n > 3
    BY <1>1
  <2> QED
    BY <2>1, <2>2, <2>3, <2>4, <2>5
<1>11. st(0) = st0 /\ st(N) = st3
  BY <1>1
<1> HIDE DEF st
<1>12. z = F(z)
  <2>1. ASSUME NEW n \in 0..N
        PROVE  z[n] = F(z)[n]
    <3>1. CASE n = 0
      BY <1>11, <3>1
    <3>2. CASE n # 0
      <4>1. n \in 1..N /\ n - 1 \in 0..N
        BY <1>1, <3>2
      <4>2. z[n] = st(n) /\ z[n - 1] = st(n - 1)
        BY <4>1
      <4>3. F(z)[n] = Fmt!Turn(z[n - 1], f, args)
        BY <3>2
      <4> HIDE DEF z, F
      <4> QED
        BY <1>10, <4>1, <4>2, <4>3
    <3> QED
      BY <3>1, <3>2
  <2>2. z = [n \in 0..N |-> z[n]] /\ F(z) = [n \in 0..N |-> F(z)[n]]
    OBVIOUS
  <2> HIDE DEF z, F
  <2> QED
    BY <2>1, <2>2
<1>13. after = F(after)
  <2> HIDE DEF F, z
  <2> QED
    BY Zenon, <1>12
<1>14. Fmt!vsprintf(f, args) = after[N]
  BY DEF Fmt!vsprintf, N, st0
<1> HIDE DEF after
<1>15. after[0] = st0 /\ \A n \in 1..N : after[n] = Fmt!Turn(after[n - 1], f, args)
  <2>1. F(after)[0] = st0 /\ \A n \in 1..N : F(after)[n] = Fmt!Turn(after[n - 1], f, args)
    BY <1>1
  <2> HIDE DEF F
  <2> QED
    BY <1>13, <2>1
<1>16. ASSUME NEW n \in 0..N, after[n] # st(n)
       PROVE  FALSE
  <2> DEFINE T == {m \in 0..N : after[m] # st(m)}
  <2>1. PICK m \in T : \A y \in T : m <= y
    <3>1. T \subseteq Nat /\ T # {}
      BY <1>16
    <3> HIDE DEF T
    <3> QED
      BY <3>1, LeastNat
  <2>2. m \in 0..N /\ after[m] # st(m)
    OBVIOUS
  <2>3. m \in 1..N /\ m - 1 \in 0..N /\ ~(m <= m - 1)
    BY <1>1, <1>11, <1>15, <2>2
  <2>4. after[m - 1] = st(m - 1)
    <3>1. m - 1 \notin T
      <4> HIDE DEF T
      <4> QED
        BY <2>1, <2>3
    <3> QED
      BY <2>3, <3>1
  <2> QED
    BY <1>10, <1>15, <2>2, <2>3, <2>4
<1>17. after[N] = st3
  BY <1>1, <1>11, <1>16
<1>18. st3.text = Append(Append(<<>>, "(") \o Fmt!Written(Seen(d), arg), ")")
  BY DEF st3
<1> QED
  BY <1>14, <1>17, <1>18 DEF f, args

-----------------------------------------------------------------------------
(* What vsprintf leaves                                                      *)

\* The text between two characters.
LEMMA Inside ==
  ASSUME NEW A, NEW w \in Seq(A), NEW a \in A, NEW b \in A
  PROVE  LET text == Append(Append(<<>>, a) \o w, b)
         IN  SubSeq(text, 2, Len(text) - 1) = w
<1> DEFINE open == Append(<<>>, a)
           front == open \o w
           text == Append(front, b)
           inside == SubSeq(text, 2, Len(text) - 1)
<1>1. open \in Seq(A)
  OBVIOUS
<1>2. Len(open) = 1
  OBVIOUS
<1> HIDE DEF open
<1>3. /\ front \in Seq(A) /\ Len(front) = 1 + Len(w) /\ Len(w) \in Nat
      /\ \A k \in 1..Len(w) : front[1 + k] = w[k]
  <2>1. /\ front \in Seq(A) /\ Len(front) = Len(open) + Len(w) /\ Len(w) \in Nat
        /\ \A k \in 1..Len(w) : front[Len(open) + k] = w[k]
    BY <1>1, Concat
  <2> HIDE DEF front
  <2> QED
    BY <1>2, <2>1
<1> HIDE DEF front
<1>4. text \in Seq(A) /\ Len(text) = Len(front) + 1 /\ \A k \in 1..Len(front) : text[k] = front[k]
  BY <1>3
<1> HIDE DEF text
<1>5. Len(text) = Len(w) + 2 /\ \A k \in 1..Len(w) : text[1 + k] = w[k]
  BY <1>3, <1>4
<1>6. /\ inside \in Seq(A) /\ Len(inside) = Len(w)
      /\ \A k \in 1..Len(w) : inside[k] = text[2 + k - 1]
  BY <1>3, <1>4, <1>5
<1>7. \A k \in 1..Len(w) : 2 + k - 1 = 1 + k
  BY <1>3
<1> HIDE DEF inside
<1>8. \A k \in 1..Len(w) : inside[k] = w[k]
  BY <1>5, <1>6, <1>7
<1>9. inside = w
  BY <1>6, <1>8
<1> QED
  BY <1>9 DEF inside, text, front, open

\* A number directive goes to number, as it stands.
LEMMA WrittenNumber ==
  ASSUME NEW d, NEW arg, d.conv \in NumberConv
  PROVE  Fmt!Written(d, arg) = Fmt!Converted(d, arg)
<1>1. /\ d.conv # "p" /\ d.conv # "s" /\ d.conv # "c"
      /\ d.conv \in Fmt!Signed \cup {"u", "x", "X"}
  BY DEF NumberConv, Fmt!Signed
<1> QED
  BY <1>1, Zenon DEF Fmt!Written

LEMMA WrittenString ==
  ASSUME NEW d, NEW arg, d.conv = "s", arg # Fmt!NoString
  PROVE  Fmt!Written(d, arg) = SubSeq(arg, 1, Fmt!S!strlen(arg, 1) - 1) \o Fmt!Times(d.width, Fmt!Blank)
<1>1. /\ d.conv # "p" /\ d.conv # "c" /\ d.conv \notin Fmt!Signed \cup {"u", "x", "X"}
  BY DEF Fmt!Signed
<1> QED
  BY <1>1, Zenon DEF Fmt!Written

\* In the text vsprintf leaves, the strings of a call end where they end.
LEMMA WrittenWhole ==
  ASSUME NEW d, NEW arg \in Strings, d.conv = "s", arg # Fmt!NoString, NEW width \in Nat, d.width = width
  PROVE  LET end == CHOOSE k \in 1..Len(arg) :
                      arg[k] = "NUL" /\ \A j \in 1..(k - 1) : arg[j] # "NUL"
         IN  /\ Fmt!Written(d, arg) =
                  SubSeq(arg, 1, end - 1) \o [k \in 1..width |-> Fmt!Blank]
             /\ Fmt!Written(d, arg) \in Seq({"a", "b", "NUL", "c", Fmt!Blank})
<1> DEFINE A == {"a", "b", "NUL", "c", Fmt!Blank}
           Ends(k) == arg[k] = "NUL" /\ \A j \in 1..(k - 1) : arg[j] # "NUL"
           end == CHOOSE k \in 1..Len(arg) : Ends(k)
           T == {k \in 1..Len(arg) : arg[k] = "NUL"}
<1>1. arg \in Seq(A) /\ \E k \in 1..Len(arg) : Ends(k)
  <2>1. CASE arg = <<"NUL">>
    <3>1. 1 \in 1..Len(arg) /\ Ends(1)
      BY <2>1
    <3> QED
      BY <2>1, <3>1
  <2>2. CASE arg = <<"a", "NUL">>
    <3>1. 2 \in 1..Len(arg) /\ Ends(2)
      BY <2>2
    <3> QED
      BY <2>2, <3>1
  <2>3. CASE arg = <<"a", "b", "NUL", "c">>
    <3>1. 3 \in 1..Len(arg) /\ Ends(3)
      BY <2>3
    <3> QED
      BY <2>3, <3>1
  <2> QED
    BY <2>1, <2>2, <2>3 DEF Strings
<1> HIDE DEF Ends
<1>2. end \in 1..Len(arg) /\ Ends(end)
  BY <1>1
<1> HIDE DEF end, A
<1>3. Len(arg) \in Nat /\ end \in T /\ T \subseteq Nat /\ \A k \in T : end <= k
  BY <1>1, <1>2 DEF Ends
<1>4. Fmt!S!EndOf(arg, 1) = Fmt!Min(T)
  BY DEF Fmt!S!EndOf, Fmt!S!Min, Fmt!Min, Fmt!NUL
<1> HIDE DEF T
<1>5. Fmt!S!EndOf(arg, 1) = end
  BY <1>3, <1>4, LeastOf
<1>6. Fmt!S!strlen(arg, 1) - 1 = end - 1
  BY <1>2, <1>5 DEF Fmt!S!strlen
<1> DEFINE text == SubSeq(arg, 1, end - 1)
           blanks == Fmt!Times(width, Fmt!Blank)
<1>7. Fmt!Written(d, arg) = text \o blanks
  BY <1>6, WrittenString
<1>8. blanks = [k \in 1..width |-> Fmt!Blank]
  <2>1. (IF width > 0 THEN width ELSE 0) = width
    OBVIOUS
  <2> QED
    BY <2>1, Zenon DEF Fmt!Times
<1>9. text \in Seq(A)
  BY <1>1, <1>2
<1>10. blanks \in Seq(A)
  <2>1. Fmt!Blank \in A
    BY DEF A
  <2> QED
    BY <2>1, TimesIs
<1> HIDE DEF text, blanks
<1>11. text \o blanks \in Seq(A)
  BY <1>9, <1>10, Concat
<1> QED
  BY <1>7, <1>8, <1>11 DEF text, end, A, Ends

\* What is known of the last call of vsprintf.
FormatInv ==
  call.fn = "vsprintf" =>
    /\ call.d \in Asked
    /\ call.d.conv \in NumberConv => call.arg \in Number
    /\ call.d.conv = "s" => call.arg \in Strings
    /\ call.d.conv \in Letter =>
         done.text = Append(Append(<<>>, "(") \o Fmt!Written(Seen(call.d), call.arg), ")")

LEMMA SeenIs ==
  ASSUME NEW d \in Asked, d.conv \in NumberConv
  PROVE  /\ Seen(d) \in NumberDirective
         /\ "-" \in Seen(d).flags => d.flags[1] = "-"
<1>1. /\ d.flags \in Seq(FlagChar) /\ Len(d.flags) \in Nat
      /\ \A k \in 1..Len(d.flags) : d.flags[k] = "-" => d.flags[1] = "-"
      /\ d.width \in Nat /\ d.precision \in Nat /\ d.qualifier \in {"none", "l", "h", "c"}
  BY DirectiveParts DEF Letter
<1>2. Len(Format(d)) \in Nat
  <2>1. Len(Format(d)) = ConvAt(d) + 1
    BY FormatIs DEF FormatRight, Letter
  <2>2. ConvAt(d) \in Nat
    BY Places DEF Letter
  <2> QED
    BY <2>1, <2>2
<1> DEFINE fl == d.flags
<1>3. {fl[k] : k \in 1..Len(fl)} \in SUBSET FlagChar
  <2> HIDE DEF fl
  <2>1. fl \in Seq(FlagChar)
    BY <1>1 DEF fl
  <2> QED
    BY <2>1
<1>4. "-" \in {fl[k] : k \in 1..Len(fl)} => fl[1] = "-"
  BY <1>1
<1> HIDE DEF fl
<1>5. Seen(d) = [flags |-> {fl[k] : k \in 1..Len(fl)}, width |-> d.width, precision |-> d.precision,
                 qualifier |-> d.qualifier, conv |-> d.conv, start |-> 2, next |-> Len(Format(d))]
  BY DEF Seen, fl
<1>6. Seen(d) \in NumberDirective
  <2> DEFINE flags == {fl[k] : k \in 1..Len(fl)}
             n == Len(Format(d))
  <2>1. flags \in SUBSET FlagChar /\ n \in Nat
    BY <1>2, <1>3
  <2> HIDE DEF flags, n
  <2>2. [flags |-> flags, width |-> d.width, precision |-> d.precision,
         qualifier |-> d.qualifier, conv |-> d.conv, start |-> 2, next |-> n] \in NumberDirective
    BY <1>1, <2>1 DEF NumberDirective
  <2> QED
    BY <1>5, <2>2 DEF flags, n
<1> QED
  BY <1>4, <1>5, <1>6 DEF fl

LEMMA NumberInNat == \A n \in Number : n \in Nat
<1>1. LONG \in Nat /\ Number \subseteq 0..(LONG - 1)
  BY KlibAssumption DEF KlibAssumption
<1> QED
  BY <1>1

\* A number directive, read back.
LEMMA NumbersShown ==
  ASSUME FormatInv, IsCall(NumberConv)
  PROVE  Shows(Field, IF call.d.conv \in {"x", "X"} THEN 16 ELSE 10,
               Meant(call.arg, call.d.qualifier, call.d.conv = "d"),
               call.d.width, call.d.precision, "-" \in Seen(call.d).flags)
<1> DEFINE d == call.d
           w == Fmt!Written(Seen(d), call.arg)
           A == Glyph \cup NoDigit \cup {"(", ")"}
<1>1. /\ d \in Asked /\ d.conv \in NumberConv /\ call.arg \in Number
      /\ done.text = Append(Append(<<>>, "(") \o w, ")")
  BY DEF FormatInv, IsCall, Letter
<1>2. call.arg \in Nat
  BY <1>1, NumberInNat
<1>3. Seen(d) \in NumberDirective
  BY <1>1, SeenIs
<1>4. /\ Seen(d).conv = d.conv /\ Seen(d).qualifier = d.qualifier
      /\ Seen(d).width = d.width /\ Seen(d).precision = d.precision
  BY DEF Seen
<1>5. w = Fmt!Converted(Seen(d), call.arg)
  BY <1>1, <1>4, WrittenNumber
<1>6. Shows(Fmt!Converted(Seen(d), call.arg), IF Seen(d).conv \in {"x", "X"} THEN 16 ELSE 10,
            Meant(call.arg, Seen(d).qualifier, Seen(d).conv = "d"),
            Seen(d).width, Seen(d).precision, "-" \in Seen(d).flags)
  BY <1>2, <1>3, ConvertedIs
<1> HIDE DEF w
<1>7. Field = w
  <2>1. w \in Seq(Glyph \cup NoDigit)
    BY <1>5, <1>6 DEF Shows
  <2> HIDE DEF A
  <2>2. w \in Seq(A) /\ "(" \in A /\ ")" \in A
    <3>1. Glyph \cup NoDigit \subseteq A /\ "(" \in A /\ ")" \in A
      BY DEF A
    <3> QED
      BY <2>1, <3>1
  <2>3. SubSeq(done.text, 2, Len(done.text) - 1) = w
    BY <1>1, <2>2, Inside
  <2> QED
    BY <2>3 DEF Field
<1> QED
  BY <1>4, <1>5, <1>6, <1>7

\* What vsprintf has left is what FormatsAsMeant says.
LEMMA FormatInvFollows == FormatInv => FormatsAsMeant
<1> SUFFICES ASSUME FormatInv
             PROVE  FormatsAsMeant
  OBVIOUS
<1>1. ReadsBack
  BY NumbersShown DEF ReadsBack, Shows
<1>2. FillsWidth
  <2> SUFFICES ASSUME IsCall(NumberConv)
               PROVE  /\ Len(Field) >= call.d.width
                      /\ Cardinality({k \in 1..Len(Field) : Field[k] \notin NoDigit}) >= call.d.precision
                      /\ \A k \in 1..(Len(Field) - 1) :
                           Field[k + 1] = Fmt!Blank =>
                             k = 1 \/ Field[k] = Fmt!Blank \/ call.d.flags[1] = "-"
    BY DEF FillsWidth
  <2>1. call.d \in Asked /\ call.d.conv \in NumberConv
    BY DEF FormatInv, IsCall
  <2>2. "-" \in Seen(call.d).flags => call.d.flags[1] = "-"
    BY <2>1, SeenIs
  <2> QED
    BY <2>2, NumbersShown DEF Shows
<1>3. StringWhole
  <2> SUFFICES ASSUME IsCall({"s"}), call.arg # Fmt!NoString
               PROVE  LET end == CHOOSE k \in 1..Len(call.arg) :
                            call.arg[k] = "NUL" /\ \A j \in 1..(k - 1) : call.arg[j] # "NUL"
                      IN  Field = SubSeq(call.arg, 1, end - 1) \o [k \in 1..call.d.width |-> Fmt!Blank]
    BY DEF StringWhole
  <2> DEFINE d == call.d
             arg == call.arg
             w == Fmt!Written(Seen(d), arg)
             A == {"a", "b", "NUL", "c", Fmt!Blank} \cup {"(", ")"}
  <2>1. /\ d \in Asked /\ d.conv = "s" /\ arg \in Strings
        /\ done.text = Append(Append(<<>>, "(") \o w, ")")
    BY DEF FormatInv, IsCall, Letter
  <2>2. d.width \in Nat
    <3>1. d.conv \in Letter
      BY <2>1 DEF Letter
    <3> HIDE DEF d
    <3>2. d.width \in 0..9
      BY <2>1, <3>1, DirectiveParts
    <3> QED
      BY <3>2
  <2>3. Seen(d).conv = "s" /\ Seen(d).width = d.width
    BY <2>1 DEF Seen
  <2>4. LET end == CHOOSE k \in 1..Len(arg) :
                     arg[k] = "NUL" /\ \A j \in 1..(k - 1) : arg[j] # "NUL"
        IN  /\ w = SubSeq(arg, 1, end - 1) \o [k \in 1..d.width |-> Fmt!Blank]
            /\ w \in Seq({"a", "b", "NUL", "c", Fmt!Blank})
    BY <2>1, <2>2, <2>3, WrittenWhole
  <2> HIDE DEF w
  <2>5. Field = w
    <3> DEFINE B == {"a", "b", "NUL", "c", Fmt!Blank}
    <3>1. w \in Seq(B) /\ B \subseteq A /\ "(" \in A /\ ")" \in A
      BY <2>4
    <3> HIDE DEF B, A
    <3>2. w \in Seq(A)
      BY <3>1
    <3>3. SubSeq(done.text, 2, Len(done.text) - 1) = w
      BY <2>1, <3>1, <3>2, Inside
    <3> QED
      BY <3>3 DEF Field
  <2> QED
    BY <2>4, <2>5
<1> QED
  BY <1>1, <1>2, <1>3 DEF FormatsAsMeant

LEMMA format_call_Preserves == format_call => FormatInv'
<1> SUFFICES ASSUME format_call
             PROVE  FormatInv'
  OBVIOUS
<1>1. PICK d \in Asked :
        \E arg \in (IF d.conv = "s" THEN Strings ELSE IF d.conv = "c" THEN {"a"} ELSE Number) :
          /\ call' = [fn |-> "vsprintf", d |-> d, arg |-> arg]
          /\ done' = Fmt!vsprintf(Format(d), <<arg>>)
  BY Zenon DEF format_call, Asked
<1>2. PICK arg \in (IF d.conv = "s" THEN Strings ELSE IF d.conv = "c" THEN {"a"} ELSE Number) :
        /\ call' = [fn |-> "vsprintf", d |-> d, arg |-> arg]
        /\ done' = Fmt!vsprintf(Format(d), <<arg>>)
  BY <1>1
<1>3. d.conv = "s" => arg \in Strings
  BY <1>2
<1>4. d.conv \in NumberConv => arg \in Number
  BY <1>2 DEF NumberConv
<1>5. d.conv \in Letter =>
        done'.text = Append(Append(<<>>, "(") \o Fmt!Written(Seen(d), arg), ")")
  BY <1>2, VsprintfIs, Zenon
<1>6. call'.d = d /\ call'.arg = arg
  BY <1>2
<1> QED
  BY <1>3, <1>4, <1>5, <1>6, Zenon DEF FormatInv

-----------------------------------------------------------------------------
(* The theorems                                                              *)

IInv == LInv /\ ConsoleInv /\ CallInv /\ FormatInv

\* All parts start right.
LEMMA InitEstablishes == Init => IInv
<1>1. "none" \notin StringFn
  BY DEF StringFn
<1>2. Init => CallInv /\ FormatInv
  BY <1>1 DEF Init, CallInv, FormatInv, NoCall
<1> QED
  BY <1>2, LInitEstablishes, CInitEstablishes DEF Init, IInv

LEMMA UnchangedPreserves ==
  /\ LInv /\ UNCHANGED lvars => LInv'
  /\ ConsoleInv /\ UNCHANGED cvars => ConsoleInv'
  /\ CallInv /\ UNCHANGED <<call, done>> => CallInv'
  /\ FormatInv /\ UNCHANGED <<call, done>> => FormatInv'
<1>1. LInv /\ UNCHANGED lvars => LInv'
  BY DEF LInv, lvars
<1>2. ConsoleInv /\ UNCHANGED cvars => ConsoleInv'
  BY DEF ConsoleInv, cvars, CTypes, Ended, Mixed, SoFar, Console!Line
<1>3. CallInv /\ UNCHANGED <<call, done>> => CallInv'
  BY DEF CallInv
<1>4. FormatInv /\ UNCHANGED <<call, done>> => FormatInv'
  BY DEF FormatInv
<1> QED
  BY <1>1, <1>2, <1>3, <1>4

LEMMA NextPreserves == IInv /\ [Next]_vars => IInv'
<1> SUFFICES ASSUME IInv, [Next]_vars
             PROVE  IInv'
  OBVIOUS
<1>1. CASE part = "list" /\ LNext /\ UNCHANGED <<part, call, done, cvars>>
  BY <1>1, LNextPreserves, UnchangedPreserves DEF IInv
<1>2. CASE string_call
  <2>1. UNCHANGED lvars /\ UNCHANGED cvars /\ call'.fn \in StringFn
    BY <1>2 DEF string_call
  <2>2. call'.fn # "vsprintf"
    BY <2>1 DEF StringFn
  <2> QED
    BY <1>2, <2>1, <2>2, string_call_Preserves, UnchangedPreserves DEF IInv, FormatInv
<1>3. CASE format_call
  <2>1. /\ UNCHANGED lvars /\ UNCHANGED cvars
        /\ \E d, arg : call' = [fn |-> "vsprintf", d |-> d, arg |-> arg]
    BY <1>3 DEF format_call
  <2>2. call'.fn \notin StringFn
    BY <2>1 DEF StringFn
  <2> QED
    BY <1>3, <2>1, <2>2, format_call_Preserves, UnchangedPreserves DEF IInv, CallInv
<1>4. CASE return
  <2>1. /\ UNCHANGED lvars /\ UNCHANGED cvars
        /\ call'.fn \notin StringFn /\ call'.fn # "vsprintf"
    BY <1>4 DEF return, NoCall, StringFn
  <2> QED
    BY <2>1, UnchangedPreserves DEF IInv, CallInv, FormatInv
<1>5. CASE part = "console" /\ Console!CNext /\ UNCHANGED <<lvars, part, call, done>>
  BY <1>5, CNextPreserves, UnchangedPreserves DEF IInv
<1>6. CASE UNCHANGED vars
  <2>1. UNCHANGED lvars /\ UNCHANGED cvars /\ UNCHANGED <<call, done>>
    BY <1>6 DEF vars
  <2> QED
    BY <2>1, UnchangedPreserves DEF IInv
<1> QED
  BY <1>1, <1>2, <1>3, <1>4, <1>5, <1>6 DEF Next

\* Every behaviour keeps the links a ring of the order, the buffer and the calls
\* of dbg_printf in step, what a string function returned and what vsprintf left.
THEOREM Invariance == Spec => []IInv
<1>1. Init => IInv
  BY InitEstablishes
<1>2. IInv /\ [Next]_vars => IInv'
  BY NextPreserves
<1> QED
  BY <1>1, <1>2, PTL DEF Spec

\* Whatever list_add_head, list_add_tail and list_remove are called with in whatever
\* order, list_for_each visits what was added and not removed, front to back.
THEOREM ListCorrect == Spec => []ListIsOrder
<1>1. IInv => ListIsOrder
  BY LInvFollows DEF IInv
<1> QED
  BY <1>1, Invariance, PTL

\* On any memory of bytes, of whatever width, and for any int passed for a character,
\* the functions of string.c, memmove over an overlap included, return or leave what
\* C says exactly where Differs is false.
THEOREM StringsAsInC == Spec => []AsInC
<1>1. IInv => AsInC
  BY CallInvFollows DEF IInv
<1> QED
  BY <1>1, Invariance, PTL

\* Whatever the widths of the types, a number a format of small width and precision
\* asks for reads back as the argument of its type, in a field as wide and with as
\* many digits as asked, and a string is written whole.
THEOREM FormatsRead == Spec => []FormatsAsMeant
<1>1. IInv => FormatsAsMeant
  BY FormatInvFollows DEF IInv
<1> QED
  BY <1>1, Invariance, PTL

\* However many tasks call dbg_printf at once and whenever a handler prints, puts
\* finds an end, and a call that no other came into sends its line.
THEOREM LinesAreWhole == Spec => []PrintsItsLine
<1>1. IInv => PrintsItsLine
  BY ConsoleInvFollows DEF IInv
<1> QED
  BY <1>1, Invariance, PTL
=============================================================================
