------------------------------- MODULE KList -------------------------------
(***************************************************************************)
(* The intrusive circular doubly linked list of klib/list.h, as operators  *)
(* on the links of a set of nodes: a value  l = [next |-> f, prev |-> g]   *)
(* holds the two pointers of every node, heads included.  A C function     *)
(* that stores through its arguments is an operator that returns the new   *)
(* links.  The stores to next, and those to prev, are made in the order of *)
(* the source, which matters when arguments alias; a next and a prev are   *)
(* never the same memory.                                                  *)
(***************************************************************************)
EXTENDS Integers, Sequences

\* An empty list is a head that points at itself.
list_init(l, head) == [next |-> [l.next EXCEPT ![head] = head],
                       prev |-> [l.prev EXCEPT ![head] = head]]

list_empty(l, head) == l.next[head] = head

list_first(l, head) == l.next[head]

list_last(l, head) == l.prev[head]

\* __list_add: node goes between the neighbours before and after.
list_add(l, before, after, node) ==
  [next |-> [l.next EXCEPT ![node] = after, ![before] = node],
   prev |-> [l.prev EXCEPT ![after] = node, ![node] = before]]

list_add_head(l, head, node) == list_add(l, head, l.next[head], node)

\* A plausible slip: the new node put in front, which makes the queue a stack.
list_add_tail_in_front(l, head, node) == list_add(l, head, l.next[head], node)

list_add_tail(l, head, node) == list_add(l, l.prev[head], head, node)

\* A plausible slip: only the forward chain is closed over the removed node.
list_remove_forward(l, node) ==
  [next |-> [l.next EXCEPT ![l.prev[node]] = l.next[node]], prev |-> l.prev]

\* The removed node keeps its own two pointers.  (The second store reads
\* node->next again; the first can only have stored the same value there.)
list_remove(l, node) ==
  [next |-> [l.next EXCEPT ![l.prev[node]] = l.next[node]],
   prev |-> [l.prev EXCEPT ![l.next[node]] = l.prev[node]]]

\* The nodes list_for_each visits, in order, over at most bound nodes: the
\* walk follows next from the first node until it meets the head again.
list_for_each(l, head, bound) ==
  LET walk[n \in 0..bound] ==
        IF n = 0 THEN <<>>
        ELSE LET seen == walk[n - 1]
                 pos  == IF seen = <<>> THEN list_first(l, head)
                         ELSE IF seen[Len(seen)] = head THEN head
                         ELSE l.next[seen[Len(seen)]]
             IN  IF pos = head THEN seen ELSE Append(seen, pos)
  IN  walk[bound]

-----------------------------------------------------------------------------
(***************************************************************************)
(* What the links mean: q lists the nodes between the head and the head.   *)
(***************************************************************************)

\* Node i of the cycle head, q[1], ..., q[Len(q)], head.
CycleAt(head, q, i) == IF i \in 1..Len(q) THEN q[i] ELSE head

Distinct(q) == \A i, j \in 1..Len(q) : q[i] = q[j] => i = j

Chained(l, head, q) ==
  \A i \in 0..Len(q) : /\ l.next[CycleAt(head, q, i)] = CycleAt(head, q, i + 1)
                       /\ l.prev[CycleAt(head, q, i + 1)] = CycleAt(head, q, i)

\* The links form one circular doubly linked list through head and exactly q.
Ring(l, head, q) ==
  /\ Distinct(q)
  /\ \A i \in 1..Len(q) : q[i] # head
  /\ Chained(l, head, q)

\* The sequences without repetition over a finite set of n nodes.
Orders(nodes, n) ==
  { q \in UNION { [1..k -> nodes] : k \in 0..n } : Distinct(q) }
=============================================================================
