------------------------------ MODULE KListUse ------------------------------
(***************************************************************************)
(* The list of klib/list.h in use: one head, nodes that are added at either*)
(* end while they are outside and removed from anywhere while they are in. *)
(***************************************************************************)
EXTENDS KList, FiniteSets

CONSTANTS Nodes,   \* the nodes that can be linked
          Anchor,  \* the list head
          Garbage \* what the pointers of a node hold before it is linked

ASSUME NodesAssumption == IsFiniteSet(Nodes) /\ Anchor \notin Nodes

VARIABLES links, \* the memory of the head and the nodes
          order  \* what the list should hold, front to back

lvars == <<links, order>>

Cells == Nodes \cup {Anchor}

LInit ==
  /\ links = list_init([next |-> [n \in Cells |-> Garbage],
                        prev |-> [n \in Cells |-> Garbage]], Anchor)
  /\ order = <<>>

Linked == { order[i] : i \in 1..Len(order) }

AddHead(n) ==
  /\ n \notin Linked
  /\ links' = list_add_head(links, Anchor, n)
  /\ order' = <<n>> \o order

AddTail(n) ==
  /\ n \notin Linked
  /\ links' = list_add_tail(links, Anchor, n)
  /\ order' = Append(order, n)

Remove(n) ==
  \E i \in 1..Len(order) :
    /\ order[i] = n
    /\ links' = list_remove(links, n)
    /\ order' = SubSeq(order, 1, i - 1) \o SubSeq(order, i + 1, Len(order))

LNext == \E n \in Nodes : AddHead(n) \/ AddTail(n) \/ Remove(n)

LSpec == LInit /\ [][LNext]_lvars

-----------------------------------------------------------------------------
\* Whatever is added and removed in whatever order, with stale pointers left in
\* removed nodes: list_for_each visits exactly the list's nodes front to back.
WalkIsOrder == list_for_each(links, Anchor, Cardinality(Cells)) = order

\* Read backwards through prev, from list_last, the list is the same; and it is
\* empty for list_empty exactly when it holds nothing.
BothWays ==
  /\ Ring(links, Anchor, order)
  /\ list_empty(links, Anchor) <=> order = <<>>
  /\ order # <<>> => list_first(links, Anchor) = order[1] /\ list_last(links, Anchor) = order[Len(order)]
=============================================================================
