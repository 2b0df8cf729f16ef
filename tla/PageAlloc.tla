----------------------------- MODULE PageAlloc -----------------------------
(***************************************************************************)
(* What mm/pmm.c promises its callers, without a bitmap, a search or a     *)
(* hint: a caller asks for some pages and gets a run of exactly that many  *)
(* contiguous ones that nobody holds, or no answer at all.                 *)
(***************************************************************************)
EXTENDS Integers

CONSTANTS Memory,  \* the page numbers that may be handed out
          MaxRun   \* the longest run a caller asks for

VARIABLES runs,    \* the runs the callers hold
          wanted   \* the length asked for, 0 between two calls

pvars == <<runs, wanted>>

Pages(r) == r.first .. (r.first + r.count - 1)

Held == UNION { Pages(r) : r \in runs }

PInit == runs = {} /\ wanted = 0

Ask(n) ==
  /\ wanted = 0
  /\ wanted' = n
  /\ UNCHANGED runs

Grant(p) ==
  LET r == [first |-> p, count |-> wanted]
  IN /\ wanted > 0
     /\ Pages(r) \subseteq Memory \ Held
     /\ runs' = runs \cup {r}
     /\ wanted' = 0

Release(r) ==
  /\ wanted = 0
  /\ runs' = runs \ {r}
  /\ UNCHANGED wanted

PNext == \/ \E n \in 1..MaxRun : Ask(n)
         \/ \E p \in Memory : Grant(p)
         \/ \E r \in runs : Release(r)

PSpec == PInit /\ [][PNext]_pvars
=============================================================================
