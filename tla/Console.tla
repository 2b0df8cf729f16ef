------------------------------ MODULE Console ------------------------------
(***************************************************************************)
(* debug/qemu.c: dbg_printf formats into one static buffer, then puts      *)
(* sends it to the port a character at a time.  Tasks print with           *)
(* interrupts on: between two instructions a tick may let another task go  *)
(* on, and its handler (switch_to) prints as well, with interrupts off.    *)
(*                                                                         *)
(* Of a line its length matters and whose it is; a character is the task   *)
(* (or "irq") that wrote it and its place in the line.                     *)
(***************************************************************************)
EXTENDS Naturals, Sequences

CONSTANTS Worker, \* the tasks that print
          MaxLen  \* the longest line

Printer == Worker \cup {"irq"}
Place == 1..(MaxLen + 1)

VARIABLES buf,  \* the buffer, as far as lines reach
          task, \* task[p]: what p's call of dbg_printf does, and where it is
          out,  \* ghost: what p's puts has sent in this call
          mixed \* ghost: the tasks whose call another call came into

cvars == <<buf, task, out, mixed>>

Idle == [at |-> "idle", len |-> 0, s |-> 1]
Character(p, k) == <<p, k>>
NUL == Character("irq", 0)
Line(p) == [k \in 1..task[p].len |-> Character(p, k)]

FirstBuf == [k \in Place |-> NUL]

CInit ==
  /\ buf = FirstBuf
  /\ task = [p \in Printer |-> Idle]
  /\ out = [p \in Printer |-> <<>>]
  /\ mixed = {}

\* A handler is not interrupted.
MayRun(p) == p = "irq" \/ task["irq"] = Idle

dbg_printf(p, len) ==
  /\ MayRun(p) /\ task[p] = Idle
  /\ task' = [task EXCEPT ![p] = [at |-> "vsprintf", len |-> len, s |-> 1]]
  /\ out' = [out EXCEPT ![p] = <<>>]
  /\ mixed' = LET others == {q \in Worker \ {p} : task[q] # Idle}
              IN  (mixed \ {p}) \cup others \cup {q \in {p} \cap Worker : others # {}}
  /\ UNCHANGED buf

\* A mutant: the line is not ended.
Stored_open(p) ==
  IF task[p].s <= task[p].len THEN [buf EXCEPT ![task[p].s] = Character(p, task[p].s)] ELSE buf
\* The next character of the line, or its end.
Stored(p) ==
  [buf EXCEPT ![task[p].s] = IF task[p].s <= task[p].len THEN Character(p, task[p].s) ELSE NUL]

vsprintf(p) ==
  /\ MayRun(p) /\ task[p].at = "vsprintf"
  /\ buf' = Stored(p)
  /\ task' = IF task[p].s <= task[p].len THEN [task EXCEPT ![p].s = @ + 1]
              ELSE [task EXCEPT ![p].at = "puts", ![p].s = 1]
  /\ UNCHANGED <<out, mixed>>

puts(p) ==
  /\ MayRun(p) /\ task[p].at = "puts"
  /\ IF buf[task[p].s] = NUL
     THEN task' = [task EXCEPT ![p].at = "done"] /\ out' = out
     ELSE /\ out' = [out EXCEPT ![p] = Append(@, buf[task[p].s])]
          /\ task' = [task EXCEPT ![p].s = @ + 1]
  /\ UNCHANGED <<buf, mixed>>

return(p) ==
  /\ MayRun(p) /\ task[p].at = "done"
  /\ task' = [task EXCEPT ![p] = Idle]
  /\ UNCHANGED <<buf, out, mixed>>

CNext ==
  \E p \in Printer : (\E len \in 0..MaxLen : dbg_printf(p, len)) \/ vsprintf(p) \/ puts(p) \/ return(p)

-----------------------------------------------------------------------------
(* However calls are mixed, puts finds an end: it never leaves the part of *)
(* the buffer that lines have used.                                         *)
EndAhead ==
  \A p \in Printer : task[p].at = "puts" => \E k \in task[p].s..(MaxLen + 1) : buf[k] = NUL

(* A call that no other call came into the way of sends its line and no     *)
(* more, whatever longer line was in the buffer; so does a handler always.   *)
LineWhole ==
  \A p \in Printer :
    (task[p].at = "done" /\ (p \notin mixed \/ p = "irq")) => out[p] = Line(p)

PrintsItsLine == EndAhead /\ LineWhole
=============================================================================
