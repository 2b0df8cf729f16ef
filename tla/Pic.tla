-------------------------------- MODULE Pic --------------------------------
(***************************************************************************)
(* sys/pic_i8259.c: the masks of the two interrupt controllers, the table  *)
(* of handlers, and an interrupt from the request of a device through the  *)
(* gate that idt_init packed, the stub and its frame to the handler and to *)
(* the acknowledge; from boot on, in the order of main.c.                  *)
(*                                                                         *)
(* The controllers are hardware: a request is latched in irr, delivered if *)
(* it is not masked and nothing of its rank or above is in service (isr),  *)
(* and the acknowledge ends the highest service.  The second controller    *)
(* asks through bit 2 of the first; they are wired so, whatever            *)
(* pic_i8259_init writes as ICW3.  A request that drops before the         *)
(* processor takes it arrives as bit 7, with nothing in service.           *)
(*                                                                         *)
(* The processor runs a stack of contexts: the boot code and later the     *)
(* tasks, and above it what interrupted.  Every call of                    *)
(* irq_enable and irq_disable reads the mask in one step and writes it in  *)
(* another.  Calls come from the boot code (pit_init) and from handlers.   *)
(***************************************************************************)
EXTENDS Descriptors

CONSTANTS Line,  \* the lines in use; line 2 is where the second controller hangs
          Noisy  \* the lines whose request may drop before it is taken

Master == 0
Slave == 1
Chip == {Master, Slave}
Bit == 0..7
ChipOf(l) == l \div 8
BitOf(l) == l % 8
Cascade == 2
Device == Line \ {Cascade}
NoLine == 16

ASSUME PicAssumption == Line \subseteq 0..14 /\ Noisy \subseteq Device \cap 0..7

VARIABLES imr, irr, isr, \* of each chip: bits masked, requested, in service
          icw2,          \* the vector of bit 0 of each chip
          gdt, idt,      \* the tables the processor reads
          handlers,      \* the lines whose entry of the table is not NULL
          ctx,           \* the contexts, the running one last
          iflag,         \* the interrupt flag
          enabled        \* ghost: the lines that were enabled and not disabled since

chips == <<imr, irr, isr>>
tables == <<gdt, idt>>
vars == <<imr, irr, isr, icw2, tables, handlers, ctx, iflag, enabled>>

(* The bytes a call works on: none, or op for line arg with the mask it read. *)
Context(line, req, at) ==
  [line |-> line, req |-> req, at |-> at, op |-> "none", arg |-> NoLine, data |-> {}]

(* The BIOS leaves vectors 8.. and 0x70.., its own masks, interrupts off. *)
Init ==
  /\ imr \in [Chip -> {{}, Bit}]
  /\ irr = [c \in Chip |-> {}]
  /\ isr = [c \in Chip |-> {}]
  /\ icw2 = [c \in Chip |-> IF c = Master THEN 8 ELSE 112]
  /\ gdt = [n \in KERN_CODE..TSS |-> Absent]
  /\ idt = [v \in Vector |-> Absent]
  /\ handlers = {}
  /\ ctx = <<Context(NoLine, NoLine, "reset")>>
  /\ iflag = FALSE
  /\ enabled = {}

Running == ctx[Len(ctx)]
Resume(c) == ctx' = [ctx EXCEPT ![Len(ctx)] = c]
GoTo(at) == Resume([Running EXCEPT !.at = at])

-----------------------------------------------------------------------------
(* The controllers. *)

Unmasked(c, requests) == requests[c] \ imr[c]

\* Bit b of a chip with these requests is the one it delivers next.
Wins(c, b, requests) ==
  /\ b \in Unmasked(c, requests)
  /\ \A o \in Unmasked(c, requests) : b <= o
  /\ \A o \in isr[c] : b < o

Requests ==
  [irr EXCEPT ![Master] = @ \cup {b \in {Cascade} : \E s \in Bit : Wins(Slave, s, irr)}]

Delivered(l) ==
  IF ChipOf(l) = Master THEN l # Cascade /\ Wins(Master, l, Requests)
  ELSE Wins(Slave, BitOf(l), irr) /\ Wins(Master, Cascade, Requests)

\* The non-specific acknowledge: the highest service of a chip ends.
eoi(inservice) == inservice \ {b \in inservice : \A o \in inservice : b <= o}

request(l) ==
  /\ BitOf(l) \notin irr[ChipOf(l)]
  /\ irr' = [irr EXCEPT ![ChipOf(l)] = @ \cup {BitOf(l)}]
  /\ UNCHANGED <<tables, imr, isr, icw2, handlers, ctx, iflag, enabled>>

-----------------------------------------------------------------------------
(* Into the kernel. *)

\* The processor goes through the gate to a stub; its frame says which it was.
Interrupt(gate, req) ==
  /\ ctx' = Append(ctx, Context(FieldOf(Frame(Stub(Target(gate))), "intr_number"), req, "handler"))
  /\ iflag' = (gate.type = TRAP_GATE)

\* The processor takes line l between two instructions; irq_common, SAVE_REGS
\* and the call of pic_i8259_main_handler follow with interrupts off.
accept(l) ==
  /\ iflag
  /\ Delivered(l)
  /\ irr' = [irr EXCEPT ![ChipOf(l)] = @ \ {BitOf(l)}]
  /\ isr' = [c \in Chip |-> isr[c] \cup (IF c = ChipOf(l) THEN {BitOf(l)}
                                         ELSE {b \in {Cascade} : c = Master})]
  /\ Interrupt(idt[icw2[ChipOf(l)] + BitOf(l)], l)
  /\ UNCHANGED <<tables, imr, icw2, handlers, enabled>>

\* The request of line l drops when it is being taken.
accept_spurious(l) ==
  /\ iflag
  /\ Delivered(l)
  /\ irr' = [irr EXCEPT ![ChipOf(l)] = @ \ {BitOf(l)}]
  /\ Interrupt(idt[icw2[Master] + 7], NoLine)
  /\ UNCHANGED <<tables, imr, isr, icw2, handlers, enabled>>

-----------------------------------------------------------------------------
(* sys/pic_i8259.c *)

Vectors == [c \in Chip |-> IF c = Master THEN 32 ELSE 40]

\* The two first calls of main; then pmm_init, vmm_init and sched_init.
gdt_init ==
  /\ Running.at = "reset"
  /\ gdt' = GdtTable
  /\ GoTo("gdt")
  /\ UNCHANGED <<imr, irr, isr, icw2, idt, handlers, iflag, enabled>>

idt_init ==
  /\ Running.at = "gdt"
  /\ idt' = IdtTable
  /\ GoTo("idt")
  /\ UNCHANGED <<imr, irr, isr, icw2, gdt, handlers, iflag, enabled>>

\* ICW3 is written, with the values of the two chips swapped (lines 37-38); the
\* cascade is taken as what it is wired to.
pic_i8259_init ==
  /\ Running.at = "idt"
  /\ icw2' = Vectors
  /\ imr' = [c \in Chip |-> Bit]
  /\ isr' = [c \in Chip |-> {}]
  /\ GoTo("idle")
  /\ UNCHANGED <<tables, irr, handlers, iflag, enabled>>

\* main goes on to sched_enable and tasks run, with interrupts on.
sched_enable ==
  /\ Running.at = "idle" /\ ~iflag
  /\ iflag' = TRUE
  /\ UNCHANGED <<tables, imr, irr, isr, icw2, handlers, ctx, enabled>>

\* The boot code calls, or a handler that main_handler found in the table.
MayCall ==
  \/ Running.at = "idle" /\ ~iflag
  \/ Running.at = "handler" /\ Running.line \in handlers

call(op, l) ==
  /\ MayCall
  /\ Resume([Running EXCEPT !.at = IF op = "set_handler" THEN "table" ELSE "read",
                            !.op = op, !.arg = l])
  /\ UNCHANGED <<tables, imr, irr, isr, icw2, handlers, iflag, enabled>>

\* pic_i8259_set_handler writes the table first, then enables the line.
set_handler ==
  /\ Running.at = "table"
  /\ handlers' = handlers \cup {Running.arg}
  /\ GoTo("read")
  /\ UNCHANGED <<tables, imr, irr, isr, icw2, iflag, enabled>>

\* A mutant: all lines go to the port of the first controller.
port_master(l) == Master
port(l) == IF l >= 8 THEN Slave ELSE Master

\* inb of the data port.
read_mask ==
  /\ Running.at = "read"
  /\ Resume([Running EXCEPT !.at = "write", !.data = imr[port(Running.arg)]])
  /\ UNCHANGED <<tables, imr, irr, isr, icw2, handlers, iflag, enabled>>

NextMask(op, data, b) == IF op = "disable" THEN data \cup {b} ELSE data \ {b}

\* outb of the data port, and the return to the caller.
write_mask ==
  /\ Running.at = "write"
  /\ imr' = [imr EXCEPT ![port(Running.arg)] =
                 NextMask(Running.op, Running.data, BitOf(Running.arg))]
  /\ enabled' = IF Running.op = "disable" THEN enabled \ {Running.arg}
                ELSE enabled \cup {Running.arg}
  /\ Resume(Context(Running.line, Running.req,
                    IF Len(ctx) = 1 THEN "idle" ELSE "return"))
  /\ UNCHANGED <<tables, irr, isr, icw2, handlers, iflag>>

\* A mutant: only the first controller is told.
acknowledge_master(line, s) == [s EXCEPT ![Master] = eoi(@)]
\* A mutant: line 8 is taken for one of the first controller.
acknowledge_above_8(line, s) ==
  [s EXCEPT ![Slave] = IF line > 8 THEN eoi(@) ELSE @, ![Master] = eoi(@)]
acknowledge(line, s) ==
  [s EXCEPT ![Slave] = IF line > 7 THEN eoi(@) ELSE @, ![Master] = eoi(@)]

\* The handler has returned, or there is none: the end of main_handler.
main_handler_end ==
  /\ Running.at \in {"handler", "return"}
  /\ isr' = acknowledge(Running.line, isr)
  /\ GoTo("leave")
  /\ UNCHANGED <<tables, imr, irr, icw2, handlers, iflag, enabled>>

\* intr_leave: iret to a context that had interrupts on.
intr_leave ==
  /\ Running.at = "leave"
  /\ ctx' = SubSeq(ctx, 1, Len(ctx) - 1)
  /\ iflag' = TRUE
  /\ UNCHANGED <<tables, imr, irr, isr, icw2, handlers, enabled>>

-----------------------------------------------------------------------------
\* Straight-line code of the kernel: goes on by itself.
Step == set_handler \/ read_mask \/ write_mask \/ main_handler_end \/ intr_leave

Next ==
  \/ gdt_init \/ idt_init \/ pic_i8259_init
  \/ sched_enable
  \/ Step
  \/ \E op \in {"set_handler", "enable", "disable"}, l \in Line : call(op, l)
  \/ \E l \in Device : request(l)
  \/ \E l \in Device : accept(l)
  \/ \E l \in Noisy : accept_spurious(l)

\* What is to be taken is taken before the next instruction.
Fairness == WF_vars(Step) /\ \A l \in Device : SF_vars(accept(l))

Spec == Init /\ [][Next]_vars
FairSpec == Spec /\ Fairness

-----------------------------------------------------------------------------
Contexts ==
  [line : 0..NoLine, req : Device \cup {NoLine},
   at : {"reset", "gdt", "idt", "idle", "handler", "table", "read", "write", "return", "leave"},
   op : {"none", "set_handler", "enable", "disable"}, arg : Line \cup {NoLine}, data : SUBSET Bit]

TypeOK ==
  /\ imr \in [Chip -> SUBSET Bit]
  /\ irr \in [Chip -> SUBSET {BitOf(l) : l \in Device}]
  /\ isr \in [Chip -> SUBSET Bit]
  /\ icw2 \in [Chip -> {8, 112, 32, 40}]
  /\ DOMAIN gdt = KERN_CODE..TSS /\ DOMAIN idt = Vector
  /\ handlers \subseteq Line
  /\ iflag \in BOOLEAN
  /\ enabled \subseteq Line
  /\ ctx \in Seq(Contexts)
  /\ Len(ctx) \in 1..2  \* Handlers do not nest: their gates turn interrupts off.

(* What handlers are at work on: their lines, and the cascade of a line of *)
(* the second controller.                                                  *)
Unacknowledged == {ctx[i].req : i \in {j \in 2..Len(ctx) : ctx[j].at # "leave"}} \ {NoLine}

(* The controllers hold in service exactly what a handler is at work on:    *)
(* main_handler ends, at the right chips, the service its interrupt began.  *)
InServiceIsHandled ==
  /\ isr[Slave] = {BitOf(l) : l \in {m \in Unacknowledged : m > 7}}
  /\ isr[Master] = {IF l > 7 THEN Cascade ELSE l : l \in Unacknowledged}

PicInv == TypeOK /\ InServiceIsHandled

(* Interrupts are on only when every way into the kernel is laid: each gate  *)
(* leads to its own stub in a segment of ring 0 code, the processor finds   *)
(* all of the TSS, where an entry from ring 3 takes its stack, and ring 3   *)
(* can use the gate of system calls and no other.                            *)
EntersKernel ==
  iflag =>
    /\ \A v \in Vector :
         /\ idt[v].p = 1 /\ Target(idt[v]) = Address(IF v = 128 THEN SYSCALL ELSE v - 32)
         /\ \E d \in {gdt[idt[v].code_sel]} : /\ d.type = "code" /\ d.dpl = KERN
                                              /\ Covers(d, 0, WORD)
         /\ idt[v].dpl = USER <=> v = 128
    /\ gdt[TSS].type = "tss" /\ Covers(gdt[TSS], Tss, TssSize)

(* The request of a line is served by the stub and the table entry of that  *)
(* line, whichever chip it came through.                                    *)
OwnHandler == \A i \in 1..Len(ctx) : ctx[i].req # NoLine => ctx[i].line = ctx[i].req

(* An interrupt that the processor takes comes to the handler of its line.  *)
ReachesOwnHandler == EntersKernel /\ OwnHandler

(* Outside of a call the masks are open for the lines that were enabled and *)
(* not disabled since, each at its bit of the chip it is wired to.          *)
MaskAsAsked ==
  (Running.at \notin {"reset", "gdt", "idt"} /\ \A i \in 1..Len(ctx) : ctx[i].op = "none")
    => \A c \in Chip : imr[c] = Bit \ {BitOf(l) : l \in {m \in enabled : ChipOf(m) = c}}

(* An acknowledge ends the service of the handler that sends it, never that *)
(* of one it interrupted; that of a spurious interrupt, for which nothing is *)
(* in service but which is acknowledged like any other, ends none.           *)
EndsItsOwn ==
  [][\A c \in Chip, b \in Bit :
       (Running.at \notin {"reset", "gdt", "idt"} /\ b \in isr[c] \ isr'[c]) =>
          /\ Running.req # NoLine
          /\ b = IF c = ChipOf(Running.req) THEN BitOf(Running.req) ELSE Cascade]_vars

(* A line is open if nothing between its device and the processor masks it. *)
Open(l) == BitOf(l) \notin imr[ChipOf(l)] /\ (l > 7 => Cascade \notin imr[Master])
Waiting(l) == BitOf(l) \in irr[ChipOf(l)] /\ Open(l)

\* h comes before l: bit order, with the second controller in place of bit 2.
Before(h, l) ==
  LET rank(m) == IF m > 7 THEN Cascade * 8 + BitOf(m) ELSE m * 8
  IN  rank(h) < rank(l)

(* A request on an open line is taken, if the lines above it are quiet and  *)
(* interrupts on again and again.                                           *)
Served ==
  \A l \in Device :
    ([]<>(iflag /\ \A h \in Device : Waiting(h) => ~Before(h, l))) => (Waiting(l) ~> ~Waiting(l))

-----------------------------------------------------------------------------
(* The inductive invariant: what the safety properties rest on. *)

Calls == {"table", "read", "write"}
Booting == ctx[1].at \in {"reset", "gdt", "idt"}

(* Who is on the processor: the boot code or a task, or one handler above a *)
(* task; a context is in a call exactly while it has one to do.             *)
ContextInv ==
  /\ ctx[1].req = NoLine
  /\ IF Len(ctx) = 1 THEN /\ ctx[1].at \in {"reset", "gdt", "idt", "idle"} \cup Calls
                          /\ iflag => ctx[1].at = "idle"
     ELSE /\ ctx[1].at = "idle" /\ ~iflag
          /\ ctx[2].at \in {"handler", "return", "leave"} \cup Calls
  /\ \A i \in 1..Len(ctx) : IF ctx[i].at \in Calls THEN ctx[i].op # "none" /\ ctx[i].arg \in Line
                            ELSE ctx[i].op = "none"

(* The tables are what init made them, from the moment it did. *)
TablesInv ==
  /\ ctx[1].at # "reset" => gdt = GdtTable
  /\ ctx[1].at \notin {"reset", "gdt"} => idt = IdtTable
  /\ IF Booting THEN enabled = {} ELSE icw2 = Vectors

(* Whatever was read of a mask is still what the mask is. *)
MaskInv ==
  /\ ~Booting => \A c \in Chip : imr[c] = Bit \ {BitOf(l) : l \in {m \in enabled : ChipOf(m) = c}}
  /\ Running.at = "write" => Running.data = imr[port(Running.arg)]

IInv == /\ TypeOK /\ ContextInv /\ TablesInv /\ MaskInv
        /\ InServiceIsHandled /\ OwnHandler
=============================================================================
