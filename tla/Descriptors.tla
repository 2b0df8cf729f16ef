---------------------------- MODULE Descriptors ----------------------------
(***************************************************************************)
(* The tables that the processor reads: sys/gdt.c and sys/idt.c pack bases,*)
(* limits and addresses into bit fields, the processor (external) puts     *)
(* them together again; and the frame of an interrupt, pushed by the       *)
(* processor, a stub and SAVE_REGS, read as struct regs.                   *)
(*                                                                         *)
(* Four bits have NIBBLE values, and all other widths follow; types and    *)
(* privileges are names and numbers of their own.                          *)
(***************************************************************************)
EXTENDS Naturals, Sequences

CONSTANTS NIBBLE,   \* the values of four bits: 16
          TEXT,     \* the address of the first stub
          STUB,     \* bytes of a stub of sys/isr.S
          Tss,      \* the address of sys_tss
          TssSize   \* sizeof(struct tss)

BYTE == NIBBLE * NIBBLE
HALF == BYTE * BYTE
THREE == HALF * BYTE
WORD == HALF * HALF
PAGE == BYTE * NIBBLE

IRQ == 0..15
Vector == {32 + n : n \in IRQ} \cup {128}

\* The stubs of isr.S that gates of Vector lead to, one after the other.
SYSCALL == 16
Address(n) == TEXT + n * STUB
Stub(address) == CHOOSE n \in 0..SYSCALL : Address(n) = address

ASSUME DescriptorsAssumption ==
  /\ {NIBBLE, TEXT, STUB, Tss, TssSize} \subseteq Nat \ {0}
  \* The text is linked low (linker.lds:9), the data high.
  /\ Address(SYSCALL) < THREE
  /\ TssSize < HALF /\ Tss + TssSize <= WORD

-----------------------------------------------------------------------------
(* sys/gdt.c *)

KERN == 0
USER == 3
Absent == [p |-> 0]

gdt_set_entry(base, limit, dpl, type) ==
  [limit_low |-> limit % HALF, limit_high |-> (limit \div HALF) % NIBBLE,
   base_low |-> base % HALF, base_mid |-> (base \div HALF) % BYTE,
   base_high |-> base \div THREE,
   dpl |-> dpl, type |-> type, p |-> 1, g |-> 1]

\* A mutant: the middle byte of the base is dropped.
gdt_init_tss_low_base(base, limit) ==
  [limit_low |-> limit % HALF, limit_high |-> limit % NIBBLE,
   base_low |-> base % HALF, base_mid |-> 0, base_high |-> base \div THREE,
   dpl |-> KERN, type |-> "tss", p |-> 1, g |-> 1]
\* base_low of a struct tss_entry has 24 bits.  limit_high gets the low bits of
\* the limit once more, and g makes pages of its bytes.
gdt_init_tss(base, limit) ==
  [limit_low |-> limit % HALF, limit_high |-> limit % NIBBLE,
   base_low |-> base % HALF, base_mid |-> (base % THREE) \div HALF,
   base_high |-> base \div THREE,
   dpl |-> KERN, type |-> "tss", p |-> 1, g |-> 1]

\* The entry of selector 8 * n is the n-th; the entry of selector 0 is not used.
KERN_CODE == 1
KERN_DATA == 2
USER_CODE == 3
USER_DATA == 4
TSS == 5

GdtTable ==
  [n \in KERN_CODE..TSS |->
     IF n = TSS THEN gdt_init_tss(Tss, TssSize)
     ELSE gdt_set_entry(0, WORD - 1, IF n \in {USER_CODE, USER_DATA} THEN USER ELSE KERN,
                        IF n \in {KERN_CODE, USER_CODE} THEN "code" ELSE "data")]

\* What the processor makes of a descriptor.
Base(d) == d.base_low + d.base_mid * HALF + d.base_high * THREE
Limit(d) ==
  IF d.g = 1 THEN (d.limit_low + d.limit_high * HALF) * PAGE + PAGE - 1
  ELSE d.limit_low + d.limit_high * HALF

\* The segment reaches from its base over size bytes.
Covers(d, base, size) == d.p = 1 /\ Base(d) = base /\ Limit(d) >= size - 1

-----------------------------------------------------------------------------
(* sys/idt.c *)

INTR_GATE == "interrupt"
TRAP_GATE == "trap"

\* A mutant: the lines get the gates that exceptions have.
register_interrupt_trap(address, type, dpl) ==
  [handler_low |-> address % HALF, handler_high |-> (address \div HALF) % BYTE,
   code_sel |-> KERN_CODE, type |-> TRAP_GATE, dpl |-> dpl, p |-> 1]
\* handler_high has eight bits.
register_interrupt(address, type, dpl) ==
  [handler_low |-> address % HALF, handler_high |-> (address \div HALF) % BYTE,
   code_sel |-> KERN_CODE, type |-> type, dpl |-> dpl, p |-> 1]

IdtTable ==
  [v \in Vector |-> IF v = 128 THEN register_interrupt(Address(SYSCALL), INTR_GATE, USER)
                    ELSE register_interrupt(Address(v - 32), INTR_GATE, KERN)]

\* Where the processor goes through a gate.
Target(gate) == gate.handler_low + gate.handler_high * HALF

-----------------------------------------------------------------------------
(* sys/isr.S, sys/x86.h *)

\* Stub n pushes an error code and n, SAVE_REGS the rest: lowest address first.
Frame(n) ==
  <<"cr3", "fs", "gs", "es", "ds", "ebp", "esi", "edi", "edx", "ecx", "ebx", "eax", n, 0>>

regs ==
  <<"cr3", "fs", "gs", "es", "ds", "ebp", "esi", "edi", "edx", "ecx", "ebx", "eax",
    "intr_number", "error_code">>

\* A handler's access to a field of the frame it is given.
FieldOf(frame, name) == frame[CHOOSE k \in DOMAIN regs : regs[k] = name]
=============================================================================
