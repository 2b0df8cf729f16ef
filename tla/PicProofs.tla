------------------------------ MODULE PicProofs ------------------------------
(***************************************************************************)
(* Pic for any set of lines, any width of a nibble and any addresses: an   *)
(* interrupt comes through its own gate and stub to the handler of its     *)
(* line and is acknowledged where it is in service, and the masks are what *)
(* callers asked for.                                                      *)
(***************************************************************************)
EXTENDS Pic, SequenceTheorems, TLAPS

-----------------------------------------------------------------------------
(* Bit fields: what is cut in pieces and put together again *)

LEMMA Widths ==
  /\ NIBBLE \in Nat \ {0} /\ BYTE \in Nat \ {0} /\ HALF \in Nat \ {0} /\ THREE \in Nat \ {0}
  /\ PAGE \in Nat \ {0} /\ WORD \in Nat \ {0} /\ THREE = BYTE * HALF
<1> DEFINE Positive(x) == x \in Nat \ {0}
<1>1. \A x, y \in Nat \ {0} : x * y \in Nat \ {0}
  OBVIOUS
<1>2. Positive(NIBBLE)
  BY DescriptorsAssumption DEF DescriptorsAssumption
<1>3. Positive(BYTE)
  BY <1>1, <1>2 DEF BYTE
<1> HIDE DEF Positive
<1>4. Positive(HALF) /\ Positive(PAGE)
  BY <1>1, <1>2, <1>3 DEF HALF, PAGE, Positive
<1>5. Positive(THREE) /\ Positive(WORD)
  BY <1>1, <1>3, <1>4 DEF THREE, WORD, Positive
<1>6. THREE = BYTE * HALF
  BY <1>3, <1>4 DEF THREE, Positive
<1> QED
  BY <1>2, <1>3, <1>4, <1>5, <1>6 DEF Positive

LEMMA Division ==
  ASSUME NEW a \in Nat, NEW h \in Nat \ {0}
  PROVE  /\ a \div h \in Nat /\ a % h \in 0 .. (h - 1)
         /\ a = h * (a \div h) + (a % h) /\ a = (a \div h) * h + (a % h)
OBVIOUS

\* A number below b * h has its high part below b.
LEMMA HighPart ==
  ASSUME NEW a \in Nat, NEW b \in Nat \ {0}, NEW h \in Nat \ {0}, a < b * h
  PROVE  a \div h < b /\ (a \div h) % b = a \div h
<1> DEFINE q == a \div h
<1>1. q \in Nat /\ q * h <= a
  BY Division
<1> HIDE DEF q
<1>2. SUFFICES q < b
  BY <1>1 DEF q
<1>3. SUFFICES ASSUME q >= b PROVE FALSE
  BY <1>1
<1>4. q * h = b * h + (q - b) * h /\ (q - b) * h >= 0
  BY <1>1, <1>3
<1>5. q * h \in Nat /\ b * h \in Nat /\ (q - b) * h \in Int
  BY <1>1
<1> QED
  BY <1>1, <1>4, <1>5

\* The two halves of an address in a gate are the address, if it is low.
LEMMA Halves ==
  ASSUME NEW a \in Nat, a < THREE
  PROVE  (a % HALF) + ((a \div HALF) % BYTE) * HALF = a
<1>1. (a \div HALF) % BYTE = a \div HALF
  BY Widths, HighPart
<1>2. a = (a \div HALF) * HALF + (a % HALF) /\ (a \div HALF) * HALF \in Nat
  BY Widths, Division
<1> DEFINE q == (a \div HALF) * HALF
           r == a % HALF
<1>3. a = q + r /\ q \in Nat /\ r \in Nat
  BY <1>2, Widths, Division
<1>4. ((a \div HALF) % BYTE) * HALF = q
  BY <1>1
<1> HIDE DEF q, r
<1>5. r + q = a
  BY <1>3
<1> QED
  BY <1>4, <1>5 DEF r

\* The stub that a gate of idt_init leads to.
LEMMA Gates ==
  ASSUME NEW n \in 0..SYSCALL, NEW type, NEW dpl
  PROVE  /\ Target(register_interrupt(Address(n), type, dpl)) = Address(n)
         /\ Stub(Address(n)) = n
<1>1. /\ TEXT \in Nat /\ STUB \in Nat \ {0} /\ n \in Nat /\ n <= 16
      /\ TEXT + 16 * STUB < THREE
  BY DescriptorsAssumption DEF DescriptorsAssumption, SYSCALL, Address
<1>2. Address(n) \in Nat /\ Address(n) < THREE
  <2>1. n * STUB \in Nat /\ 16 * STUB \in Nat /\ (16 - n) * STUB \in Nat
    BY <1>1
  <2>2. n * STUB <= 16 * STUB
    BY <1>1, <2>1
  <2> QED
    BY <1>1, <2>1, <2>2, Widths DEF Address
<1>3. \A m, k \in Nat : m # k => m * STUB # k * STUB
  BY <1>1
<1>4. Stub(Address(n)) = n
  <2>1. ASSUME NEW m \in 0..SYSCALL, Address(m) = Address(n) PROVE m = n
    BY <1>1, <1>3, <2>1 DEF Address, SYSCALL
  <2> QED
    BY <2>1 DEF Stub
<1> HIDE DEF Address
<1>5. Target(register_interrupt(Address(n), type, dpl))
        = (Address(n) % HALF) + ((Address(n) \div HALF) % BYTE) * HALF
  BY DEF Target, register_interrupt
<1> QED
  BY <1>2, <1>4, <1>5, Halves

\* There is one way to divide.
LEMMA Quotient ==
  ASSUME NEW a \in Nat, NEW h \in Nat \ {0}, NEW q \in Nat, NEW r \in Nat,
         a = q * h + r, r < h
  PROVE  a \div h = q /\ a % h = r
<1> DEFINE d == a \div h
           m == a % h
<1>1. d \in Nat /\ m \in Nat /\ m < h /\ a = d * h + m
  <2>1. d \in Nat /\ m \in 0 .. (h - 1)
    BY Division
  <2>2. a = d * h + m
    BY Division
  <2> HIDE DEF d, m
  <2> QED
    BY <2>1, <2>2
<1> HIDE DEF d, m
<1>2. q * h \in Nat /\ d * h \in Nat
  BY <1>1
<1>3. ~ (d < q)
  <2> SUFFICES ASSUME d < q PROVE FALSE
    OBVIOUS
  <2>1. q * h = d * h + h + (q - d - 1) * h /\ (q - d - 1) * h \in Nat
    BY <1>1
  <2> DEFINE x == q * h
             y == d * h
             z == (q - d - 1) * h
  <2>2. x = y + h + z /\ x \in Nat /\ y \in Nat /\ z \in Nat /\ a = x + r /\ a = y + m
    BY <1>1, <1>2, <2>1
  <2> HIDE DEF x, y, z
  <2> QED
    BY <1>1, <2>2
<1>4. ~ (q < d)
  <2> SUFFICES ASSUME q < d PROVE FALSE
    OBVIOUS
  <2>1. d * h = q * h + h + (d - q - 1) * h /\ (d - q - 1) * h \in Nat
    BY <1>1
  <2> DEFINE x == q * h
             y == d * h
             z == (d - q - 1) * h
  <2>2. y = x + h + z /\ x \in Nat /\ y \in Nat /\ z \in Nat /\ a = x + r /\ a = y + m
    BY <1>1, <1>2, <2>1
  <2> HIDE DEF x, y, z
  <2> QED
    BY <1>1, <2>2
<1>5. d = q
  BY <1>1, <1>3, <1>4
<1>6. m = r
  <2> DEFINE x == q * h
  <2>1. x \in Nat /\ a = x + r /\ a = x + m
    BY <1>1, <1>2, <1>5
  <2> HIDE DEF x
  <2> QED
    BY <1>1, <2>1
<1> QED
  BY <1>5, <1>6 DEF d, m

\* The last number below q * h, cut in two.
LEMMA LastBelow ==
  ASSUME NEW q \in Nat \ {0}, NEW h \in Nat \ {0}
  PROVE  /\ q * h - 1 \in Nat /\ q * h - 1 = (q - 1) * h + (h - 1)
         /\ (q * h - 1) \div h = q - 1 /\ (q * h - 1) % h = h - 1
<1>1. q * h = (q - 1) * h + h /\ (q - 1) * h \in Nat /\ q - 1 \in Nat /\ h - 1 \in Nat
  OBVIOUS
<1> DEFINE a == q * h
           b == (q - 1) * h
<1>2. a = b + h /\ b \in Nat
  BY <1>1
<1> HIDE DEF a, b
<1>3. a - 1 \in Nat /\ a - 1 = b + (h - 1)
  BY <1>2
<1>4. (a - 1) \div h = q - 1 /\ (a - 1) % h = h - 1
  <2>1. a - 1 = (q - 1) * h + (h - 1)
    BY <1>3 DEF b
  <2>2. h - 1 < h
    OBVIOUS
  <2> QED
    BY <1>1, <1>3, <2>1, <2>2, Quotient
<1> QED
  BY <1>3, <1>4 DEF a, b

\* The segment of kernel code is all there is.
LEMMA CodeCovers ==
  LET d == gdt_set_entry(0, WORD - 1, KERN, "code")
  IN  d.type = "code" /\ d.dpl = KERN /\ Covers(d, 0, WORD)
<1> DEFINE d == gdt_set_entry(0, WORD - 1, KERN, "code")
<1>1. WORD - 1 \in Nat /\ (WORD - 1) % HALF = HALF - 1 /\ (WORD - 1) \div HALF = HALF - 1
  BY Widths, LastBelow DEF WORD
<1>2. (HALF - 1) % NIBBLE = NIBBLE - 1
  <2>1. HALF = (NIBBLE * BYTE) * NIBBLE /\ NIBBLE * BYTE \in Nat \ {0}
    BY Widths DEF HALF, BYTE
  <2> QED
    BY <2>1, Widths, LastBelow
<1>3. /\ d.limit_low = HALF - 1 /\ d.limit_high = NIBBLE - 1
      /\ d.base_low = 0 % HALF /\ d.base_mid = (0 \div HALF) % BYTE /\ d.base_high = 0 \div THREE
      /\ d.type = "code" /\ d.dpl = KERN /\ d.g = 1 /\ d.p = 1
  BY <1>1, <1>2 DEF gdt_set_entry
<1> HIDE DEF d
<1>4. Base(d) = 0
  <2>1. 0 % HALF = 0 /\ 0 \div HALF = 0 /\ 0 % BYTE = 0 /\ 0 \div THREE = 0
    BY Widths
  <2> QED
    BY <1>3, <2>1, Widths DEF Base
<1>5. Limit(d) = WORD - 1
  <2>1. (HALF - 1) + (NIBBLE - 1) * HALF = NIBBLE * HALF - 1 /\ NIBBLE * HALF \in Nat \ {0}
    BY Widths
  <2>2. (NIBBLE * HALF - 1) * PAGE + (PAGE - 1) = (NIBBLE * HALF) * PAGE - 1
    BY <2>1, Widths, LastBelow
  <2>3. (NIBBLE * HALF) * PAGE = WORD
    <3>1. NIBBLE * PAGE = HALF
      BY Widths DEF PAGE, HALF, BYTE
    <3>2. (NIBBLE * HALF) * PAGE = HALF * (NIBBLE * PAGE)
      BY Widths
    <3> QED
      BY <3>1, <3>2 DEF WORD
  <2>4. Limit(d) = ((HALF - 1) + (NIBBLE - 1) * HALF) * PAGE + PAGE - 1
    BY <1>3 DEF Limit
  <2> DEFINE x == NIBBLE * HALF - 1
  <2>5. Limit(d) = x * PAGE + PAGE - 1 /\ x * PAGE \in Nat
    BY <2>1, <2>4, Widths
  <2>6. x * PAGE + (PAGE - 1) = WORD - 1
    BY <2>2, <2>3
  <2> DEFINE y == x * PAGE
  <2> HIDE DEF x, y
  <2>7. y \in Nat /\ Limit(d) = y + PAGE - 1 /\ y + (PAGE - 1) = WORD - 1
    BY <2>5, <2>6 DEF y
  <2> QED
    BY <2>7, Widths
<1> QED
  BY <1>1, <1>3, <1>4, <1>5 DEF Covers, d

\* The processor finds the whole TSS, in spite of its limit being in pages.
LEMMA TssCovers ==
  LET d == gdt_init_tss(Tss, TssSize)
  IN  d.type = "tss" /\ Covers(d, Tss, TssSize)
<1> DEFINE d == gdt_init_tss(Tss, TssSize)
           Q == Tss \div THREE
           x == Tss % THREE
           q == x \div HALF
           r == x % HALF
<1>1. Tss \in Nat \ {0} /\ TssSize \in Nat \ {0} /\ TssSize < HALF
  BY DescriptorsAssumption DEF DescriptorsAssumption
<1>2. /\ Q \in Nat /\ x \in Nat /\ Tss = Q * THREE + x
      /\ q \in Nat /\ r \in Nat /\ r < HALF /\ x = q * HALF + r
  <2>1. Q \in Nat /\ x \in Nat /\ Tss = Q * THREE + x
    <3>1. THREE \in Nat \ {0}
      BY Widths
    <3>2. Q \in Nat /\ x \in 0 .. (THREE - 1) /\ Tss = Q * THREE + x
      BY <1>1, <3>1, Division
    <3> HIDE DEF Q, x
    <3> QED
      BY <3>1, <3>2
  <2> HIDE DEF Q, x
  <2>2. q \in Nat /\ r \in 0 .. (HALF - 1) /\ x = q * HALF + r
    BY <2>1, Widths, Division
  <2> HIDE DEF q, r
  <2> QED
    BY <2>1, <2>2, Widths
<1> HIDE DEF Q, x, q, r
<1>3. Tss % HALF = r
  <2>1. Tss = (Q * BYTE + q) * HALF + r
    <3>1. Q * THREE = (Q * BYTE) * HALF
      BY <1>2, Widths
    <3>2. (Q * BYTE + q) * HALF = (Q * BYTE) * HALF + q * HALF
      BY <1>2, Widths
    <3>3. (Q * BYTE) * HALF \in Nat /\ q * HALF \in Nat
      BY <1>2, Widths
    <3> QED
      BY <1>1, <1>2, <3>1, <3>2, <3>3
  <2>2. Q * BYTE + q \in Nat
    BY <1>2, Widths
  <2> QED
    BY <1>1, <1>2, <2>1, <2>2, Widths, Quotient
<1>4. TssSize % HALF = TssSize
  BY <1>1, Widths
<1>5. /\ d.limit_low = TssSize /\ d.limit_high = TssSize % NIBBLE
      /\ d.base_low = r /\ d.base_mid = q /\ d.base_high = Q
      /\ d.type = "tss" /\ d.g = 1 /\ d.p = 1
  BY <1>3, <1>4 DEF gdt_init_tss, q, Q, x
<1> HIDE DEF d
<1>6. Base(d) = Tss
  <2>1. q * HALF \in Nat /\ Q * THREE \in Nat
    BY <1>2, Widths
  <2> DEFINE y == q * HALF
             z == Q * THREE
  <2>2. Base(d) = r + y + z /\ Tss = z + x /\ x = y + r /\ y \in Nat /\ z \in Nat
    BY <1>2, <1>5, <2>1 DEF Base
  <2> HIDE DEF y, z
  <2> QED
    BY <1>2, <2>2
<1>7. Limit(d) >= TssSize - 1
  <2> DEFINE y == (TssSize % NIBBLE) * HALF
             z == (TssSize + y) * PAGE
  <2>1. y \in Nat
    <3>1. TssSize % NIBBLE \in Nat
      BY <1>1, Widths, Division
    <3> QED
      BY <3>1, Widths
  <2> HIDE DEF y
  <2>2. z \in Nat /\ z >= TssSize
    <3>1. TssSize + y \in Nat /\ TssSize + y >= TssSize
      BY <1>1, <2>1
    <3>2. \A k \in Nat : k * PAGE \in Nat /\ k * PAGE >= k
      <4>1. \A k \in Nat : k * PAGE = k * (PAGE - 1) + k /\ k * (PAGE - 1) \in Nat
        BY Widths
      <4> QED
        BY <4>1, Widths
    <3> DEFINE k == TssSize + y
    <3>3. k \in Nat /\ k >= TssSize
      BY <3>1
    <3> HIDE DEF k
    <3>4. k * PAGE \in Nat /\ k * PAGE >= k
      BY <3>2, <3>3
    <3>5. k * PAGE >= TssSize
      BY <1>1, <3>3, <3>4
    <3> QED
      BY <3>4, <3>5 DEF k
  <2>3. Limit(d) = z + PAGE - 1
    BY <1>5 DEF Limit, y
  <2> HIDE DEF z
  <2> QED
    BY <1>1, <2>2, <2>3, Widths
<1> QED
  BY <1>5, <1>6, <1>7 DEF Covers, d

-----------------------------------------------------------------------------
(* Lines, chips, contexts *)

LEMMA Lines ==
  ASSUME NEW l \in Line
  PROVE  /\ l \in 0..14 /\ ChipOf(l) = port(l) /\ ChipOf(l) \in Chip /\ BitOf(l) \in Bit
         /\ l = 8 * ChipOf(l) + BitOf(l) /\ (l > 7 <=> ChipOf(l) = Slave) /\ l # NoLine
         /\ (l <= 7 => BitOf(l) = l)
BY PicAssumption DEF PicAssumption, ChipOf, BitOf, port, Chip, Bit, Master, Slave, NoLine

\* A line is known by its chip and its bit.
LEMMA OneLine ==
  ASSUME NEW l \in Line, NEW m \in Line, ChipOf(l) = ChipOf(m), BitOf(l) = BitOf(m)
  PROVE  l = m
BY Lines DEF Chip, Master, Slave, Bit

\* The stub of a line tells the handler which line it is; its gate turns
\* interrupts off.
LEMMA Entry ==
  ASSUME NEW n \in IRQ
  PROVE  /\ 32 + n \in Vector
         /\ FieldOf(Frame(Stub(Target(IdtTable[32 + n]))), "intr_number") = n
         /\ IdtTable[32 + n].type # TRAP_GATE
<1>1. 32 + n \in Vector /\ 32 + n # 128 /\ (32 + n) - 32 = n /\ n \in 0..SYSCALL
  BY DEF Vector, IRQ, SYSCALL
<1>2. IdtTable[32 + n] = register_interrupt(Address(n), INTR_GATE, KERN)
  BY <1>1 DEF IdtTable
<1>3. Stub(Target(IdtTable[32 + n])) = n
  BY <1>1, <1>2, Gates
<1>4. FieldOf(Frame(n), "intr_number") = n
  <2>1. regs[13] = "intr_number" /\ 13 \in DOMAIN regs
    BY DEF regs
  <2>2. \A k \in DOMAIN regs : regs[k] = "intr_number" => k = 13
    BY DEF regs
  <2>3. (CHOOSE k \in DOMAIN regs : regs[k] = "intr_number") = 13
    BY <2>1, <2>2
  <2>4. Frame(n)[13] = n
    BY DEF Frame
  <2>5. FieldOf(Frame(n), "intr_number") = Frame(n)[13]
    BY <2>3, Zenon DEF FieldOf
  <2> QED
    BY <2>4, <2>5
<1>5. IdtTable[32 + n].type = INTR_GATE
  BY <1>2 DEF register_interrupt
<1> QED
  BY <1>1, <1>3, <1>4, <1>5 DEF INTR_GATE, TRAP_GATE

LEMMA Current ==
  ASSUME TypeOK
  PROVE  /\ ctx \in Seq(Contexts) /\ Len(ctx) \in {1, 2} /\ Running \in Contexts
         /\ ctx[1] \in Contexts /\ (Len(ctx) = 2 => ctx[2] \in Contexts)
         /\ (Len(ctx) = 1 => Running = ctx[1]) /\ (Len(ctx) = 2 => Running = ctx[2])
<1>1. ctx \in Seq(Contexts) /\ Len(ctx) \in {1, 2}
  BY DEF TypeOK
<1>2. \A i \in 1..Len(ctx) : ctx[i] \in Contexts
  BY <1>1
<1> QED
  BY <1>1, <1>2 DEF Running

\* One on top of one, and the top taken off again.
LEMMA Stack ==
  ASSUME NEW S, NEW s \in Seq(S)
  PROVE  /\ \A x \in S : Len(s) = 1 => /\ Append(s, x) \in Seq(S) /\ Len(Append(s, x)) = 2
                                       /\ Append(s, x)[1] = s[1] /\ Append(s, x)[2] = x
         /\ Len(s) = 2 => /\ SubSeq(s, 1, 1) \in Seq(S) /\ Len(SubSeq(s, 1, 1)) = 1
                          /\ SubSeq(s, 1, 1)[1] = s[1]
<1>1. ASSUME NEW x \in S, Len(s) = 1
      PROVE  /\ Append(s, x) \in Seq(S) /\ Len(Append(s, x)) = 2
             /\ Append(s, x)[1] = s[1] /\ Append(s, x)[2] = x
  <2>1. /\ Append(s, x) \in Seq(S) /\ Len(Append(s, x)) = Len(s) + 1
        /\ Append(s, x)[Len(s) + 1] = x /\ \A i \in 1..Len(s) : Append(s, x)[i] = s[i]
    BY AppendProperties
  <2> QED
    BY <1>1, <2>1
<1>2. Len(s) = 2 => /\ SubSeq(s, 1, 1) \in Seq(S) /\ Len(SubSeq(s, 1, 1)) = 1
                    /\ SubSeq(s, 1, 1)[1] = s[1]
  OBVIOUS
<1> QED
  BY <1>1, <1>2

LEMMA Resumed ==
  ASSUME TypeOK, NEW c \in Contexts, Resume(c)
  PROVE  /\ ctx' \in Seq(Contexts) /\ Len(ctx') = Len(ctx) /\ Running' = c
         /\ (Len(ctx) = 1 => ctx'[1] = c)
         /\ (Len(ctx) = 2 => ctx'[1] = ctx[1] /\ ctx'[2] = c)
<1>1. ctx \in Seq(Contexts) /\ Len(ctx) \in {1, 2} /\ ctx' = [ctx EXCEPT ![Len(ctx)] = c]
  BY Current DEF Resume
<1>2. ctx' \in Seq(Contexts) /\ Len(ctx') = Len(ctx)
  BY <1>1
<1>3. \A i \in 1..Len(ctx) : ctx'[i] = IF i = Len(ctx) THEN c ELSE ctx[i]
  BY <1>1
<1> QED
  BY <1>1, <1>2, <1>3 DEF Running

\* What the handler on top, if there is one, is at work on.
Work(s) == IF Len(s) = 2 /\ s[2].at # "leave" /\ s[2].req # NoLine THEN {s[2].req} ELSE {}

LEMMA WorkOf ==
  ASSUME NEW s, Len(s) \in {1, 2}
  PROVE  {s[i].req : i \in {j \in 2..Len(s) : s[j].at # "leave"}} \ {NoLine} = Work(s)
<1>1. CASE Len(s) = 1
  BY <1>1 DEF Work
<1>2. CASE Len(s) = 2
  <2>1. 2..Len(s) = {2}
    BY <1>2
  <2> QED
    BY <1>2, <2>1 DEF Work
<1> QED
  BY <1>1, <1>2

LEMMA WorkNow ==
  /\ TypeOK => Unacknowledged = Work(ctx)
  /\ TypeOK' => Unacknowledged' = Work(ctx')
<1>1. TypeOK => Unacknowledged = Work(ctx)
  <2> SUFFICES ASSUME TypeOK PROVE Unacknowledged = Work(ctx)
    OBVIOUS
  <2>1. Len(ctx) \in {1, 2}
    BY Current
  <2> QED
    BY <2>1, WorkOf DEF Unacknowledged
<1>2. TypeOK' => Unacknowledged' = Work(ctx')
  <2> SUFFICES ASSUME TypeOK' PROVE Unacknowledged' = Work(ctx')
    OBVIOUS
  <2>1. Len(ctx') \in {1, 2}
    BY DEF TypeOK
  <2> QED
    BY <2>1, WorkOf DEF Unacknowledged
<1> QED
  BY <1>1, <1>2

-----------------------------------------------------------------------------
(* Steps *)

Free == {"handler", "return"} \cup Calls

\* Inside of a call, or of a handler, only the top context changes.
LEMMA Within ==
  ASSUME IInv, NEW c \in Contexts, Resume(c), ~iflag, ~Booting,
         c.line = Running.line, c.req = Running.req, Running.at # "leave",
         c.at \in IF Len(ctx) = 1 THEN {"idle"} \cup Calls ELSE Free,
         IF c.at \in Calls THEN c.op # "none" /\ c.arg \in Line ELSE c.op = "none",
         UNCHANGED <<gdt, idt, irr, isr, icw2, iflag>>,
         imr' \in [Chip -> SUBSET Bit], handlers' \subseteq Line, enabled' \subseteq Line
  PROVE  /\ TypeOK' /\ ContextInv' /\ TablesInv' /\ InServiceIsHandled' /\ OwnHandler'
         /\ Running' = c /\ ~Booting'
<1>1. TypeOK /\ ContextInv /\ TablesInv /\ InServiceIsHandled /\ OwnHandler
  BY DEF IInv
<1>2. /\ ctx' \in Seq(Contexts) /\ Len(ctx') = Len(ctx) /\ Running' = c /\ Len(ctx) \in {1, 2}
      /\ (Len(ctx) = 1 => ctx'[1] = c /\ Running = ctx[1])
      /\ (Len(ctx) = 2 => ctx'[1] = ctx[1] /\ ctx'[2] = c /\ Running = ctx[2])
  BY <1>1, Resumed, Current
<1>3. TypeOK'
  BY <1>1, <1>2 DEF TypeOK
<1>4. ~Booting'
  BY <1>1, <1>2 DEF Booting, ContextInv, Calls
<1>5. ContextInv'
  <2>1. CASE Len(ctx) = 1
    <3>1. ctx'[1].req = NoLine
      BY <1>1, <1>2, <2>1 DEF ContextInv
    <3>2. 1..Len(ctx') = {1}
      BY <1>2, <2>1
    <3> QED
      BY <1>2, <2>1, <3>1, <3>2 DEF ContextInv
  <2>2. CASE Len(ctx) = 2
    <3>1. /\ ctx'[1].req = NoLine /\ ctx'[1].at = "idle" /\ ctx'[1].op = "none"
      BY <1>1, <1>2, <2>2 DEF ContextInv, Calls
    <3>2. 1..Len(ctx') = {1, 2}
      BY <1>2, <2>2
    <3>3. ctx'[2].at \in {"handler", "return", "leave"} \cup Calls
      BY <1>2, <2>2 DEF Free
    <3> QED
      BY <1>2, <2>2, <3>1, <3>2, <3>3 DEF ContextInv, Calls
  <2> QED
    BY <1>2, <2>1, <2>2
<1>6. TablesInv'
  BY <1>1, <1>2, <1>4 DEF TablesInv, Booting
<1>7. InServiceIsHandled'
  <2>1. Unacknowledged' = Unacknowledged
    <3>1. CASE Len(ctx) = 1
      BY <1>1, <1>2, <1>3, <3>1, WorkNow DEF Work
    <3>2. CASE Len(ctx) = 2
      <4>1. c.at # "leave"
        BY <3>2 DEF Free, Calls
      <4> QED
        BY <1>1, <1>2, <1>3, <3>2, <4>1, WorkNow DEF Work
    <3> QED
      BY <1>2, <3>1, <3>2
  <2> QED
    BY <1>1, <2>1 DEF InServiceIsHandled
<1>8. OwnHandler'
  <2> SUFFICES ASSUME NEW i \in 1..Len(ctx), ctx'[i].req # NoLine
               PROVE  ctx'[i].line = ctx'[i].req
    BY <1>2 DEF OwnHandler
  <2>1. ctx'[i].req = ctx[i].req /\ ctx'[i].line = ctx[i].line
    BY <1>2
  <2> QED
    BY <1>1, <2>1 DEF OwnHandler
<1> QED
  BY <1>2, <1>3, <1>4, <1>5, <1>6, <1>7, <1>8

\* Who makes a step of a call has interrupts off, and is past the start.
LEMMA InCall ==
  ASSUME IInv
  PROVE  /\ Running.at \in Calls => /\ ~iflag /\ ~Booting
                                    /\ Running.op # "none" /\ Running.arg \in Line
         /\ MayCall => ~iflag /\ ~Booting
<1>1. TypeOK /\ ContextInv
  BY DEF IInv
<1>2. /\ Len(ctx) \in {1, 2} /\ (Len(ctx) = 1 => Running = ctx[1])
      /\ (Len(ctx) = 2 => Running = ctx[2])
  BY <1>1, Current
<1>3. CASE Len(ctx) = 1
  <2>1. 1 \in 1..Len(ctx)
    BY <1>3
  <2> QED
    BY <1>1, <1>2, <1>3, <2>1 DEF ContextInv, Booting, MayCall, Calls
<1>4. CASE Len(ctx) = 2
  <2>1. 2 \in 1..Len(ctx)
    BY <1>4
  <2> QED
    BY <1>1, <1>2, <1>4, <2>1 DEF ContextInv, Booting, MayCall, Calls
<1> QED
  BY <1>2, <1>3, <1>4

LEMMA CallKeeps ==
  ASSUME IInv, NEW op \in {"set_handler", "enable", "disable"}, NEW l \in Line, call(op, l)
  PROVE  IInv'
<1> DEFINE at == IF op = "set_handler" THEN "table" ELSE "read"
           c == [Running EXCEPT !.at = at, !.op = op, !.arg = l]
<1>1. /\ MayCall /\ Resume(c)
      /\ UNCHANGED <<gdt, idt, imr, irr, isr, icw2, handlers, iflag, enabled>>
  BY DEF call, tables
<1>2. TypeOK /\ Running \in Contexts /\ Len(ctx) \in {1, 2}
  BY Current DEF IInv
<1>3. /\ c \in Contexts /\ c.line = Running.line /\ c.req = Running.req
      /\ c.at \in {"table", "read"} /\ c.op = op /\ c.arg = l
  BY <1>2 DEF Contexts
<1> HIDE DEF c
<1>4. Running.at # "leave"
  BY <1>1 DEF MayCall
<1>5. imr' \in [Chip -> SUBSET Bit] /\ handlers' \subseteq Line /\ enabled' \subseteq Line
  BY <1>1, <1>2 DEF TypeOK
<1>6. /\ TypeOK' /\ ContextInv' /\ TablesInv' /\ InServiceIsHandled' /\ OwnHandler'
      /\ Running' = c /\ ~Booting'
  BY <1>1, <1>2, <1>3, <1>4, <1>5, InCall, Within DEF Calls, Free
<1>7. MaskInv'
  BY <1>1, <1>3, <1>6, InCall DEF MaskInv, IInv
<1> QED
  BY <1>6, <1>7 DEF IInv

LEMMA SetHandlerKeeps == ASSUME IInv, set_handler PROVE IInv'
<1> DEFINE c == [Running EXCEPT !.at = "read"]
<1>1. /\ Running.at = "table" /\ Resume(c) /\ handlers' = handlers \cup {Running.arg}
      /\ UNCHANGED <<gdt, idt, imr, irr, isr, icw2, iflag, enabled>>
  BY DEF set_handler, tables, GoTo
<1>2. TypeOK /\ Running \in Contexts /\ Len(ctx) \in {1, 2}
  BY Current DEF IInv
<1>3. /\ c \in Contexts /\ c.line = Running.line /\ c.req = Running.req
      /\ c.at = "read" /\ c.op = Running.op /\ c.arg = Running.arg
  BY <1>2 DEF Contexts
<1> HIDE DEF c
<1>4. ~iflag /\ ~Booting /\ Running.op # "none" /\ Running.arg \in Line
  BY <1>1, InCall DEF Calls
<1>5. imr' \in [Chip -> SUBSET Bit] /\ handlers' \subseteq Line /\ enabled' \subseteq Line
  BY <1>1, <1>2, <1>4 DEF TypeOK
<1>6. /\ TypeOK' /\ ContextInv' /\ TablesInv' /\ InServiceIsHandled' /\ OwnHandler'
      /\ Running' = c /\ ~Booting'
  BY <1>1, <1>2, <1>3, <1>4, <1>5, Within DEF Calls, Free
<1>7. MaskInv'
  BY <1>1, <1>3, <1>4, <1>6 DEF MaskInv, IInv
<1> QED
  BY <1>6, <1>7 DEF IInv

LEMMA ReadKeeps == ASSUME IInv, read_mask PROVE IInv'
<1> DEFINE c == [Running EXCEPT !.at = "write", !.data = imr[port(Running.arg)]]
<1>1. /\ Running.at = "read" /\ Resume(c)
      /\ UNCHANGED <<gdt, idt, imr, irr, isr, icw2, handlers, iflag, enabled>>
  BY DEF read_mask, tables
<1>2. TypeOK /\ Running \in Contexts /\ Len(ctx) \in {1, 2}
  BY Current DEF IInv
<1>3. ~iflag /\ ~Booting /\ Running.op # "none" /\ Running.arg \in Line
  BY <1>1, InCall DEF Calls
<1>4. imr[port(Running.arg)] \in SUBSET Bit
  BY <1>2, <1>3, Lines DEF TypeOK
<1>5. /\ c \in Contexts /\ c.line = Running.line /\ c.req = Running.req
      /\ c.at = "write" /\ c.op = Running.op /\ c.arg = Running.arg
      /\ c.data = imr[port(Running.arg)]
  BY <1>2, <1>4 DEF Contexts
<1> HIDE DEF c
<1>6. imr' \in [Chip -> SUBSET Bit] /\ handlers' \subseteq Line /\ enabled' \subseteq Line
  BY <1>1, <1>2 DEF TypeOK
<1>7. /\ TypeOK' /\ ContextInv' /\ TablesInv' /\ InServiceIsHandled' /\ OwnHandler'
      /\ Running' = c /\ ~Booting'
  BY <1>1, <1>2, <1>3, <1>5, <1>6, Within DEF Calls, Free
<1>8. MaskInv'
  BY <1>1, <1>3, <1>5, <1>7 DEF MaskInv, IInv
<1> QED
  BY <1>7, <1>8 DEF IInv

\* The masks M are open for the lines of E, after one more was opened or closed too.
OpenFor(M, E) ==
  \A c \in Chip : M[c] = Bit \ {BitOf(l) : l \in {m \in E : ChipOf(m) = c}}

After(op, l, E) == IF op = "disable" THEN E \ {l} ELSE E \cup {l}

LEMMA Masks ==
  ASSUME NEW M \in [Chip -> SUBSET Bit], NEW E \in SUBSET Line, NEW l \in Line, NEW op,
         OpenFor(M, E)
  PROVE  OpenFor([M EXCEPT ![port(l)] = NextMask(op, M[port(l)], BitOf(l))], After(op, l, E))
<1> DEFINE N == [M EXCEPT ![port(l)] = NextMask(op, M[port(l)], BitOf(l))]
           F == After(op, l, E)
<1> SUFFICES ASSUME NEW c \in Chip
             PROVE  N[c] = Bit \ {BitOf(m) : m \in {k \in F : ChipOf(k) = c}}
  BY DEF OpenFor
<1> USE DEF After
<1>1. port(l) = ChipOf(l) /\ ChipOf(l) \in Chip /\ BitOf(l) \in Bit
  BY Lines
<1>2. \A m \in Line : ChipOf(m) = ChipOf(l) /\ BitOf(m) = BitOf(l) => m = l
  BY OneLine
<1>3. CASE c # ChipOf(l)
  <2>1. N[c] = M[c]
    BY <1>1, <1>3
  <2>2. {k \in F : ChipOf(k) = c} = {k \in E : ChipOf(k) = c}
    BY <1>3
  <2>3. M[c] = Bit \ {BitOf(m) : m \in {k \in E : ChipOf(k) = c}}
    BY DEF OpenFor
  <2> QED
    BY <2>1, <2>2, <2>3
<1>4. CASE c = ChipOf(l)
  <2>1. N[c] = NextMask(op, M[c], BitOf(l))
    BY <1>1, <1>4
  <2>2. M[c] = Bit \ {BitOf(m) : m \in {k \in E : ChipOf(k) = c}}
    BY DEF OpenFor
  <2> HIDE DEF N
  <2>3. CASE op = "disable"
    <3>1. {k \in F : ChipOf(k) = c} = {k \in E : ChipOf(k) = c} \ {l}
      BY <2>3
    <3>2. {BitOf(m) : m \in {k \in F : ChipOf(k) = c}}
            = {BitOf(m) : m \in {k \in E : ChipOf(k) = c}} \ {BitOf(l)}
      BY <1>2, <1>4, <3>1
    <3>3. N[c] = M[c] \cup {BitOf(l)}
      BY <2>1, <2>3 DEF NextMask
    <3> QED
      BY <1>1, <2>2, <3>2, <3>3 DEF N
  <2>4. CASE op # "disable"
    <3>1. {k \in F : ChipOf(k) = c} = {k \in E : ChipOf(k) = c} \cup {l}
      BY <1>4, <2>4
    <3>2. {BitOf(m) : m \in {k \in F : ChipOf(k) = c}}
            = {BitOf(m) : m \in {k \in E : ChipOf(k) = c}} \cup {BitOf(l)}
      BY <3>1
    <3>3. N[c] = M[c] \ {BitOf(l)}
      BY <2>1, <2>4 DEF NextMask
    <3> QED
      BY <2>2, <3>2, <3>3 DEF N
  <2> QED
    BY <2>3, <2>4
<1> QED
  BY <1>3, <1>4

LEMMA WriteKeeps == ASSUME IInv, write_mask PROVE IInv'
<1> DEFINE c == Context(Running.line, Running.req, IF Len(ctx) = 1 THEN "idle" ELSE "return")
           l == Running.arg
           op == Running.op
<1>1. /\ Running.at = "write" /\ Resume(c)
      /\ imr' = [imr EXCEPT ![port(l)] = NextMask(op, Running.data, BitOf(l))]
      /\ enabled' = IF op = "disable" THEN enabled \ {l} ELSE enabled \cup {l}
      /\ UNCHANGED <<gdt, idt, irr, isr, icw2, handlers, iflag>>
  BY DEF write_mask, tables
<1>2. TypeOK /\ Running \in Contexts /\ Len(ctx) \in {1, 2}
  BY Current DEF IInv
<1>3. ~iflag /\ ~Booting /\ op # "none" /\ l \in Line
  BY <1>1, InCall DEF Calls
<1>4. /\ c \in Contexts /\ c.line = Running.line /\ c.req = Running.req
      /\ c.at = IF Len(ctx) = 1 THEN "idle" ELSE "return"
      /\ c.op = "none"
  BY <1>2 DEF Contexts, Context
<1> HIDE DEF c, l, op
<1>5. Running.data = imr[port(l)] /\ imr \in [Chip -> SUBSET Bit] /\ enabled \in SUBSET Line
  BY <1>1, <1>2 DEF IInv, MaskInv, TypeOK, l
<1>6. imr' \in [Chip -> SUBSET Bit] /\ handlers' \subseteq Line /\ enabled' \subseteq Line
  <2>1. port(l) \in Chip /\ BitOf(l) \in Bit
    BY <1>3, Lines
  <2>2. NextMask(op, Running.data, BitOf(l)) \in SUBSET Bit
    BY <1>2, <2>1 DEF NextMask, Contexts
  <2>3. handlers \subseteq Line
    BY <1>2 DEF TypeOK
  <2> QED
    BY <1>1, <1>3, <1>5, <2>1, <2>2, <2>3
<1>7. /\ TypeOK' /\ ContextInv' /\ TablesInv' /\ InServiceIsHandled' /\ OwnHandler'
      /\ Running' = c /\ ~Booting'
  BY <1>1, <1>2, <1>3, <1>4, <1>6, Within DEF Calls, Free
<1>8. OpenFor(imr', enabled')
  <2>1. OpenFor(imr, enabled)
    BY <1>3 DEF IInv, MaskInv, OpenFor
  <2>2. imr' = [imr EXCEPT ![port(l)] = NextMask(op, imr[port(l)], BitOf(l))]
    BY <1>1, <1>5
  <2>3. enabled' = After(op, l, enabled)
    BY <1>1 DEF After
  <2>4. OpenFor([imr EXCEPT ![port(l)] = NextMask(op, imr[port(l)], BitOf(l))],
                After(op, l, enabled))
    BY <1>3, <1>5, <2>1, Masks
  <2> QED
    BY <2>2, <2>3, <2>4
<1>9. Running'.at # "write"
  BY <1>4, <1>7
<1>10. MaskInv'
  BY <1>8, <1>9 DEF MaskInv, OpenFor
<1> QED
  BY <1>7, <1>10 DEF IInv

\* Nothing is in service unless a handler is at work.
LEMMA InService ==
  ASSUME IInv
  PROVE  /\ Work(ctx) = {} => isr = [c \in Chip |-> {}]
         /\ \A l \in Device : Work(ctx) = {l} =>
              isr = [c \in Chip |-> IF c = ChipOf(l) THEN {BitOf(l)}
                                    ELSE IF c = Master THEN {Cascade} ELSE {}]
<1>1. TypeOK /\ InServiceIsHandled /\ Unacknowledged = Work(ctx)
  BY WorkNow DEF IInv
<1>2. isr \in [Chip -> SUBSET Bit] /\ Chip = {Master, Slave} /\ Master # Slave
  BY <1>1 DEF TypeOK, Chip, Master, Slave
<1>3. CASE Work(ctx) = {}
  <2>1. isr[Slave] = {} /\ isr[Master] = {}
    BY <1>1, <1>3 DEF InServiceIsHandled
  <2> QED
    BY <1>2, <1>3, <2>1
<1>4. ASSUME NEW l \in Device, Work(ctx) = {l}
      PROVE  isr = [c \in Chip |-> IF c = ChipOf(l) THEN {BitOf(l)}
                                   ELSE IF c = Master THEN {Cascade} ELSE {}]
  <2>1. /\ isr[Slave] = {BitOf(m) : m \in {k \in {l} : k > 7}}
        /\ isr[Master] = {IF m > 7 THEN Cascade ELSE m : m \in {l}}
    BY <1>1, <1>4 DEF InServiceIsHandled
  <2>2. l \in Line /\ (l > 7 <=> ChipOf(l) = Slave) /\ ChipOf(l) \in Chip /\ (l <= 7 => BitOf(l) = l)
        /\ l \in Nat
    BY Lines DEF Device
  <2>3. CASE l > 7
    <3>1. isr[Slave] = {BitOf(l)} /\ isr[Master] = {Cascade} /\ ChipOf(l) = Slave
      BY <2>1, <2>2, <2>3
    <3> QED
      BY <1>2, <3>1
  <2>4. CASE ~ (l > 7)
    <3>1. isr[Slave] = {} /\ isr[Master] = {BitOf(l)} /\ ChipOf(l) = Master
      BY <1>2, <2>1, <2>2, <2>4
    <3> QED
      BY <1>2, <3>1
  <2> QED
    BY <2>3, <2>4
<1> QED
  BY <1>3, <1>4

\* The steps of main before the controllers are set up.
LEMMA BootKeeps == ASSUME IInv, gdt_init \/ idt_init \/ pic_i8259_init PROVE IInv'
<1> DEFINE next == IF gdt_init THEN "gdt" ELSE IF idt_init THEN "idt" ELSE "idle"
           c == [Running EXCEPT !.at = next]
<1>1. TypeOK /\ ContextInv /\ TablesInv /\ MaskInv /\ OwnHandler /\ InServiceIsHandled
  BY DEF IInv
<1>2. Running \in Contexts /\ Len(ctx) \in {1, 2}
  BY <1>1, Current
<1>3. Running.at \in {"reset", "gdt", "idt"}
  BY DEF gdt_init, idt_init, pic_i8259_init
<1>4. Len(ctx) = 1 /\ Running = ctx[1]
  <2>1. Len(ctx) # 2
    BY <1>1, <1>3, Current DEF ContextInv, Calls
  <2> QED
    BY <1>1, <1>2, <2>1, Current
<1>5. ~iflag /\ Running.op = "none" /\ Running.req = NoLine /\ enabled = {} /\ Booting
  <2>1. 1 \in 1..Len(ctx)
    BY <1>4
  <2> QED
    BY <1>1, <1>3, <1>4, <2>1 DEF ContextInv, TablesInv, Calls, Booting
<1>6. isr = [d \in Chip |-> {}]
  <2>1. Work(ctx) = {}
    BY <1>4 DEF Work
  <2> QED
    BY <2>1, InService
<1>7. ASSUME NEW at \in {"gdt", "idt", "idle"}, GoTo(at),
             UNCHANGED <<irr, handlers, iflag, enabled>>,
             imr' \in [Chip -> SUBSET Bit], isr' = [d \in Chip |-> {}],
             icw2' \in [Chip -> {8, 112, 32, 40}],
             DOMAIN gdt' = KERN_CODE..TSS, DOMAIN idt' = Vector,
             gdt' = GdtTable,
             at # "gdt" => idt' = IdtTable,
             at = "idle" => icw2' = Vectors /\ imr' = [d \in Chip |-> Bit]
      PROVE  IInv'
  <2> DEFINE b == [Running EXCEPT !.at = at]
  <2>1. b \in Contexts /\ b.at = at /\ b.op = "none" /\ b.req = NoLine /\ Resume(b)
    BY <1>2, <1>5, <1>7 DEF Contexts, GoTo
  <2> HIDE DEF b
  <2>2. ctx' \in Seq(Contexts) /\ Len(ctx') = 1 /\ Running' = b /\ ctx'[1] = b /\ 1..Len(ctx') = {1}
    <3>1. ctx' \in Seq(Contexts) /\ Len(ctx') = 1 /\ Running' = b /\ ctx'[1] = b
      BY <1>1, <1>4, <2>1, Resumed
    <3> QED
      BY <3>1
  <2>3. TypeOK'
    BY <1>1, <1>7, <2>2 DEF TypeOK
  <2>4. ContextInv'
    BY <1>5, <1>7, <2>1, <2>2 DEF ContextInv, Calls
  <2>5. TablesInv'
    BY <1>5, <1>7, <2>1, <2>2 DEF TablesInv, Booting
  <2>6. MaskInv'
    BY <1>5, <1>7, <2>1, <2>2 DEF MaskInv, Booting
  <2>7. OwnHandler'
    BY <2>1, <2>2 DEF OwnHandler
  <2>8. InServiceIsHandled'
    <3>1. Unacknowledged' = {}
      BY <2>2, <2>3, WorkNow DEF Work
    <3> QED
      BY <1>7, <3>1 DEF InServiceIsHandled, Chip, Master, Slave
  <2> QED
    BY <2>3, <2>4, <2>5, <2>6, <2>7, <2>8 DEF IInv
<1>8. CASE gdt_init
  <2>1. DOMAIN GdtTable = KERN_CODE..TSS
    BY DEF GdtTable
  <2> QED
    BY <1>1, <1>6, <1>7, <1>8, <2>1 DEF gdt_init, TypeOK
<1>9. CASE idt_init
  <2>1. DOMAIN IdtTable = Vector
    BY DEF IdtTable
  <2>2. gdt = GdtTable
    BY <1>1, <1>4, <1>9 DEF idt_init, TablesInv
  <2> QED
    BY <1>1, <1>6, <1>7, <1>9, <2>1, <2>2 DEF idt_init, TypeOK
<1>10. CASE pic_i8259_init
  <2>1. gdt = GdtTable /\ idt = IdtTable
    BY <1>1, <1>4, <1>10 DEF pic_i8259_init, TablesInv
  <2>2. Vectors \in [Chip -> {8, 112, 32, 40}]
    BY DEF Vectors
  <2>3. [d \in Chip |-> Bit] \in [Chip -> SUBSET Bit]
    OBVIOUS
  <2> QED
    BY <1>1, <1>7, <1>10, <2>1, <2>2, <2>3 DEF pic_i8259_init, TypeOK, tables
<1> QED
  BY <1>8, <1>9, <1>10

LEMMA EnableKeeps == ASSUME IInv, sched_enable PROVE IInv'
<1>1. /\ Running.at = "idle" /\ iflag' = TRUE
      /\ UNCHANGED <<gdt, idt, imr, irr, isr, icw2, handlers, ctx, enabled>>
  BY DEF sched_enable, tables
<1>2. TypeOK /\ ContextInv /\ TablesInv /\ MaskInv /\ OwnHandler /\ InServiceIsHandled
  BY DEF IInv
<1>3. Len(ctx) = 1 /\ ctx[1].at = "idle"
  BY <1>1, <1>2, Current DEF ContextInv, Calls
<1>4. TypeOK' /\ ContextInv'
  BY <1>1, <1>2, <1>3 DEF TypeOK, ContextInv
<1>5. TablesInv' /\ MaskInv' /\ OwnHandler' /\ InServiceIsHandled'
  BY <1>1, <1>2 DEF TablesInv, MaskInv, OwnHandler, InServiceIsHandled, Booting, Running, Unacknowledged
<1> QED
  BY <1>4, <1>5 DEF IInv

LEMMA RequestKeeps == ASSUME IInv, NEW l \in Device, request(l) PROVE IInv'
<1>1. /\ irr' = [irr EXCEPT ![ChipOf(l)] = @ \cup {BitOf(l)}]
      /\ UNCHANGED <<gdt, idt, imr, isr, icw2, handlers, ctx, iflag, enabled>>
  BY DEF request, tables
<1>2. TypeOK /\ ContextInv /\ TablesInv /\ MaskInv /\ OwnHandler /\ InServiceIsHandled
  BY DEF IInv
<1>3. irr' \in [Chip -> SUBSET {BitOf(m) : m \in Device}]
  BY <1>1, <1>2 DEF TypeOK
<1>4. TypeOK' /\ ContextInv'
  BY <1>1, <1>2, <1>3 DEF TypeOK, ContextInv
<1>5. TablesInv' /\ MaskInv' /\ OwnHandler' /\ InServiceIsHandled'
  BY <1>1, <1>2 DEF TablesInv, MaskInv, OwnHandler, InServiceIsHandled, Booting, Running, Unacknowledged
<1> QED
  BY <1>4, <1>5 DEF IInv

\* A handler comes on top of a task.
LEMMA EnterKeeps ==
  ASSUME IInv, iflag, NEW n \in IRQ, NEW req \in Device \cup {NoLine}, Interrupt(idt[32 + n], req),
         req = NoLine \/ req = n,
         irr' \in [Chip -> SUBSET {BitOf(m) : m \in Device}],
         isr' = IF req = NoLine THEN isr
                ELSE [c \in Chip |-> isr[c] \cup (IF c = ChipOf(req) THEN {BitOf(req)}
                                                  ELSE {b \in {Cascade} : c = Master})],
         UNCHANGED <<gdt, idt, imr, icw2, handlers, enabled>>
  PROVE  IInv'
<1>1. TypeOK /\ ContextInv /\ TablesInv /\ MaskInv /\ OwnHandler /\ InServiceIsHandled
  BY DEF IInv
<1>2. Len(ctx) = 1 /\ ctx[1].at = "idle" /\ ~Booting /\ idt = IdtTable /\ ctx[1].op = "none"
  <2>1. Len(ctx) = 1
    BY <1>1, Current DEF ContextInv
  <2>2. 1 \in 1..Len(ctx)
    BY <2>1
  <2> QED
    BY <1>1, <2>1, <2>2 DEF ContextInv, TablesInv, Booting, Calls
<1> DEFINE c == Context(n, req, "handler")
<1>3. ctx' = Append(ctx, c) /\ iflag' = FALSE
  <2>1. /\ FieldOf(Frame(Stub(Target(idt[32 + n]))), "intr_number") = n
        /\ idt[32 + n].type # TRAP_GATE
    BY <1>2, Entry
  <2> QED
    BY <2>1 DEF Interrupt
<1>4. /\ c \in Contexts /\ c.line = n /\ c.req = req /\ c.at = "handler" /\ c.op = "none"
  BY DEF Contexts, Context, IRQ, NoLine
<1> HIDE DEF c
<1>5. /\ ctx' \in Seq(Contexts) /\ Len(ctx') = 2 /\ ctx'[1] = ctx[1] /\ ctx'[2] = c
      /\ 1..Len(ctx') = {1, 2} /\ Running' = c
  <2>1. ctx \in Seq(Contexts)
    BY <1>1 DEF TypeOK
  <2>2. ctx' \in Seq(Contexts) /\ Len(ctx') = 2 /\ ctx'[1] = ctx[1] /\ ctx'[2] = c
    <3>1. c \in Contexts /\ Len(ctx) = 1
      BY <1>2, <1>4
    <3>2. /\ Append(ctx, c) \in Seq(Contexts) /\ Len(Append(ctx, c)) = 2
          /\ Append(ctx, c)[1] = ctx[1] /\ Append(ctx, c)[2] = c
      BY <2>1, <3>1, Stack
    <3> QED
      BY <1>3, <3>2
  <2> QED
    BY <2>2 DEF Running
<1>6. isr = [d \in Chip |-> {}]
  <2>1. Work(ctx) = {}
    BY <1>2 DEF Work
  <2> QED
    BY <2>1, InService
<1>7. isr' \in [Chip -> SUBSET Bit]
  <2>1. req # NoLine => BitOf(req) \in Bit
    BY Lines DEF Device
  <2>2. Cascade \in Bit /\ isr \in [Chip -> SUBSET Bit]
    BY <1>1 DEF Cascade, Bit, TypeOK
  <2> QED
    BY <2>1, <2>2
<1>8. TypeOK'
  BY <1>1, <1>3, <1>5, <1>7 DEF TypeOK
<1>9. ContextInv'
  BY <1>1, <1>2, <1>3, <1>4, <1>5 DEF ContextInv, Calls
<1>10. TablesInv' /\ MaskInv'
  BY <1>1, <1>2, <1>4, <1>5 DEF TablesInv, MaskInv, Booting
<1>11. OwnHandler'
  BY <1>1, <1>4, <1>5 DEF OwnHandler, ContextInv
<1>12. InServiceIsHandled'
  <2>1. Unacknowledged' = IF req = NoLine THEN {} ELSE {req}
    BY <1>4, <1>5, <1>8, WorkNow DEF Work
  <2>2. Chip = {Master, Slave} /\ Master # Slave
    BY DEF Chip, Master, Slave
  <2>3. CASE req = NoLine
    BY <1>6, <2>1, <2>2, <2>3 DEF InServiceIsHandled
  <2>4. CASE req # NoLine
    <3>1. /\ req \in Line /\ (req > 7 <=> ChipOf(req) = Slave) /\ ChipOf(req) \in Chip
          /\ (req <= 7 => BitOf(req) = req) /\ req \in Nat
      BY <2>4, Lines DEF Device
    <3>2. /\ isr'[Slave] = IF Slave = ChipOf(req) THEN {BitOf(req)} ELSE {}
          /\ isr'[Master] = IF Master = ChipOf(req) THEN {BitOf(req)} ELSE {Cascade}
      BY <1>6, <2>2, <2>4
    <3>3. CASE req > 7
      BY <2>1, <2>2, <2>4, <3>1, <3>2, <3>3 DEF InServiceIsHandled
    <3>4. CASE ~ (req > 7)
      BY <2>1, <2>2, <2>4, <3>1, <3>2, <3>4 DEF InServiceIsHandled
    <3> QED
      BY <3>3, <3>4
  <2> QED
    BY <2>3, <2>4
<1> QED
  BY <1>8, <1>9, <1>10, <1>11, <1>12 DEF IInv

\* Where the processor finds the gate of a line, and of a spurious interrupt.
LEMMA GateOf ==
  ASSUME IInv, iflag
  PROVE  /\ \A l \in Device : idt[icw2[ChipOf(l)] + BitOf(l)] = idt[32 + l]
         /\ icw2[Master] + 7 = 32 + 7
<1>1. icw2 = Vectors
  <2>1. ctx[1].at = "idle"
    BY Current DEF IInv, ContextInv
  <2> QED
    BY <2>1 DEF IInv, TablesInv, Booting
<1>2. Vectors[Master] = 32 /\ Vectors[Slave] = 40
  BY DEF Vectors, Chip, Master, Slave
<1>3. ASSUME NEW l \in Device PROVE icw2[ChipOf(l)] + BitOf(l) = 32 + l
  <2>1. /\ ChipOf(l) \in Chip /\ BitOf(l) \in Bit /\ l = 8 * ChipOf(l) + BitOf(l)
    BY Lines DEF Device
  <2> QED
    BY <1>1, <1>2, <2>1 DEF Chip, Master, Slave, Bit
<1> QED
  BY <1>1, <1>2, <1>3

LEMMA AcceptKeeps == ASSUME IInv, NEW l \in Device, accept(l) PROVE IInv'
<1>1. /\ iflag /\ irr' = [irr EXCEPT ![ChipOf(l)] = @ \ {BitOf(l)}]
      /\ isr' = [c \in Chip |-> isr[c] \cup (IF c = ChipOf(l) THEN {BitOf(l)}
                                             ELSE {b \in {Cascade} : c = Master})]
      /\ Interrupt(idt[icw2[ChipOf(l)] + BitOf(l)], l)
      /\ UNCHANGED <<gdt, idt, imr, icw2, handlers, enabled>>
  BY DEF accept, tables
<1>2. Interrupt(idt[32 + l], l)
  <2>1. idt[icw2[ChipOf(l)] + BitOf(l)] = idt[32 + l]
    BY <1>1, GateOf
  <2> QED
    BY <1>1, <2>1
<1>3. irr' \in [Chip -> SUBSET {BitOf(m) : m \in Device}]
  BY <1>1 DEF IInv, TypeOK
<1>4. l \in IRQ /\ l # NoLine
  BY Lines DEF Device, IRQ
<1> QED
  BY <1>1, <1>2, <1>3, <1>4, EnterKeeps

LEMMA SpuriousKeeps == ASSUME IInv, NEW l \in Noisy, accept_spurious(l) PROVE IInv'
<1>1. /\ iflag /\ irr' = [irr EXCEPT ![ChipOf(l)] = @ \ {BitOf(l)}]
      /\ Interrupt(idt[icw2[Master] + 7], NoLine)
      /\ UNCHANGED <<gdt, idt, imr, isr, icw2, handlers, enabled>>
  BY DEF accept_spurious, tables
<1>2. Interrupt(idt[32 + 7], NoLine)
  <2>1. icw2[Master] + 7 = 32 + 7
    BY <1>1, GateOf
  <2> QED
    BY <1>1, <2>1
<1>3. irr' \in [Chip -> SUBSET {BitOf(m) : m \in Device}]
  BY <1>1 DEF IInv, TypeOK
<1>4. 7 \in IRQ
  BY DEF IRQ
<1> QED
  BY <1>1, <1>2, <1>3, <1>4, EnterKeeps

\* The handler on top of a task, and the only service there is.
LEMMA Top ==
  ASSUME IInv, Running.at \in {"handler", "return", "leave"}
  PROVE  /\ Len(ctx) = 2 /\ Running = ctx[2] /\ ~iflag /\ ctx[1].at = "idle" /\ ctx[1].op = "none"
         /\ ctx[1].req = NoLine /\ Running.op = "none" /\ Running.req \in Device \cup {NoLine}
         /\ (Running.req # NoLine => Running.line = Running.req)
<1>1. TypeOK /\ ContextInv /\ OwnHandler
  BY DEF IInv
<1>2. Running \in Contexts /\ Len(ctx) \in {1, 2}
  BY <1>1, Current
<1>3. Len(ctx) = 2 /\ Running = ctx[2]
  <2>1. Len(ctx) # 1
    BY <1>1, Current DEF ContextInv, Calls
  <2> QED
    BY <1>1, <1>2, <2>1, Current
<1>4. 1 \in 1..Len(ctx) /\ 2 \in 1..Len(ctx)
  BY <1>3
<1>5. Running.op = "none" /\ ctx[1].op = "none" /\ (Running.req # NoLine => Running.line = Running.req)
  BY <1>1, <1>3, <1>4 DEF ContextInv, OwnHandler, Calls
<1>6. ~iflag /\ ctx[1].at = "idle" /\ ctx[1].req = NoLine
  BY <1>1, <1>3 DEF ContextInv
<1>7. Running.req \in Device \cup {NoLine}
  BY <1>2 DEF Contexts
<1> QED
  BY <1>3, <1>5, <1>6, <1>7

\* The acknowledges of a handler end all the service there is.
LEMMA Acknowledged ==
  ASSUME IInv, Running.at \in {"handler", "return"}
  PROVE  /\ acknowledge(Running.line, isr) = [c \in Chip |-> {}]
         /\ \A c \in Chip, b \in Bit : b \in isr[c] =>
              /\ Running.req # NoLine
              /\ b = IF c = ChipOf(Running.req) THEN BitOf(Running.req) ELSE Cascade
<1>1. /\ Len(ctx) = 2 /\ Running = ctx[2] /\ Running.req \in Device \cup {NoLine}
      /\ (Running.req # NoLine => Running.line = Running.req)
  BY Top
<1>2. Work(ctx) = IF Running.req = NoLine THEN {} ELSE {Running.req}
  BY <1>1 DEF Work
<1>3. Chip = {Master, Slave} /\ Master # Slave
  BY DEF Chip, Master, Slave
<1>4. eoi({}) = {} /\ \A b \in Nat : eoi({b}) = {}
  BY DEF eoi
<1>5. CASE Running.req = NoLine
  <2>1. isr = [c \in Chip |-> {}]
    BY <1>2, <1>5, InService
  <2>2. acknowledge(Running.line, isr) = [c \in Chip |-> {}]
    BY <1>3, <1>4, <2>1 DEF acknowledge
  <2> QED
    BY <2>1, <2>2
<1>6. CASE Running.req # NoLine
  <2> DEFINE l == Running.req
  <2>1. l \in Device /\ Running.line = l /\ Work(ctx) = {l}
    BY <1>1, <1>2, <1>6
  <2>2. isr = [c \in Chip |-> IF c = ChipOf(l) THEN {BitOf(l)}
                              ELSE IF c = Master THEN {Cascade} ELSE {}]
    BY <2>1, InService
  <2>3. /\ (l > 7 <=> ChipOf(l) = Slave) /\ ChipOf(l) \in Chip
        /\ BitOf(l) \in Nat /\ Cascade \in Nat
    BY <2>1, Lines DEF Device, Bit, Cascade
  <2>4. acknowledge(l, isr) = [c \in Chip |-> {}]
    <3>1. CASE l > 7
      <4>1. isr[Slave] = {BitOf(l)} /\ isr[Master] = {Cascade}
        BY <1>3, <2>2, <2>3, <3>1
      <4>2. acknowledge(l, isr) = [isr EXCEPT ![Slave] = {}, ![Master] = {}]
        BY <1>3, <1>4, <2>2, <2>3, <3>1, <4>1 DEF acknowledge
      <4> QED
        BY <1>3, <2>2, <4>2
    <3>2. CASE ~ (l > 7)
      <4>1. isr[Slave] = {} /\ isr[Master] = {BitOf(l)}
        BY <1>3, <2>2, <2>3, <3>2
      <4>2. acknowledge(l, isr) = [isr EXCEPT ![Slave] = {}, ![Master] = {}]
        BY <1>3, <1>4, <2>2, <2>3, <3>2, <4>1 DEF acknowledge
      <4> QED
        BY <1>3, <2>2, <4>2
    <3> QED
      BY <3>1, <3>2
  <2>5. ASSUME NEW c \in Chip, NEW b \in Bit, b \in isr[c]
        PROVE  b = IF c = ChipOf(l) THEN BitOf(l) ELSE Cascade
    BY <2>2, <2>5
  <2> QED
    BY <1>6, <2>1, <2>4, <2>5
<1> QED
  BY <1>5, <1>6

LEMMA EndKeeps == ASSUME IInv, main_handler_end PROVE IInv'
<1> DEFINE c == [Running EXCEPT !.at = "leave"]
<1>1. /\ Running.at \in {"handler", "return"} /\ Resume(c)
      /\ isr' = acknowledge(Running.line, isr)
      /\ UNCHANGED <<gdt, idt, imr, irr, icw2, handlers, iflag, enabled>>
  BY DEF main_handler_end, tables, GoTo
<1>2. TypeOK /\ ContextInv /\ TablesInv /\ MaskInv /\ OwnHandler
  BY DEF IInv
<1>3. Running \in Contexts
  BY <1>2, Current
<1>4. /\ Len(ctx) = 2 /\ Running = ctx[2] /\ ~iflag /\ ctx[1].at = "idle" /\ ctx[1].op = "none"
      /\ ctx[1].req = NoLine /\ Running.op = "none"
      /\ (Running.req # NoLine => Running.line = Running.req)
  BY <1>1, Top
<1>5. /\ c \in Contexts /\ c.line = Running.line /\ c.req = Running.req /\ c.at = "leave"
      /\ c.op = "none"
  BY <1>3, <1>4 DEF Contexts
<1> HIDE DEF c
<1>6. /\ ctx' \in Seq(Contexts) /\ Len(ctx') = 2 /\ ctx'[1] = ctx[1] /\ ctx'[2] = c
      /\ 1..Len(ctx') = {1, 2} /\ Running' = c
  <2>1. ctx' \in Seq(Contexts) /\ Len(ctx') = 2 /\ ctx'[1] = ctx[1] /\ ctx'[2] = c /\ Running' = c
    BY <1>1, <1>2, <1>4, <1>5, Resumed
  <2> QED
    BY <2>1
<1>7. isr' = [d \in Chip |-> {}]
  BY <1>1, Acknowledged
<1>8. TypeOK'
  BY <1>1, <1>2, <1>6, <1>7 DEF TypeOK
<1>9. ContextInv'
  BY <1>1, <1>4, <1>5, <1>6 DEF ContextInv, Calls
<1>10. TablesInv' /\ MaskInv'
  BY <1>1, <1>2, <1>5, <1>6 DEF TablesInv, MaskInv, Booting
<1>11. OwnHandler'
  BY <1>4, <1>5, <1>6 DEF OwnHandler
<1>12. InServiceIsHandled'
  <2>1. Unacknowledged' = {}
    BY <1>5, <1>6, <1>8, WorkNow DEF Work
  <2> QED
    BY <1>7, <2>1 DEF InServiceIsHandled, Chip, Master, Slave
<1> QED
  BY <1>8, <1>9, <1>10, <1>11, <1>12 DEF IInv

LEMMA LeaveKeeps == ASSUME IInv, intr_leave PROVE IInv'
<1>1. /\ Running.at = "leave" /\ ctx' = SubSeq(ctx, 1, Len(ctx) - 1) /\ iflag' = TRUE
      /\ UNCHANGED <<gdt, idt, imr, irr, isr, icw2, handlers, enabled>>
  BY DEF intr_leave, tables
<1>2. TypeOK /\ ContextInv /\ TablesInv /\ MaskInv /\ OwnHandler
  BY DEF IInv
<1>3. /\ Len(ctx) = 2 /\ Running = ctx[2] /\ ctx[1].at = "idle" /\ ctx[1].op = "none"
      /\ ctx[1].req = NoLine
  BY <1>1, Top
<1>4. /\ ctx' \in Seq(Contexts) /\ Len(ctx') = 1 /\ ctx'[1] = ctx[1] /\ 1..Len(ctx') = {1}
      /\ Running' = ctx[1]
  <2>1. ctx \in Seq(Contexts) /\ ctx' = SubSeq(ctx, 1, 1)
    BY <1>1, <1>2, <1>3 DEF TypeOK
  <2>2. ctx' \in Seq(Contexts) /\ Len(ctx') = 1 /\ ctx'[1] = ctx[1]
    BY <1>3, <2>1, Stack
  <2> QED
    BY <2>2 DEF Running
<1>5. isr = [d \in Chip |-> {}]
  <2>1. Work(ctx) = {}
    BY <1>1, <1>3 DEF Work
  <2> QED
    BY <2>1, InService
<1>6. TypeOK'
  BY <1>1, <1>2, <1>4 DEF TypeOK
<1>7. ContextInv'
  BY <1>1, <1>3, <1>4 DEF ContextInv, Calls
<1>8. TablesInv' /\ MaskInv'
  BY <1>1, <1>2, <1>3, <1>4 DEF TablesInv, MaskInv, Booting
<1>9. OwnHandler'
  BY <1>3, <1>4 DEF OwnHandler
<1>10. InServiceIsHandled'
  <2>1. Unacknowledged' = {}
    BY <1>4, <1>6, WorkNow DEF Work
  <2> QED
    BY <1>1, <1>5, <2>1 DEF InServiceIsHandled, Chip, Master, Slave
<1> QED
  BY <1>6, <1>7, <1>8, <1>9, <1>10 DEF IInv

LEMMA InitIInv == Init => IInv
<1> SUFFICES ASSUME Init PROVE IInv
  OBVIOUS
<1> DEFINE c == Context(NoLine, NoLine, "reset")
<1>1. /\ imr \in [Chip -> {{}, Bit}] /\ irr = [d \in Chip |-> {}] /\ isr = [d \in Chip |-> {}]
      /\ icw2 = [d \in Chip |-> IF d = Master THEN 8 ELSE 112]
      /\ gdt = [n \in KERN_CODE..TSS |-> Absent] /\ idt = [v \in Vector |-> Absent]
      /\ handlers = {} /\ ctx = <<c>> /\ iflag = FALSE /\ enabled = {}
  BY DEF Init
<1>2. /\ c \in Contexts /\ c.req = NoLine /\ c.at = "reset" /\ c.op = "none"
  BY DEF Context, Contexts, NoLine
<1> HIDE DEF c
<1>3. ctx \in Seq(Contexts) /\ Len(ctx) = 1 /\ ctx[1] = c /\ 1..Len(ctx) = {1} /\ Running = c
  <2>1. ctx \in Seq(Contexts) /\ Len(ctx) = 1 /\ ctx[1] = c
    BY <1>1, <1>2
  <2> QED
    BY <2>1 DEF Running
<1>4. TypeOK
  <2>1. imr \in [Chip -> SUBSET Bit] /\ isr \in [Chip -> SUBSET Bit]
    BY <1>1
  <2>2. irr \in [Chip -> SUBSET {BitOf(l) : l \in Device}]
    BY <1>1
  <2>3. icw2 \in [Chip -> {8, 112, 32, 40}]
    BY <1>1
  <2>4. DOMAIN gdt = KERN_CODE..TSS /\ DOMAIN idt = Vector
    BY <1>1
  <2>5. handlers \subseteq Line /\ enabled \subseteq Line /\ iflag \in BOOLEAN
    BY <1>1
  <2> QED
    BY <1>3, <2>1, <2>2, <2>3, <2>4, <2>5 DEF TypeOK
<1>5. ContextInv /\ OwnHandler
  BY <1>1, <1>2, <1>3 DEF ContextInv, OwnHandler, Calls
<1>6. TablesInv /\ MaskInv
  BY <1>1, <1>2, <1>3 DEF TablesInv, MaskInv, Booting
<1>7. InServiceIsHandled
  <2>1. Unacknowledged = {}
    BY <1>3, <1>4, WorkNow DEF Work
  <2> QED
    BY <1>1, <2>1 DEF InServiceIsHandled, Chip, Master, Slave
<1> QED
  BY <1>4, <1>5, <1>6, <1>7 DEF IInv

LEMMA StepKeeps == IInv /\ [Next]_vars => IInv'
<1> SUFFICES ASSUME IInv, [Next]_vars PROVE IInv'
  OBVIOUS
<1>1. CASE gdt_init \/ idt_init \/ pic_i8259_init
  BY <1>1, BootKeeps
<1>2. CASE sched_enable
  BY <1>2, EnableKeeps
<1>3. CASE Step
  BY <1>3, SetHandlerKeeps, ReadKeeps, WriteKeeps, EndKeeps, LeaveKeeps DEF Step
<1>4. CASE \E op \in {"set_handler", "enable", "disable"}, l \in Line : call(op, l)
  BY <1>4, CallKeeps
<1>5. CASE \E l \in Device : request(l)
  BY <1>5, RequestKeeps
<1>6. CASE \E l \in Device : accept(l)
  BY <1>6, AcceptKeeps
<1>7. CASE \E l \in Noisy : accept_spurious(l)
  BY <1>7, SpuriousKeeps
<1>8. CASE UNCHANGED vars
  BY <1>8 DEF IInv, TypeOK, ContextInv, TablesInv, MaskInv, InServiceIsHandled, OwnHandler,
              Booting, Running, Unacknowledged, vars, tables
<1> QED
  BY <1>1, <1>2, <1>3, <1>4, <1>5, <1>6, <1>7, <1>8 DEF Next

-----------------------------------------------------------------------------
(* What holds of every behaviour *)

LEMMA AlwaysIInv == Spec => []IInv
<1> QED
  BY InitIInv, StepKeeps, PTL DEF Spec

\* The types hold, and the controllers have in service exactly what a handler is
\* at work on: acknowledges go to the chips whose service the interrupt began.
THEOREM ServiceIsHandled == Spec => []PicInv
<1>1. IInv => PicInv
  BY DEF IInv, PicInv
<1> QED
  BY <1>1, AlwaysIInv, PTL

LEMMA GateLeads ==
  ASSUME NEW v \in Vector
  PROVE  /\ IdtTable[v].p = 1 /\ IdtTable[v].code_sel = KERN_CODE
         /\ Target(IdtTable[v]) = Address(IF v = 128 THEN SYSCALL ELSE v - 32)
         /\ (IdtTable[v].dpl = USER <=> v = 128)
<1>1. CASE v = 128
  <2>1. IdtTable[v] = register_interrupt(Address(SYSCALL), INTR_GATE, USER)
    BY <1>1 DEF IdtTable
  <2>2. SYSCALL \in 0..SYSCALL
    BY DEF SYSCALL
  <2>3. Target(IdtTable[v]) = Address(SYSCALL)
    BY <2>1, <2>2, Gates
  <2> QED
    BY <1>1, <2>1, <2>3 DEF register_interrupt
<1>2. CASE v # 128
  <2>1. IdtTable[v] = register_interrupt(Address(v - 32), INTR_GATE, KERN)
    BY <1>2 DEF IdtTable
  <2>2. v - 32 \in 0..SYSCALL
    BY <1>2 DEF SYSCALL, Vector, IRQ
  <2>3. Target(IdtTable[v]) = Address(v - 32)
    BY <2>1, <2>2, Gates
  <2> QED
    BY <1>2, <2>1, <2>3 DEF register_interrupt, KERN, USER
<1> QED
  BY <1>1, <1>2

\* Interrupts are on only when every gate leads to its own stub in ring 0 code
\* and the processor finds all of the TSS; and a request is served by the stub
\* and the table entry of its own line, for all addresses that the linker script
\* allows and whatever the size of the TSS below 64 KiB.
THEOREM OwnHandlerIsReached == Spec => []ReachesOwnHandler
<1>1. ASSUME IInv PROVE ReachesOwnHandler
  <2>1. OwnHandler
    BY <1>1 DEF IInv
  <2>2. ASSUME iflag PROVE gdt = GdtTable /\ idt = IdtTable
    <3>1. ctx[1].at = "idle"
      BY <1>1, <2>2, Current DEF IInv, ContextInv
    <3> QED
      BY <1>1, <3>1 DEF IInv, TablesInv
  <2>3. /\ GdtTable[KERN_CODE] = gdt_set_entry(0, WORD - 1, KERN, "code")
        /\ GdtTable[TSS] = gdt_init_tss(Tss, TssSize)
    BY DEF GdtTable, KERN_CODE, USER_CODE, USER_DATA, TSS
  <2>4. EntersKernel
    <3> SUFFICES ASSUME iflag
                 PROVE  /\ \A v \in Vector :
                             /\ idt[v].p = 1
                             /\ Target(idt[v]) = Address(IF v = 128 THEN SYSCALL ELSE v - 32)
                             /\ \E d \in {gdt[idt[v].code_sel]} :
                                  d.type = "code" /\ d.dpl = KERN /\ Covers(d, 0, WORD)
                             /\ idt[v].dpl = USER <=> v = 128
                        /\ gdt[TSS].type = "tss" /\ Covers(gdt[TSS], Tss, TssSize)
      BY DEF EntersKernel
    <3>1. gdt = GdtTable /\ idt = IdtTable
      BY <2>2
    <3>2. gdt[TSS].type = "tss" /\ Covers(gdt[TSS], Tss, TssSize)
      BY <2>3, <3>1, TssCovers
    <3>3. ASSUME NEW d, d = GdtTable[KERN_CODE]
          PROVE  d.type = "code" /\ d.dpl = KERN /\ Covers(d, 0, WORD)
      BY <2>3, <3>3, CodeCovers
    <3> QED
      BY <3>1, <3>2, <3>3, GateLeads
  <2> QED
    BY <2>1, <2>4 DEF ReachesOwnHandler
<1> QED
  BY <1>1, AlwaysIInv, PTL

\* Outside of a call the masks are open for exactly the lines that were enabled
\* and not disabled since, each at its bit of its own chip.
THEOREM MasksAreAsAsked == Spec => []MaskAsAsked
<1>1. ASSUME IInv PROVE MaskAsAsked
  <2>1. Booting => Running.at \in {"reset", "gdt", "idt"}
    BY <1>1, Current DEF IInv, ContextInv, Booting
  <2> QED
    BY <1>1, <2>1 DEF IInv, MaskInv, MaskAsAsked
<1> QED
  BY <1>1, AlwaysIInv, PTL

\* An acknowledge ends the service of the handler that sends it, never that of
\* another; after a spurious interrupt it ends none.
THEOREM EndsNoOther == Spec => EndsItsOwn
<1> DEFINE Own == \A c \in Chip, b \in Bit :
                    (Running.at \notin {"reset", "gdt", "idt"} /\ b \in isr[c] \ isr'[c]) =>
                       /\ Running.req # NoLine
                       /\ b = IF c = ChipOf(Running.req) THEN BitOf(Running.req) ELSE Cascade
<1>1. ASSUME IInv, Next PROVE Own
  <2>1. CASE main_handler_end
    <3>1. Running.at \in {"handler", "return"}
      BY <2>1 DEF main_handler_end
    <3> QED
      BY <1>1, <3>1, Acknowledged
  <2>2. CASE pic_i8259_init
    BY <2>2 DEF pic_i8259_init
  <2>3. CASE \E l \in Device : accept(l)
    BY <2>3 DEF accept
  <2>4. CASE UNCHANGED isr
    BY <2>4
  <2> QED
    BY <1>1, <2>1, <2>2, <2>3, <2>4
       DEF Next, Step, gdt_init, idt_init, sched_enable, set_handler, read_mask, write_mask,
           intr_leave, call, request, accept_spurious
<1>2. IInv /\ [Next]_vars => [Own]_vars
  BY <1>1
<1> QED
  BY <1>2, AlwaysIInv, PTL DEF Spec, EndsItsOwn
=============================================================================
