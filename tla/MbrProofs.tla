------------------------------ MODULE MbrProofs ------------------------------
(***************************************************************************)
(* Mbr for any sizes of partition files and any number of runs: partitions *)
(* do not overlap, hold their files, and stay as they are.                 *)
(***************************************************************************)
EXTENDS Mbr, Integers, TLAPS

-----------------------------------------------------------------------------
(* Blocks and bytes *)

W == WORD \div BLOCK

LEMMA Division ==
  ASSUME NEW a \in Nat, NEW h \in Nat \ {0}
  PROVE  /\ a \div h \in Nat /\ a % h \in 0 .. (h - 1)
         /\ a = (a \div h) * h + (a % h)
OBVIOUS

\* A product is smaller only if the factor is.
LEMMA Factor ==
  ASSUME NEW a \in Int, NEW b \in Int, NEW h \in Nat \ {0}
  PROVE  /\ a * h \in Int /\ b * h \in Int /\ (a <= b => a * h <= b * h)
         /\ (a * h <= b * h => a <= b) /\ (a * h < b * h => a < b)
         /\ (a + 1) * h = a * h + h /\ (a - 1) * h = a * h - h
<1>1. a * h \in Int /\ b * h \in Int /\ (b - a) * h = b * h - a * h
  OBVIOUS
<1>2. a <= b => (b - a) * h \in Nat
  OBVIOUS
<1>3. a > b => (a - b) * h \in Nat \ {0} /\ (a - b) * h = a * h - b * h
  OBVIOUS
<1>4. (a + 1) * h = a * h + h /\ (a - 1) * h = a * h - h
  OBVIOUS
<1> DEFINE x == a * h
           y == b * h
<1>5. x \in Int /\ y \in Int /\ (a <= b => y - x >= 0) /\ (a > b => x - y > 0)
  BY <1>1, <1>2, <1>3
<1> HIDE DEF x, y
<1>6. /\ (a <= b => x <= y) /\ (x <= y => a <= b) /\ (x < y => a < b)
  <2>1. CASE a <= b
    <3>1. x <= y
      BY <1>5, <2>1
    <3>2. x < y => a # b
      BY <1>5 DEF x, y
    <3> QED
      BY <2>1, <3>1, <3>2
  <2>2. CASE a > b
    <3>1. ~ (x <= y) /\ ~ (x < y) /\ ~ (a <= b)
      BY <1>5, <2>2
    <3> QED
      BY <3>1
  <2> QED
    BY <2>1, <2>2
<1> QED
  BY <1>1, <1>4, <1>6 DEF x, y

\* There is one way to divide.
LEMMA Quotient ==
  ASSUME NEW a \in Nat, NEW h \in Nat \ {0}, NEW q \in Nat, NEW r \in Nat,
         a = q * h + r, r < h
  PROVE  a \div h = q /\ a % h = r
<1> DEFINE d == a \div h
           m == a % h
<1>1. d \in Nat /\ m \in 0 .. (h - 1) /\ a = d * h + m
  BY Division
<1> HIDE DEF d, m
<1>2. /\ (d + 1) * h = d * h + h /\ (q + 1) * h = q * h + h /\ d * h \in Int /\ q * h \in Int
  BY <1>1, Factor
<1>3. d * h < (q + 1) * h /\ q * h < (d + 1) * h
  <2> DEFINE x == d * h
             y == q * h
  <2>1. x \in Int /\ y \in Int /\ a = x + m /\ a = y + r /\ (d + 1) * h = x + h /\ (q + 1) * h = y + h
    BY <1>1, <1>2
  <2> HIDE DEF x, y
  <2>2. x < y + h /\ y < x + h
    BY <1>1, <2>1
  <2> QED
    BY <2>1, <2>2 DEF x, y
<1>4. d < q + 1 /\ q < d + 1
  <2>1. d + 1 \in Int /\ q + 1 \in Int /\ d \in Int /\ q \in Int
    BY <1>1
  <2> QED
    BY <1>3, <2>1, Factor
<1>5. d = q
  BY <1>1, <1>4
<1>6. m = r
  <2> DEFINE x == q * h
  <2>1. x \in Int /\ a = x + r /\ a = x + m
    BY <1>1, <1>2, <1>5
  <2> HIDE DEF x
  <2> QED
    BY <1>1, <2>1
<1> QED
  BY <1>5, <1>6 DEF d, m

LEMMA Numbers ==
  /\ SECTOR \in Nat \ {0, 1} /\ BLOCK \in Nat \ {0} /\ BLOCK = 4 * SECTOR
  /\ WORD \in Nat \ {0} /\ W \in Nat \ {0} /\ WORD = W * BLOCK /\ MaxRuns \in Nat
  /\ \A s \in Size : s \in Nat /\ s < WORD /\ BLOCK + 3 * (s + BLOCK) <= WORD
<1>1. SECTOR \in Nat \ {0, 1} /\ BLOCK \in Nat \ {0} /\ BLOCK = 4 * SECTOR
  BY MbrAssumption DEF MbrAssumption, BLOCK
<1>2. WORD \in Nat \ {0} /\ WORD % BLOCK = 0 /\ MaxRuns \in Nat
  BY MbrAssumption DEF MbrAssumption
<1>3. W \in Nat /\ WORD = W * BLOCK
  <2>1. W \in Nat /\ WORD = W * BLOCK + (WORD % BLOCK)
    <3>1. WORD \in Nat
      BY <1>2
    <3> QED
      BY <1>1, <3>1, Division DEF W
  <2> DEFINE x == W * BLOCK
             m == WORD % BLOCK
  <2>2. x \in Nat /\ WORD = x + m /\ m = 0
    BY <1>1, <1>2, <2>1
  <2> HIDE DEF x, m
  <2>3. WORD = x
    BY <2>2
  <2> QED
    BY <2>1, <2>3 DEF x
<1>4. W # 0
  BY <1>1, <1>2, <1>3
<1>5. \A s \in Size : s \in Nat /\ s < WORD /\ BLOCK + 3 * (s + BLOCK) <= WORD
  BY <1>2, MbrAssumption DEF MbrAssumption
<1> QED
  BY <1>1, <1>2, <1>3, <1>4, <1>5

\* So many blocks, and no fewer, hold the bytes.
LEMMA Ceiling ==
  ASSUME NEW n \in Nat
  PROVE  /\ BlocksFor(n) \in Nat /\ n <= BlocksFor(n) * BLOCK
         /\ BlocksFor(n) * BLOCK < n + BLOCK /\ BlocksFor(n) * BLOCK \in Nat
         /\ (BlocksFor(n) = 0 <=> n = 0)
<1>1. CASE n = 0
  BY <1>1, Numbers DEF BlocksFor
<1>2. CASE n # 0
  <2> DEFINE d == (n - 1) \div BLOCK
             m == (n - 1) % BLOCK
  <2>1. d \in Nat /\ m \in 0 .. (BLOCK - 1) /\ n - 1 = d * BLOCK + m
    <3>1. n - 1 \in Nat
      BY <1>2
    <3> HIDE DEF d, m
    <3> QED
      BY <3>1, Numbers, Division DEF d, m
  <2>2. BlocksFor(n) = d + 1
    BY <1>2 DEF BlocksFor
  <2> HIDE DEF d, m
  <2>3. (d + 1) * BLOCK = d * BLOCK + BLOCK /\ d * BLOCK \in Int
    BY <2>1, Numbers, Factor
  <2> DEFINE x == d * BLOCK
  <2>4. x \in Int /\ n - 1 = x + m /\ BlocksFor(n) * BLOCK = x + BLOCK /\ x \in Nat
    BY <2>1, <2>2, <2>3, Numbers
  <2> HIDE DEF x
  <2>5. BLOCK \in Nat \ {0}
    BY Numbers
  <2> QED
    BY <1>2, <2>1, <2>2, <2>4, <2>5
<1> QED
  BY <1>1, <1>2

LEMMA CeilingIs ==
  ASSUME NEW n \in Nat, NEW c \in Nat, n <= c * BLOCK, c * BLOCK < n + BLOCK
  PROVE  BlocksFor(n) = c
<1> DEFINE b == BlocksFor(n)
<1>1. b \in Nat /\ n <= b * BLOCK /\ b * BLOCK < n + BLOCK
  BY Ceiling
<1> HIDE DEF b
<1>2. /\ BLOCK \in Nat \ {0} /\ (b + 1) * BLOCK = b * BLOCK + BLOCK /\ (c + 1) * BLOCK = c * BLOCK + BLOCK
      /\ b * BLOCK \in Int /\ c * BLOCK \in Int
  BY <1>1, Numbers, Factor
<1>3. c * BLOCK < (b + 1) * BLOCK /\ b * BLOCK < (c + 1) * BLOCK
  <2> DEFINE x == b * BLOCK
             y == c * BLOCK
  <2>1. x \in Int /\ y \in Int /\ n <= x /\ x < n + BLOCK /\ n <= y /\ y < n + BLOCK
    BY <1>1, <1>2
  <2> HIDE DEF x, y
  <2>2. y < x + BLOCK /\ x < y + BLOCK
    BY <1>2, <2>1
  <2> QED
    BY <1>2, <2>2 DEF x, y
<1>4. c < b + 1 /\ b < c + 1
  <2>1. b \in Int /\ c \in Int /\ b + 1 \in Int /\ c + 1 \in Int
    BY <1>1
  <2> QED
    BY <1>2, <1>3, <2>1, Factor
<1> QED
  BY <1>1, <1>4 DEF b

\* Three partitions fit behind the boot block, with a block to spare.
LEMMA Fits ==
  ASSUME NEW s \in Size
  PROVE  BlocksFor(s) \in Nat /\ 1 + 3 * BlocksFor(s) < W
<1> DEFINE b == BlocksFor(s)
           n == 1 + 3 * BlocksFor(s)
<1>1. s \in Nat /\ BLOCK \in Nat \ {0} /\ BLOCK + 3 * (s + BLOCK) <= WORD /\ WORD = W * BLOCK
  BY Numbers
<1>2. b \in Nat /\ b * BLOCK < s + BLOCK /\ b * BLOCK \in Nat
  BY <1>1, Ceiling
<1>3. n * BLOCK = BLOCK + 3 * (b * BLOCK)
  BY <1>1, <1>2
<1> HIDE DEF b
<1>4. n * BLOCK < W * BLOCK
  <2> DEFINE x == b * BLOCK
  <2>1. x \in Nat /\ x < s + BLOCK /\ n * BLOCK = BLOCK + 3 * x
    BY <1>2, <1>3
  <2> HIDE DEF x
  <2> QED
    BY <1>1, <2>1, Numbers
<1>5. n \in Int /\ W \in Int
  BY <1>2, Numbers DEF b
<1>6. n < W
  <2> HIDE DEF n
  <2> QED
    BY <1>1, <1>4, <1>5, Factor
<1> QED
  BY <1>2, <1>6 DEF b

\* What the formula of the code makes of a number of bytes.
LEMMA Sectors ==
  ASSUME NEW s \in Size
  PROVE  sectors(s) = (IF s = 0 THEN W ELSE BlocksFor(s)) * 4
<1>1. s \in Nat /\ s < WORD /\ WORD \in Nat \ {0} /\ W \in Nat \ {0} /\ BLOCK \in Nat \ {0} /\ WORD = W * BLOCK
  BY Numbers
<1>2. CASE s = 0
  <2>1. (0 + WORD - 1) % WORD = WORD - 1
    <3>1. WORD - 1 \in Nat /\ WORD - 1 = 0 * WORD + (WORD - 1) /\ WORD - 1 < WORD
      BY <1>1
    <3>2. (WORD - 1) % WORD = WORD - 1
      BY <1>1, <3>1, Quotient
    <3> QED
      BY <1>1, <3>2
  <2>2. (WORD - 1) \div BLOCK = W - 1
    <3>1. (W - 1) * BLOCK = W * BLOCK - BLOCK
      BY <1>1, Factor
    <3>2. WORD - 1 = (W - 1) * BLOCK + (BLOCK - 1)
      BY <1>1, <3>1
    <3>3. WORD - 1 \in Nat /\ W - 1 \in Nat /\ BLOCK - 1 \in Nat /\ BLOCK - 1 < BLOCK
      BY <1>1
    <3> QED
      BY <1>1, <3>2, <3>3, Quotient
  <2>3. sectors(s) = ((W - 1) + 1) * 4
    BY <1>2, <2>1, <2>2 DEF sectors
  <2> QED
    BY <1>1, <1>2, <2>3
<1>3. CASE s # 0
  <2>1. (s + WORD - 1) % WORD = s - 1
    <3>1. s + WORD - 1 \in Nat /\ s - 1 \in Nat /\ s - 1 < WORD /\ s + WORD - 1 = 1 * WORD + (s - 1)
      BY <1>1, <1>3
    <3> QED
      BY <1>1, <3>1, Quotient
  <2> QED
    BY <1>3, <2>1 DEF sectors, BlocksFor
<1> QED
  BY <1>2, <1>3

\* What so many blocks are in sectors, and in bytes.
LEMMA InSectors ==
  ASSUME NEW c \in Nat, c <= W
  PROVE  c * 4 \in 0 .. (WORD - 1) /\ (c * 4) * SECTOR = c * BLOCK
<1>1. /\ SECTOR \in Nat \ {0, 1} /\ BLOCK \in Nat \ {0} /\ BLOCK = 4 * SECTOR /\ BLOCK >= 8
      /\ W \in Nat \ {0} /\ WORD = W * BLOCK /\ WORD \in Nat
  BY Numbers
<1>2. (c * 4) * SECTOR = c * BLOCK
  BY <1>1
<1>3. 8 * W <= BLOCK * W
  BY <1>1, Factor
<1>4. WORD = BLOCK * W
  BY <1>1
<1>5. c * 4 < WORD
  BY <1>1, <1>3, <1>4
<1>6. c * 4 \in Nat
  OBVIOUS
<1>7. c * 4 \in 0 .. (WORD - 1)
  BY <1>1, <1>5, <1>6
<1> QED
  BY <1>2, <1>7

LEMMA FileTypes ==
  ASSUME TypeOK, NEW i \in Entry
  PROVE  /\ file[i] = <<file[i][1], file[i][2]>> /\ file[i][1] \in 0 .. MaxRuns
         /\ file[i][2] \in Size \cup {0} /\ file[i][2] \in Nat
         /\ BlocksFor(file[i][2]) \in Nat /\ (BlocksFor(file[i][2]) = 0 <=> file[i][2] = 0)
<1>1. file[i] \in (0 .. MaxRuns) \X (Size \cup {0})
  BY DEF TypeOK
<1>2. file[i][2] \in Nat
  BY <1>1, Numbers
<1> QED
  BY <1>1, <1>2, Ceiling

\* Where an entry starts, another partition fits in.
LEMMA StartFits ==
  ASSUME TypeOK, NEW i \in Entry, NEW s \in Size
  PROVE  /\ Start(i) \in Nat \ {0} /\ BlocksFor(s) \in Nat /\ Start(i) + BlocksFor(s) < W
         /\ Start(i) < W /\ Start(i) * BLOCK \in 0 .. (WORD - 1)
<1> DEFINE b1 == BlocksFor(file[1][2])
           b2 == BlocksFor(file[2][2])
           b == BlocksFor(s)
<1>1. b \in Nat /\ 1 + 3 * b < W
  BY Fits
<1>2. b1 \in Nat /\ 1 + 3 * b1 < W
  <2>1. b1 \in Nat /\ (b1 = 0 \/ file[1][2] \in Size)
    BY FileTypes DEF Entry
  <2> QED
    BY <1>1, <2>1, Fits, Numbers
<1>3. b2 \in Nat /\ 1 + 3 * b2 < W
  <2>1. b2 \in Nat /\ (b2 = 0 \/ file[2][2] \in Size)
    BY FileTypes DEF Entry
  <2> QED
    BY <1>1, <2>1, Fits, Numbers
<1>4. Start(i) = 1 + (IF i > 1 THEN b1 ELSE 0) + (IF i > 2 THEN b2 ELSE 0)
  BY DEF Start
<1> HIDE DEF b1, b2, b
<1>5. Start(i) \in Nat \ {0} /\ Start(i) + b < W /\ Start(i) < W
  BY <1>1, <1>2, <1>3, <1>4, Numbers
<1>6. Start(i) * BLOCK < W * BLOCK /\ Start(i) * BLOCK \in Nat
  <2>1. BLOCK \in Nat \ {0} /\ W \in Nat
    BY Numbers
  <2>2. (Start(i) + 1) * BLOCK <= W * BLOCK /\ (Start(i) + 1) * BLOCK = Start(i) * BLOCK + BLOCK
    BY <1>5, <2>1, Factor
  <2> DEFINE x == Start(i) * BLOCK
             y == W * BLOCK
  <2>3. x \in Nat /\ y \in Nat /\ x + BLOCK <= y
    BY <1>5, <2>1, <2>2
  <2> HIDE DEF x, y
  <2>4. x < y
    BY <2>1, <2>3
  <2> QED
    BY <2>3, <2>4 DEF x, y
<1> QED
  BY <1>1, <1>5, <1>6, Numbers DEF b

\* The entries before a used one lie before it.
LEMMA Behind ==
  ASSUME TypeOK, NEW i \in 1 .. 3, NEW j \in 1 .. 3, i < j
  PROVE  Start(i) + BlocksFor(file[i][2]) <= Start(j)
<1>1. /\ i \in Entry /\ j \in Entry
      /\ BlocksFor(file[1][2]) \in Nat /\ BlocksFor(file[2][2]) \in Nat
  BY FileTypes DEF Entry
<1> QED
  BY <1>1 DEF Start

-----------------------------------------------------------------------------
(* What append_primary finds out *)

\* An entry in the table: in bytes, its partition, or all there are.
LEMMA EntryBytes ==
  ASSUME IInv, NEW i \in Entry, ~ IsFree(i)
  PROVE  /\ file[i][1] \in 1 .. MaxRuns /\ file[i][2] \in Size /\ i \in 1 .. 3
         /\ BlocksFor(file[i][2]) \in Nat /\ BlocksFor(file[i][2]) < W
         /\ table[i].lba_first = Start(i) * BLOCK /\ table[i].length # 0
         /\ file[i][2] # 0 => /\ table[i].length * SECTOR = BlocksFor(file[i][2]) * BLOCK
                              /\ table[i].length = BlocksFor(file[i][2]) * 4
         /\ file[i][2] = 0 => table[i].length * SECTOR = WORD
<1> DEFINE b == BlocksFor(file[i][2])
<1>1. /\ file[i] \in (1 .. MaxRuns) \X Size /\ i <= 3
      /\ table[i] = [lba_first |-> Start(i) * BLOCK,
                     length |-> (IF file[i][2] = 0 THEN W ELSE b) * 4]
  BY DEF IInv, EntriesInv, ShownByPrint, W
<1>2. file[i][2] \in Size /\ b \in Nat /\ b < W /\ (b = 0 <=> file[i][2] = 0)
  <2>1. file[i][2] \in Size
    BY <1>1
  <2>2. b \in Nat /\ (b = 0 <=> file[i][2] = 0)
    BY FileTypes DEF IInv
  <2>3. 1 + 3 * b < W
    BY <2>1, Fits
  <2> QED
    BY <2>1, <2>2, <2>3, Numbers
<1> HIDE DEF b
<1>3. /\ table[i].lba_first = Start(i) * BLOCK
      /\ table[i].length = (IF file[i][2] = 0 THEN W ELSE b) * 4
  BY <1>1
<1>4. /\ W \in Nat \ {0} /\ (W * 4) * SECTOR = WORD /\ (b * 4) * SECTOR = b * BLOCK
  BY <1>2, Numbers, InSectors
<1>5. table[i].length # 0
  BY <1>2, <1>3, <1>4
<1>6. /\ file[i][2] # 0 => table[i].length * SECTOR = b * BLOCK /\ table[i].length = b * 4
      /\ file[i][2] = 0 => table[i].length * SECTOR = WORD
  BY <1>3, <1>4
<1>7. i \in 1 .. 3 /\ file[i][1] \in 1 .. MaxRuns
  BY <1>1 DEF Entry
<1> QED
  BY <1>2, <1>3, <1>5, <1>6, <1>7 DEF b

\* The program goes on with the first free entry, or not at all.
LEMMA GoesOn ==
  ASSUME IInv, ~ TableFull(LastRead)
  PROVE  LastRead \in 1 .. 3 /\ IsFree(LastRead) /\ \A j \in 1 .. (LastRead - 1) : ~ IsFree(j)
<1> DEFINE First(i) == IsFree(i) /\ \A j \in 1 .. (i - 1) : ~ IsFree(j)
<1>1. CASE \E i \in 1 .. 3 : IsFree(i)
  <2>1. \E i \in 1 .. 3 : First(i)
    <3>1. CASE IsFree(1)
      <4>1. First(1)
        BY <3>1
      <4> QED
        BY <4>1
    <3>2. CASE ~ IsFree(1) /\ IsFree(2)
      <4>1. \A j \in 1 .. (2 - 1) : j = 1
        OBVIOUS
      <4>2. First(2)
        BY <3>2, <4>1
      <4> QED
        BY <4>2
    <3>3. CASE ~ IsFree(1) /\ ~ IsFree(2)
      <4>1. \A j \in 1 .. (3 - 1) : j = 1 \/ j = 2
        OBVIOUS
      <4>2. PICK i \in 1 .. 3 : IsFree(i)
        BY <1>1
      <4>3. i = 3
        BY <3>3, <4>2
      <4>4. First(3)
        BY <3>3, <4>1, <4>2, <4>3
      <4> QED
        BY <4>4
    <3> QED
      BY <3>1, <3>2, <3>3
  <2>2. LastRead = CHOOSE i \in 1 .. 3 : First(i)
    BY <1>1 DEF LastRead
  <2> HIDE DEF First
  <2>3. LastRead \in 1 .. 3 /\ First(LastRead)
    BY <2>1, <2>2
  <2> QED
    BY <2>3 DEF First
<1>2. CASE ~ \E i \in 1 .. 3 : IsFree(i)
  <2>1. LastRead = 3 /\ ~ IsFree(3)
    BY <1>2 DEF LastRead
  <2>2. table[3].length # 0
    BY <2>1, EntryBytes DEF Entry
  <2> QED
    BY <2>1, <2>2 DEF TableFull
<1> QED
  BY <1>1, <1>2

\* What wraps around comes back to where it was.
LEMMA Wraps ==
  ASSUME NEW x \in 0 .. (WORD - 1), NEW e \in Nat
  PROVE  (x + e * WORD) % WORD = x
<1>1. WORD \in Nat \ {0}
  BY Numbers
<1>2. e * WORD \in Nat
  BY <1>1
<1> DEFINE y == e * WORD
           t == x + e * WORD
<1>3. t \in Nat /\ t = y + x /\ x \in Nat /\ x < WORD
  BY <1>1, <1>2
<1> HIDE DEF t
<1> QED
  BY <1>1, <1>3, Quotient DEF t

LEMMA FirstByte ==
  ASSUME IInv, NEW slot \in 1 .. 3, IsFree(slot), \A j \in 1 .. (slot - 1) : ~ IsFree(j),
         NEW s \in Size
  PROVE  first_byte(slot) = Start(slot) * BLOCK
<1> DEFINE Bytes(i) == IF i <= slot THEN table[i].length * SECTOR ELSE 0
           Mine(i) == IF i < slot THEN BlocksFor(file[i][2]) * BLOCK ELSE 0
           Laps(i) == IF i < slot /\ file[i][2] = 0 THEN 1 ELSE 0
<1>1. ASSUME NEW i \in 1 .. 3
      PROVE  /\ Mine(i) \in Nat /\ Laps(i) \in Nat /\ BlocksFor(file[i][2]) \in Nat
             /\ Bytes(i) = Mine(i) + Laps(i) * WORD
  <2>1. i \in Entry /\ WORD \in Nat /\ BLOCK \in Nat /\ SECTOR \in Nat
    BY Numbers DEF Entry
  <2>2. BlocksFor(file[i][2]) \in Nat /\ (BlocksFor(file[i][2]) = 0 <=> file[i][2] = 0)
    BY <2>1, FileTypes DEF IInv
  <2>3. CASE i < slot
    <3>1. ~ IsFree(i)
      BY <2>3
    <3>2. /\ file[i][2] # 0 => table[i].length * SECTOR = BlocksFor(file[i][2]) * BLOCK
          /\ file[i][2] = 0 => table[i].length * SECTOR = WORD
      BY <2>1, <3>1, EntryBytes
    <3>3. Bytes(i) = table[i].length * SECTOR
      BY <2>3
    <3>4. Mine(i) \in Nat /\ (file[i][2] = 0 => Mine(i) = 0)
      BY <2>1, <2>2, <2>3
    <3>5. (file[i][2] = 0 => Laps(i) = 1) /\ (file[i][2] # 0 => Laps(i) = 0)
      BY <2>3
    <3>6. file[i][2] # 0 => Mine(i) = table[i].length * SECTOR
      BY <2>3, <3>2
    <3> HIDE DEF Bytes, Mine, Laps
    <3>7. Bytes(i) = Mine(i) + Laps(i) * WORD
      <4>1. CASE file[i][2] = 0
        BY <2>1, <3>2, <3>3, <3>4, <3>5, <4>1
      <4>2. CASE file[i][2] # 0
        BY <2>1, <3>3, <3>4, <3>5, <3>6, <4>2
      <4> QED
        BY <4>1, <4>2
    <3> QED
      BY <2>2, <3>4, <3>5, <3>7
  <2>4. CASE i = slot
    <3>1. table[i].length = 0
      BY <2>4 DEF IsFree, Free
    <3>2. Bytes(i) = 0 /\ Mine(i) = 0 /\ Laps(i) = 0
      BY <2>1, <2>4, <3>1
    <3> QED
      BY <2>1, <2>2, <3>2
  <2>5. CASE i > slot
    <3>1. Bytes(i) = 0 /\ Mine(i) = 0 /\ Laps(i) = 0
      BY <2>5
    <3> QED
      BY <2>1, <2>2, <3>1
  <2> QED
    BY <2>3, <2>4, <2>5
<1>2. Start(slot) * BLOCK = BLOCK + Mine(1) + Mine(2) /\ Mine(3) = 0
  <2>1. /\ BlocksFor(file[1][2]) \in Nat /\ BlocksFor(file[2][2]) \in Nat /\ BLOCK \in Nat
    BY <1>1, Numbers
  <2>2. Mine(3) = 0
    OBVIOUS
  <2>3. CASE slot = 1
    BY <2>1, <2>2, <2>3 DEF Start
  <2>4. CASE slot = 2
    BY <2>1, <2>2, <2>4 DEF Start
  <2>5. CASE slot = 3
    BY <2>1, <2>2, <2>5 DEF Start
  <2> QED
    BY <2>3, <2>4, <2>5
<1>3. Start(slot) * BLOCK \in 0 .. (WORD - 1)
  BY StartFits DEF IInv, Entry
<1>4. first_byte(slot) = (BLOCK + Bytes(1) + Bytes(2) + Bytes(3)) % WORD
  BY DEF first_byte
<1>5. /\ Bytes(1) = Mine(1) + Laps(1) * WORD /\ Bytes(2) = Mine(2) + Laps(2) * WORD
      /\ Bytes(3) = Mine(3) + Laps(3) * WORD
      /\ Mine(1) \in Nat /\ Mine(2) \in Nat /\ Mine(3) \in Nat
      /\ Laps(1) \in Nat /\ Laps(2) \in Nat /\ Laps(3) \in Nat
  BY <1>1
<1> DEFINE e == Laps(1) + Laps(2) + Laps(3)
           x == Start(slot) * BLOCK
<1> HIDE DEF Bytes, Mine, Laps
<1>6. BLOCK + Bytes(1) + Bytes(2) + Bytes(3) = x + e * WORD /\ e \in Nat
  <2>1. /\ e * WORD = Laps(1) * WORD + Laps(2) * WORD + Laps(3) * WORD
        /\ Laps(1) * WORD \in Nat /\ Laps(2) * WORD \in Nat /\ Laps(3) * WORD \in Nat
        /\ e \in Nat
    BY <1>5, Numbers
  <2> HIDE DEF e, x
  <2>2. x = BLOCK + Mine(1) + Mine(2) /\ Mine(3) = 0 /\ BLOCK \in Nat
    BY <1>2, Numbers DEF x
  <2> QED
    BY <1>5, <2>1, <2>2
<1> HIDE DEF e, x
<1> QED
  BY <1>3, <1>4, <1>6, Wraps DEF x

\* The image after a block is written, within it or behind its end.
LEMMA WrittenIs ==
  ASSUME TypeOK, NEW b \in Nat, b < W, NEW content \in (1 .. MaxRuns) \X (0 .. W), NEW new,
         new = Written(b * BLOCK, content)
  PROVE  /\ new \in Seq({Nothing, Boot} \cup ((1 .. MaxRuns) \X (0 .. W))) /\ Len(new) <= W
         /\ Len(image) <= Len(new) /\ b < Len(new) /\ new[b + 1] = content
         /\ \A k \in 1 .. Len(image) : k # b + 1 => new[k] = image[k]
<1> DEFINE Content == {Nothing, Boot} \cup ((1 .. MaxRuns) \X (0 .. W))
           top == IF b + 1 > Len(image) THEN b + 1 ELSE Len(image)
<1>1. /\ image \in Seq(Content) /\ Len(image) <= W /\ Len(image) \in Nat
      /\ BLOCK \in Nat \ {0} /\ W \in Nat
  BY Numbers DEF TypeOK, W
<1>2. AtBlock(b * BLOCK) = b + 1
  <2>1. b * BLOCK \in Nat /\ b * BLOCK = b * BLOCK + 0
    BY <1>1
  <2>2. (b * BLOCK) \div BLOCK = b
    BY <1>1, <2>1, Quotient
  <2> QED
    BY <2>2 DEF AtBlock
<1>3. new = [k \in 1 .. top |->
               IF k = b + 1 THEN content ELSE IF k <= Len(image) THEN image[k] ELSE Nothing]
  BY <1>2 DEF Written
<1>4. top \in Nat /\ top <= W /\ Len(image) <= top /\ b < top
  BY <1>1
<1>5. content \in Content /\ Nothing \in Content /\ \A k \in 1 .. Len(image) : image[k] \in Content
  BY <1>1
<1> HIDE DEF top, Content
<1>6. \A k \in 1 .. top : new[k] \in Content
  BY <1>1, <1>3, <1>4, <1>5
<1>7. new \in Seq(Content) /\ Len(new) = top
  BY <1>3, <1>4, <1>6
<1>8. new[b + 1] = content
  BY <1>3, <1>4
<1>9. \A k \in 1 .. Len(image) : k # b + 1 => new[k] = image[k]
  BY <1>1, <1>3, <1>4
<1> QED
  BY <1>4, <1>7, <1>8, <1>9 DEF Content

-----------------------------------------------------------------------------
(* The invariant *)

\* No image and no run is a state of the invariant.
LEMMA InitIInv == Init => IInv
<1> SUFFICES ASSUME Init PROVE IInv
  OBVIOUS
<1>1. \A i \in Entry : IsFree(i) /\ file[i] = Nothing
  BY DEF Init, IsFree
<1>2. image = <<>> /\ job = None /\ runs = 0
  BY DEF Init
<1>3. TypeOK
  <2>1. image \in Seq({Nothing, Boot} \cup ((1 .. MaxRuns) \X (0 .. W))) /\ Len(image) <= W
    BY <1>2, Numbers
  <2>2. table \in [Entry -> [lba_first : 0 .. (WORD - 1), length : 0 .. (WORD - 1)]]
    BY Numbers DEF Init, Free
  <2>3. /\ job \in [at : {"none", "create", "copy"}, slot : 0 .. 4, lba_first : 0 .. (WORD - 1),
                    length : Nat, size : Size \cup {0}]
        /\ job.length <= job.size
    BY <1>2, Numbers DEF None
  <2>4. file \in [Entry -> (0 .. MaxRuns) \X (Size \cup {0})] /\ runs \in 0 .. MaxRuns
    BY <1>2, Numbers DEF Init, Nothing
  <2> QED
    BY <2>1, <2>2, <2>3, <2>4 DEF TypeOK, W
<1>4. EntriesInv /\ BlocksInv
  BY <1>1 DEF EntriesInv, BlocksInv, ShownByPrint
<1>5. JobInv
  BY <1>2 DEF JobInv, None
<1> QED
  BY <1>3, <1>4, <1>5 DEF IInv

\* No run is in progress afterwards, and none has changed the table.
LEMMA NoJob ==
  ASSUME IInv, job' = None, UNCHANGED <<table, file>>, runs' \in 0 .. MaxRuns,
         image' = image \/ /\ image' = <<Boot>> /\ \A i \in Entry : IsFree(i)
  PROVE  IInv'
<1>1. TypeOK'
  <2>1. image' \in Seq({Nothing, Boot} \cup ((1 .. MaxRuns) \X (0 .. W))) /\ Len(image') <= W
    <3>1. CASE image' = image
      BY <3>1 DEF IInv, TypeOK, W
    <3>2. CASE image' = <<Boot>>
      BY <3>2, Numbers
    <3> QED
      BY <3>1, <3>2
  <2>2. /\ job' \in [at : {"none", "create", "copy"}, slot : 0 .. 4, lba_first : 0 .. (WORD - 1),
                     length : Nat, size : Size \cup {0}]
        /\ job'.length <= job'.size
    BY Numbers DEF None
  <2> QED
    BY <2>1, <2>2 DEF IInv, TypeOK, W
<1>2. EntriesInv'
  BY DEF IInv, EntriesInv, ShownByPrint, IsFree, Start
<1>3. BlocksInv'
  BY DEF IInv, BlocksInv, HoldsBlocks, IsFree, Start
<1>4. JobInv'
  BY DEF JobInv, None
<1> QED
  BY <1>1, <1>2, <1>3, <1>4 DEF IInv

LEMMA OpenForCreate ==
  ASSUME IInv, create_open
  PROVE  IInv'
<1>1. /\ table' = [i \in Entry |-> Free] /\ file' = [i \in Entry |-> Nothing]
      /\ image' = <<>> /\ runs' = runs + 1 /\ runs < MaxRuns
      /\ job' = [at |-> "create", slot |-> 0, lba_first |-> 0, length |-> 0, size |-> 0]
  BY DEF create_open, Begin, None
<1>0. \A i \in Entry : IsFree(i)' /\ file'[i] = Nothing
  BY <1>1 DEF IsFree
<1>2. TypeOK'
  <2>1. image' \in Seq({Nothing, Boot} \cup ((1 .. MaxRuns) \X (0 .. W))) /\ Len(image') <= W
    BY <1>1, Numbers
  <2>2. table' \in [Entry -> [lba_first : 0 .. (WORD - 1), length : 0 .. (WORD - 1)]]
    BY <1>1, Numbers DEF Free
  <2>3. /\ job' \in [at : {"none", "create", "copy"}, slot : 0 .. 4, lba_first : 0 .. (WORD - 1),
                     length : Nat, size : Size \cup {0}]
        /\ job'.length <= job'.size
    BY <1>1, Numbers
  <2>4. file' \in [Entry -> (0 .. MaxRuns) \X (Size \cup {0})] /\ runs' \in 0 .. MaxRuns
    BY <1>1, Numbers DEF IInv, TypeOK, Nothing
  <2> QED
    BY <2>1, <2>2, <2>3, <2>4 DEF TypeOK, W
<1>3. EntriesInv' /\ BlocksInv'
  BY <1>0 DEF EntriesInv, BlocksInv, ShownByPrint
<1>4. JobInv'
  BY <1>0, <1>1 DEF JobInv
<1> QED
  BY <1>2, <1>3, <1>4 DEF IInv

LEMMA OpenForAppend ==
  ASSUME IInv, NEW size \in Size, append_open(size)
  PROVE  IInv'
<1>1. PICK slot \in 1 .. 3 : slot = LastRead /\ IsFree(slot) /\ \A j \in 1 .. (slot - 1) : ~ IsFree(j)
  <2>1. ~ TableFull(LastRead)
    BY DEF append_open
  <2> QED
    BY <2>1, GoesOn
<1>2. first_byte(slot) = Start(slot) * BLOCK /\ Start(slot) * BLOCK \in 0 .. (WORD - 1)
  <2>1. slot \in Entry
    BY <1>1 DEF Entry
  <2> QED
    BY <1>1, <2>1, FirstByte, StartFits DEF IInv
<1>3. /\ job' = [at |-> "copy", slot |-> slot, lba_first |-> Start(slot) * BLOCK,
                 length |-> 0, size |-> size]
      /\ runs' = runs + 1 /\ UNCHANGED <<image, table, file>>
  BY <1>1, <1>2 DEF append_open, Begin
<1>4. runs \in 0 .. MaxRuns /\ runs < MaxRuns
  BY DEF IInv, TypeOK, append_open, Begin
<1>5. TypeOK'
  <2>1. /\ job' \in [at : {"none", "create", "copy"}, slot : 0 .. 4, lba_first : 0 .. (WORD - 1),
                     length : Nat, size : Size \cup {0}]
        /\ job'.length <= job'.size
    BY <1>1, <1>2, <1>3, Numbers
  <2>2. runs' \in 0 .. MaxRuns
    BY <1>3, <1>4, Numbers
  <2> QED
    BY <1>3, <2>1, <2>2 DEF IInv, TypeOK
<1>6. EntriesInv'
  BY <1>3 DEF IInv, EntriesInv, ShownByPrint, IsFree, Start
<1>7. BlocksInv'
  BY <1>3 DEF IInv, BlocksInv, HoldsBlocks, IsFree, Start
<1>8. JobInv'
  <2>1. 0 % BLOCK = 0 /\ BlocksFor(0) = 0
    BY Numbers, Quotient DEF BlocksFor
  <2>2. /\ job'.at = "copy" /\ job'.slot = slot /\ job'.lba_first = Start(slot) * BLOCK
        /\ job'.length = 0 /\ job'.size = size
    BY <1>3
  <2>3. runs' > 0
    BY <1>3, <1>4
  <2>4. IsFree(slot)' /\ \A j \in 1 .. (slot - 1) : ~ IsFree(j)'
    BY <1>1, <1>3 DEF IsFree
  <2>5. Start(slot)' = Start(slot)
    BY <1>3 DEF Start
  <2>6. HoldsBlocks(slot, runs, BlocksFor(0))'
    BY <2>1 DEF HoldsBlocks
  <2> QED
    BY <1>1, <2>1, <2>2, <2>3, <2>4, <2>5, <2>6 DEF JobInv
<1> QED
  BY <1>5, <1>6, <1>7, <1>8 DEF IInv

LEMMA Copy ==
  ASSUME IInv, append_copy
  PROVE  IInv'
<1>0. /\ job.slot \in 1 .. 3 /\ job.size \in Size /\ job.length \in Nat
      /\ job.length % BLOCK = 0 /\ job.length \div BLOCK \in Nat
  <2>1. job.at = "copy" /\ job.length < job.size /\ job.length \in Nat
    BY DEF append_copy, IInv, TypeOK
  <2>2. /\ job.slot \in 1 .. 3 /\ job.size \in Size /\ job.size \in Nat
        /\ (job.length = job.size \/ job.length % BLOCK = 0)
    BY <2>1, Numbers DEF IInv, JobInv
  <2>3. job.length \div BLOCK \in Nat
    BY <2>1, Numbers, Division
  <2> QED
    BY <2>1, <2>2, <2>3
<1>a. PICK slot \in 1 .. 3, size \in Size, q \in Nat :
        slot = job.slot /\ size = job.size /\ q = job.length \div BLOCK
  BY <1>0
<1> DEFINE next == IF job.length + BLOCK < size THEN job.length + BLOCK ELSE size
           b == Start(slot) + q
<1>1. /\ job.at = "copy" /\ job.length < size
      /\ image' = Written(job.lba_first + BLOCK * q, <<runs, q>>)
      /\ job' = [job EXCEPT !.length = next]
      /\ UNCHANGED <<table, runs, file>>
  BY <1>a DEF append_copy
<1>2. /\ runs \in 1 .. MaxRuns /\ slot \in Entry
      /\ IsFree(slot) /\ \A j \in 1 .. (slot - 1) : ~ IsFree(j)
      /\ job.lba_first = Start(slot) * BLOCK /\ size \in Nat
      /\ job.length \in Nat /\ job.length % BLOCK = 0
      /\ HoldsBlocks(slot, runs, BlocksFor(job.length))
  <2>1. /\ runs > 0 /\ IsFree(slot) /\ \A j \in 1 .. (slot - 1) : ~ IsFree(j)
        /\ job.lba_first = Start(slot) * BLOCK
        /\ HoldsBlocks(slot, runs, BlocksFor(job.length))
    BY <1>a, <1>1 DEF IInv, JobInv
  <2>2. runs \in 0 .. MaxRuns
    BY DEF IInv, TypeOK
  <2>3. runs \in 1 .. MaxRuns
    BY <2>1, <2>2, Numbers
  <2> QED
    BY <1>0, <2>1, <2>3, Numbers DEF Entry
<1>3. BLOCK \in Nat \ {0} /\ W \in Nat \ {0}
  BY Numbers
<1>4. q \in Nat /\ job.length = q * BLOCK /\ (q + 1) * BLOCK = q * BLOCK + BLOCK
  <2>1. q \in Nat /\ job.length = q * BLOCK + (job.length % BLOCK)
    BY <1>a, <1>2, <1>3, Division
  <2> QED
    BY <1>2, <1>3, <2>1, Factor
<1>5. /\ next \in Nat /\ job.length < next /\ next <= size /\ next <= job.length + BLOCK
      /\ (next = size \/ next = job.length + BLOCK)
  BY <1>1, <1>2, <1>3
<1> HIDE DEF next
<1>6. BlocksFor(job.length) = q /\ BlocksFor(next) = q + 1
  <2> DEFINE x == q * BLOCK
  <2>1. /\ x \in Nat /\ job.length = x /\ (q + 1) * BLOCK = x + BLOCK
        /\ next <= x + BLOCK /\ x + BLOCK < next + BLOCK /\ x < x + BLOCK
    <3>1. x \in Nat
      BY <1>3, <1>4
    <3>2. job.length = x /\ (q + 1) * BLOCK = x + BLOCK
      BY <1>4
    <3> HIDE DEF x
    <3> QED
      BY <1>3, <1>5, <3>1, <3>2
  <2>2. BlocksFor(job.length) = q
    <3>1. job.length <= q * BLOCK /\ q * BLOCK < job.length + BLOCK
      BY <2>1
    <3> QED
      BY <1>2, <1>4, <3>1, CeilingIs
  <2>3. BlocksFor(next) = q + 1
    <3>1. next <= (q + 1) * BLOCK /\ (q + 1) * BLOCK < next + BLOCK /\ q + 1 \in Nat
      BY <1>4, <2>1
    <3> QED
      BY <1>5, <3>1, CeilingIs
  <2> QED
    BY <2>2, <2>3
<1>7. b \in Nat /\ b < W /\ q < W /\ Start(slot) \in Nat \ {0}
  <2>1. /\ Start(slot) \in Nat \ {0} /\ BlocksFor(size) \in Nat /\ Start(slot) + BlocksFor(size) < W
    BY <1>2, StartFits DEF IInv
  <2>2. q * BLOCK < BlocksFor(size) * BLOCK
    <3> DEFINE y == BlocksFor(size) * BLOCK
    <3>1. y \in Nat /\ size <= y
      BY <1>2, Ceiling
    <3> HIDE DEF y
    <3>2. job.length < y
      BY <1>1, <1>2, <3>1
    <3> QED
      BY <1>4, <3>2 DEF y
  <2>3. q < BlocksFor(size)
    BY <1>3, <1>4, <2>1, <2>2, Factor
  <2> QED
    BY <1>3, <1>4, <2>1, <2>3
<1>8. image' = Written(b * BLOCK, <<runs, q>>)
  <2>1. b * BLOCK = Start(slot) * BLOCK + BLOCK * q
    BY <1>3, <1>4, <1>7
  <2> QED
    BY <1>1, <1>2, <2>1
<1> HIDE DEF b
<1>9. /\ image' \in Seq({Nothing, Boot} \cup ((1 .. MaxRuns) \X (0 .. W))) /\ Len(image') <= W
      /\ Len(image) <= Len(image') /\ b < Len(image') /\ image'[b + 1] = <<runs, q>>
      /\ \A k \in 1 .. Len(image) : k # b + 1 => image'[k] = image[k]
      /\ Len(image) \in Nat /\ Len(image') \in Nat
  <2>1. <<runs, q>> \in (1 .. MaxRuns) \X (0 .. W)
    BY <1>2, <1>3, <1>4, <1>7
  <2>2. Len(image) \in Nat
    BY DEF IInv, TypeOK
  <2>3. /\ image' \in Seq({Nothing, Boot} \cup ((1 .. MaxRuns) \X (0 .. W))) /\ Len(image') <= W
        /\ Len(image) <= Len(image') /\ b < Len(image') /\ image'[b + 1] = <<runs, q>>
        /\ \A k \in 1 .. Len(image) : k # b + 1 => image'[k] = image[k]
    BY <1>7, <1>8, <2>1, WrittenIs DEF IInv
  <2> QED
    BY <2>2, <2>3
<1>10. job' = [at |-> "copy", slot |-> slot, lba_first |-> job.lba_first,
               length |-> next, size |-> size]
  BY <1>a, <1>1 DEF IInv, TypeOK
<1>11. TypeOK'
  <2>1. /\ job' \in [at : {"none", "create", "copy"}, slot : 0 .. 4, lba_first : 0 .. (WORD - 1),
                     length : Nat, size : Size \cup {0}]
        /\ job'.length <= job'.size
    <3>1. job.lba_first \in 0 .. (WORD - 1)
      BY DEF IInv, TypeOK
    <3> QED
      BY <1>2, <1>5, <1>10, <3>1
  <2> QED
    BY <1>1, <1>9, <2>1 DEF IInv, TypeOK, W
<1>12. EntriesInv'
  BY <1>1 DEF IInv, EntriesInv, ShownByPrint, IsFree, Start
<1>13. BlocksInv'
  <2> SUFFICES ASSUME NEW i \in Entry, ~ IsFree(i), NEW k \in 0 .. (BlocksFor(file[i][2]) - 1)
               PROVE  Start(i) + k < Len(image') /\ image'[Start(i) + k + 1] = <<file[i][1], k>>
    BY <1>1 DEF BlocksInv, HoldsBlocks, IsFree, Start
  <2>1. Start(i) + k < Len(image) /\ image[Start(i) + k + 1] = <<file[i][1], k>>
    BY DEF IInv, BlocksInv, HoldsBlocks
  <2>2. i \in 1 .. 3 /\ BlocksFor(file[i][2]) \in Nat
    BY EntryBytes
  <2>3. i < slot
    <3>1. i # slot
      BY <1>2
    <3>2. ~ (i > slot)
      <4>1. \A j \in 1 .. i : ~ IsFree(j)
        BY DEF IInv, EntriesInv, ShownByPrint
      <4>2. i > slot => slot \in 1 .. i
        BY <1>2, <2>2
      <4> QED
        BY <1>2, <4>1, <4>2
    <3> QED
      BY <1>2, <2>2, <3>1, <3>2
  <2>4. Start(i) + BlocksFor(file[i][2]) <= Start(slot)
    BY <1>2, <2>2, <2>3, Behind DEF IInv
  <2>5. Start(i) \in Nat
    BY <1>2, StartFits DEF IInv
  <2>6. Start(i) + k + 1 \in 1 .. Len(image) /\ Start(i) + k + 1 # b + 1
    <3> DEFINE c == BlocksFor(file[i][2])
               l == Len(image)
               x == Start(i)
               y == Start(slot)
    <3>1. x + c <= y /\ x \in Nat /\ y \in Nat /\ c \in Nat /\ l \in Nat /\ x + k < l /\ k \in 0 .. (c - 1) /\ b = y + q
      BY <1>7, <1>9, <2>1, <2>2, <2>4, <2>5 DEF b
    <3> HIDE DEF c, l, x, y
    <3>2. x + k + 1 \in 1 .. l /\ x + k + 1 # b + 1
      BY <3>1
    <3> QED
      BY <3>2 DEF l, x
  <2> QED
    BY <1>9, <2>1, <2>5, <2>6
<1>14. JobInv'
  <2>1. /\ job'.at = "copy" /\ job'.slot = slot /\ job'.lba_first = job.lba_first
        /\ job'.length = next /\ job'.size = size /\ runs' = runs
    BY <1>1, <1>10
  <2>2. IsFree(slot)' /\ \A j \in 1 .. (slot - 1) : ~ IsFree(j)'
    BY <1>1, <1>2 DEF IsFree
  <2>4. next = size \/ next % BLOCK = 0
    <3>1. CASE next = job.length + BLOCK
      <4>1. next = (q + 1) * BLOCK + 0 /\ q + 1 \in Nat
        <5> DEFINE x == q * BLOCK
        <5>1. x \in Nat /\ job.length = x /\ (q + 1) * BLOCK = x + BLOCK
          BY <1>3, <1>4
        <5> HIDE DEF x
        <5> QED
          BY <1>3, <1>4, <3>1, <5>1
      <4> QED
        BY <1>3, <1>5, <4>1, Quotient
    <3> QED
      BY <1>5, <3>1
  <2>5. ASSUME NEW k \in 0 .. q
        PROVE  Start(slot) + k < Len(image') /\ image'[Start(slot) + k + 1] = <<runs, k>>
    <3>1. CASE k = q
      BY <1>9, <3>1 DEF b
    <3>2. CASE k # q
      <4>1. k \in 0 .. (q - 1)
        BY <1>4, <3>2
      <4>2. Start(slot) + k < Len(image) /\ image[Start(slot) + k + 1] = <<runs, k>>
        BY <1>2, <1>6, <4>1 DEF HoldsBlocks
      <4>3. Start(slot) + k + 1 \in 1 .. Len(image) /\ Start(slot) + k + 1 # b + 1
        BY <1>4, <1>7, <1>9, <4>1, <4>2 DEF b
      <4> QED
        BY <1>7, <1>9, <4>1, <4>2, <4>3
    <3> QED
      BY <3>1, <3>2
  <2>6. Start(slot)' = Start(slot)
    BY <1>1 DEF Start
  <2>7. HoldsBlocks(slot, runs, q + 1)'
    BY <1>1, <2>5, <2>6 DEF HoldsBlocks
  <2> QED
    BY <1>2, <1>6, <2>1, <2>2, <2>4, <2>6, <2>7 DEF JobInv
<1> QED
  BY <1>11, <1>12, <1>13, <1>14 DEF IInv

LEMMA WriteEntry ==
  ASSUME IInv, append_entry
  PROVE  IInv'
<1>1. PICK slot \in 1 .. 3, size \in Size :
        /\ job.at = "copy" /\ slot = job.slot /\ size = job.size /\ size = job.length
        /\ job.lba_first = Start(slot) * BLOCK
        /\ IsFree(slot) /\ \A j \in 1 .. (slot - 1) : ~ IsFree(j)
        /\ HoldsBlocks(slot, runs, BlocksFor(size)) /\ runs > 0
  BY DEF IInv, JobInv, append_entry
<1> DEFINE sectors_of == (IF size = 0 THEN W ELSE BlocksFor(size)) * 4
           new == [lba_first |-> Start(slot) * BLOCK, length |-> sectors_of]
<1>2. /\ table' = [table EXCEPT ![slot] = new] /\ file' = [file EXCEPT ![slot] = <<runs, size>>]
      /\ job' = None /\ UNCHANGED <<image, runs>>
  <2>1. sectors(size) = sectors_of
    BY Sectors
  <2> HIDE DEF sectors_of
  <2> QED
    BY <1>1, <2>1 DEF append_entry, Exit
<1>3. /\ slot \in Entry /\ runs \in 1 .. MaxRuns /\ size \in Nat
      /\ Start(slot) * BLOCK \in 0 .. (WORD - 1)
      /\ sectors_of \in 0 .. (WORD - 1) /\ sectors_of # 0
  <2>1. slot \in Entry
    BY DEF Entry
  <2>2. /\ BlocksFor(size) \in Nat /\ 1 + 3 * BlocksFor(size) < W /\ size \in Nat
        /\ (BlocksFor(size) = 0 <=> size = 0) /\ W \in Nat \ {0}
    BY Fits, Ceiling, Numbers
  <2>3. /\ (IF size = 0 THEN W ELSE BlocksFor(size)) \in Nat \ {0}
        /\ (IF size = 0 THEN W ELSE BlocksFor(size)) <= W
    BY <2>2
  <2>4. sectors_of \in 0 .. (WORD - 1) /\ sectors_of # 0
    BY <2>3, InSectors
  <2>5. Start(slot) * BLOCK \in 0 .. (WORD - 1)
    BY <2>1, StartFits DEF IInv
  <2>6. runs \in 1 .. MaxRuns
    BY <1>1, Numbers DEF IInv, TypeOK
  <2> QED
    BY <2>1, <2>2, <2>4, <2>5, <2>6
<1> HIDE DEF sectors_of
<1>4. /\ ~ IsFree(slot)' /\ file'[slot] = <<runs, size>> /\ table'[slot] = new
      /\ \A i \in Entry : i # slot => /\ IsFree(i)' = IsFree(i) /\ file'[i] = file[i]
                                      /\ table'[i] = table[i]
  <2>1. table \in [Entry -> [lba_first : 0 .. (WORD - 1), length : 0 .. (WORD - 1)]]
    BY DEF IInv, TypeOK
  <2>2. file \in [Entry -> (0 .. MaxRuns) \X (Size \cup {0})]
    BY DEF IInv, TypeOK
  <2>3. table'[slot] = new /\ file'[slot] = <<runs, size>>
    BY <1>2, <1>3, <2>1, <2>2
  <2>4. new # Free
    BY <1>3 DEF Free
  <2>5. \A i \in Entry : i # slot => file'[i] = file[i] /\ table'[i] = table[i]
    BY <1>2, <2>1, <2>2
  <2>6. ~ IsFree(slot)'
    BY <2>3, <2>4 DEF IsFree
  <2>7. \A i \in Entry : i # slot => IsFree(i)' = IsFree(i)
    BY <2>5 DEF IsFree
  <2> QED
    BY <2>3, <2>5, <2>6, <2>7
\* The entries in use are those up to this one, which start where they did.
<1>5. ASSUME NEW i \in Entry
      PROVE  (IsFree(i)' <=> i > slot) /\ (i # slot => (IsFree(i) <=> i > slot))
             /\ (i <= slot => Start(i)' = Start(i)) /\ i \in 1 .. 4
  <2>1. i > slot => IsFree(i)
    <3>1. ~ IsFree(i) => \A j \in 1 .. i : ~ IsFree(j)
      BY DEF IInv, EntriesInv, ShownByPrint
    <3>2. i > slot => slot \in 1 .. i
      BY DEF Entry
    <3> QED
      BY <1>1, <3>1, <3>2
  <2>2. i < slot => ~ IsFree(i)
    BY <1>1 DEF Entry
  <2>3. i \in 1 .. 4
    BY DEF Entry
  <2>4. i # slot => (IsFree(i) <=> i > slot)
    BY <2>1, <2>2, <2>3
  <2>5. IsFree(i)' <=> i > slot
    <3>1. CASE i = slot
      BY <1>4, <3>1
    <3>2. CASE i # slot
      BY <1>4, <2>4, <3>2
    <3> QED
      BY <3>1, <3>2
  <2>6. i <= slot => Start(i)' = Start(i)
    <3>1. 1 \in Entry /\ 2 \in Entry
      BY DEF Entry
    <3>2. (slot # 1 => file'[1] = file[1]) /\ (slot # 2 => file'[2] = file[2])
      BY <1>4, <3>1
    <3> QED
      BY <2>3, <3>2 DEF Start
  <2> QED
    BY <2>3, <2>4, <2>5, <2>6
<1>6. TypeOK'
  <2>1. new \in [lba_first : 0 .. (WORD - 1), length : 0 .. (WORD - 1)]
    BY <1>3
  <2> HIDE DEF new
  <2>2. /\ table' \in [Entry -> [lba_first : 0 .. (WORD - 1), length : 0 .. (WORD - 1)]]
        /\ file' \in [Entry -> (0 .. MaxRuns) \X (Size \cup {0})]
    BY <1>2, <1>3, <2>1 DEF IInv, TypeOK
  <2>3. /\ job' \in [at : {"none", "create", "copy"}, slot : 0 .. 4, lba_first : 0 .. (WORD - 1),
                     length : Nat, size : Size \cup {0}]
        /\ job'.length <= job'.size
    BY <1>2, Numbers DEF None
  <2> QED
    BY <1>2, <2>2, <2>3 DEF IInv, TypeOK
<1>7. EntriesInv'
  <2>1. ShownByPrint'
    BY <1>5 DEF ShownByPrint, Entry
  <2>2. ASSUME NEW i \in Entry, IsFree(i)'
        PROVE  file'[i] = Nothing
    <3>1. i # slot /\ IsFree(i)
      BY <1>4, <1>5, <2>2
    <3> QED
      BY <1>4, <3>1 DEF IInv, EntriesInv
  <2>3. ASSUME NEW i \in Entry, ~ IsFree(i)'
        PROVE  /\ file'[i] \in (1 .. MaxRuns) \X Size
               /\ table'[i] = [lba_first |-> Start(i)' * BLOCK,
                               length |-> (IF file'[i][2] = 0 THEN WORD \div BLOCK
                                           ELSE BlocksFor(file'[i][2])) * 4]
    <3>1. i <= slot /\ Start(i)' = Start(i)
      BY <1>5, <2>3
    <3>2. CASE i = slot
      <4>1. file'[i] \in (1 .. MaxRuns) \X Size /\ file'[i][2] = size
        <5>1. <<runs, size>> \in (1 .. MaxRuns) \X Size /\ <<runs, size>>[2] = size
          BY <1>3
        <5>2. file'[i] = <<runs, size>>
          BY <1>4, <3>2
        <5> QED
          BY <5>1, <5>2
      <4>2. table'[i] = new
        BY <1>4, <3>2
      <4> QED
        BY <3>1, <3>2, <4>1, <4>2 DEF sectors_of, W
    <3>3. CASE i # slot
      <4>1. ~ IsFree(i) /\ file'[i] = file[i] /\ table'[i] = table[i]
        BY <1>4, <2>3, <3>3
      <4> QED
        BY <3>1, <4>1 DEF IInv, EntriesInv
    <3> QED
      BY <3>2, <3>3
  <2>4. ASSUME NEW i \in Entry
        PROVE  BlocksFor(file[i][2])' = BlocksFor(file'[i][2])
    BY DEF BlocksFor
  <2> QED
    BY <2>1, <2>2, <2>3, <2>4 DEF EntriesInv
<1>8. BlocksInv'
  <2> SUFFICES ASSUME NEW i \in Entry, ~ IsFree(i)'
               PROVE  \A k \in 0 .. (BlocksFor(file'[i][2]) - 1) :
                        Start(i) + k < Len(image) /\ image[Start(i) + k + 1] = <<file'[i][1], k>>
    <3>1. \A i \in Entry : ~ IsFree(i)' => Start(i)' = Start(i)
      BY <1>5
    <3> QED
      BY <1>2, <3>1 DEF BlocksInv, HoldsBlocks
  <2>1. CASE i = slot
    <3>1. file'[i][1] = runs /\ file'[i][2] = size
      BY <1>4, <2>1
    <3> QED
      BY <1>1, <2>1, <3>1 DEF HoldsBlocks
  <2>2. CASE i # slot
    <3>1. ~ IsFree(i) /\ file'[i] = file[i]
      BY <1>4, <2>2
    <3> QED
      BY <3>1 DEF IInv, BlocksInv, HoldsBlocks
  <2> QED
    BY <2>1, <2>2
<1>9. JobInv'
  BY <1>2 DEF JobInv, None
<1> QED
  BY <1>6, <1>7, <1>8, <1>9 DEF IInv

\* Every run of mkvdisk, whole or killed, keeps the invariant.
LEMMA StepKeeps ==
  ASSUME IInv, [Next]_vars
  PROVE  IInv'
<1>1. runs \in 0 .. MaxRuns /\ MaxRuns \in Nat
  BY Numbers DEF IInv, TypeOK
<1>2. CASE create_open
  BY <1>2, OpenForCreate
<1>3. CASE create_write
  <2>1. image' = <<Boot>> /\ (\A i \in Entry : IsFree(i)) /\ job' = None
    BY <1>3 DEF create_write, Exit, IInv, JobInv
  <2>2. UNCHANGED <<table, file>> /\ runs' \in 0 .. MaxRuns
    BY <1>1, <1>3 DEF create_write
  <2> QED
    BY <2>1, <2>2, NoJob
<1>4. CASE \E size \in Size : append_open(size)
  BY <1>4, OpenForAppend
<1>5. CASE append_fails
  <2>1. job' = None /\ runs' = runs + 1 /\ runs < MaxRuns /\ UNCHANGED <<image, table, file>>
    BY <1>5 DEF append_fails, Begin
  <2>2. runs' \in 0 .. MaxRuns
    BY <1>1, <2>1
  <2> QED
    BY <2>1, <2>2, NoJob
<1>6. CASE append_copy
  BY <1>6, Copy
<1>7. CASE append_entry
  BY <1>7, WriteEntry
<1>8. CASE killed
  <2>1. job' = None /\ UNCHANGED <<image, table, file>> /\ runs' \in 0 .. MaxRuns
    BY <1>1, <1>8 DEF killed, Exit
  <2> QED
    BY <2>1, NoJob
<1>9. CASE UNCHANGED vars
  BY <1>9 DEF vars, IInv, TypeOK, EntriesInv, BlocksInv, JobInv, ShownByPrint, HoldsBlocks,
              IsFree, Start
<1> QED
  BY <1>2, <1>3, <1>4, <1>5, <1>6, <1>7, <1>8, <1>9 DEF Next

\* Entries are one behind the other, and a run that appends works on the
\* first free one, behind all partitions: after any number of runs.
THEOREM Invariance == Spec => []IInv
<1>1. IInv /\ [Next]_vars => IInv'
  BY StepKeeps
<1> QED
  BY <1>1, InitIInv, PTL DEF Spec

-----------------------------------------------------------------------------
(* What follows *)

\* A partition in blocks.
LEMMA InBlocks ==
  ASSUME IInv, NEW i \in Partition
  PROVE  /\ i \in 1 .. 3 /\ ~ IsFree(i) /\ Start(i) \in Nat \ {0} /\ BlocksFor(file[i][2]) \in Nat
         /\ table[i].lba_first \div BLOCK = Start(i)
         /\ file[i][2] <= table[i].length * SECTOR
         /\ BlocksOf(i) = {Start(i) + k : k \in 0 .. (BlocksFor(file[i][2]) - 1)}
<1> DEFINE b == BlocksFor(file[i][2])
<1>1. i \in Entry /\ file[i][2] > 0
  BY DEF Partition
<1>2. file[i][2] \in Nat
  BY <1>1, FileTypes DEF IInv
<1>3. ~ IsFree(i)
  <2>1. IsFree(i) => file[i] = Nothing
    BY <1>1 DEF IInv, EntriesInv
  <2>2. Nothing[2] = 0
    BY DEF Nothing
  <2> QED
    BY <1>1, <1>2, <2>1, <2>2
<1>4. /\ file[i][2] \in Size /\ i \in 1 .. 3 /\ table[i].lba_first = Start(i) * BLOCK
      /\ table[i].length * SECTOR = b * BLOCK /\ b \in Nat
  BY <1>1, <1>2, <1>3, EntryBytes
<1>5. BLOCK \in Nat \ {0} /\ Start(i) \in Nat \ {0}
  BY <1>1, <1>4, Numbers, StartFits DEF IInv
<1>6. file[i][2] <= b * BLOCK
  BY <1>2, Ceiling
<1> HIDE DEF b
<1>7. (Start(i) * BLOCK) \div BLOCK = Start(i)
  <2>1. Start(i) * BLOCK \in Nat /\ Start(i) * BLOCK = Start(i) * BLOCK + 0
    BY <1>5
  <2> QED
    BY <1>5, <2>1, Quotient
<1>8. (b * BLOCK) \div BLOCK = b
  <2>1. b * BLOCK \in Nat /\ b * BLOCK = b * BLOCK + 0
    BY <1>4, <1>5
  <2> QED
    BY <1>4, <1>5, <2>1, Quotient
<1>9. BlocksOf(i) = {Start(i) + k : k \in 0 .. (b - 1)}
  BY <1>4, <1>7, <1>8 DEF BlocksOf
<1> QED
  BY <1>3, <1>4, <1>5, <1>6, <1>7, <1>9 DEF b

LEMMA TableFromIInv == IInv => TableInv
<1> SUFFICES ASSUME IInv PROVE TableInv
  OBVIOUS
<1>1. Disjoint
  <2>1. ASSUME NEW i \in Partition
        PROVE  0 \notin BlocksOf(i)
    BY InBlocks
  <2>2. ASSUME NEW i \in Partition, NEW j \in Partition, i < j
        PROVE  BlocksOf(i) \cap BlocksOf(j) = {}
    <3>1. /\ i \in 1 .. 3 /\ Start(i) \in Nat /\ BlocksFor(file[i][2]) \in Nat
          /\ BlocksOf(i) = {Start(i) + k : k \in 0 .. (BlocksFor(file[i][2]) - 1)}
      BY InBlocks
    <3>2. /\ j \in 1 .. 3 /\ Start(j) \in Nat /\ BlocksFor(file[j][2]) \in Nat
          /\ BlocksOf(j) = {Start(j) + k : k \in 0 .. (BlocksFor(file[j][2]) - 1)}
      BY InBlocks
    <3>3. Start(i) + BlocksFor(file[i][2]) <= Start(j)
      BY <2>2, <3>1, <3>2, Behind DEF IInv
    <3>4. \A x \in BlocksOf(i) : x < Start(j)
      BY <3>1, <3>2, <3>3
    <3>5. \A x \in BlocksOf(j) : x >= Start(j)
      BY <3>2
    <3>6. \A x : x \in BlocksOf(i) /\ x \in BlocksOf(j) => FALSE
      <4> SUFFICES ASSUME NEW x, x \in BlocksOf(i), x \in BlocksOf(j) PROVE FALSE
        OBVIOUS
      <4>1. x \in Int
        BY <3>1
      <4> QED
        BY <3>2, <3>4, <3>5, <4>1
    <3> QED
      BY <3>6
  <2>3. \A i, j \in Partition : i # j => i < j \/ j < i
    BY DEF Partition, Entry
  <2> QED
    BY <2>1, <2>2, <2>3 DEF Disjoint
<1>2. HoldsItsFile
  <2> SUFFICES ASSUME NEW i \in Partition
               PROVE  /\ BlocksOf(i) \subseteq 0 .. (Len(image) - 1)
                      /\ table[i].length * SECTOR >= file[i][2]
                      /\ \A b \in BlocksOf(i) :
                           image[b + 1] = <<file[i][1], b - table[i].lba_first \div BLOCK>>
    BY DEF HoldsItsFile
  <2>1. /\ i \in Entry /\ ~ IsFree(i) /\ Start(i) \in Nat \ {0} /\ BlocksFor(file[i][2]) \in Nat
        /\ table[i].lba_first \div BLOCK = Start(i)
        /\ BlocksOf(i) = {Start(i) + k : k \in 0 .. (BlocksFor(file[i][2]) - 1)}
        /\ file[i][2] <= table[i].length * SECTOR
    BY InBlocks DEF Entry
  <2>2. \A k \in 0 .. (BlocksFor(file[i][2]) - 1) :
          Start(i) + k < Len(image) /\ image[Start(i) + k + 1] = <<file[i][1], k>>
    BY <2>1 DEF IInv, BlocksInv, HoldsBlocks
  <2>3. Len(image) \in Nat
    BY DEF IInv, TypeOK
  <2>4. table[i].length * SECTOR >= file[i][2]
    <3>1. table[i] \in [lba_first : 0 .. (WORD - 1), length : 0 .. (WORD - 1)]
      BY <2>1 DEF IInv, TypeOK
    <3>2. table[i].length * SECTOR \in Nat /\ file[i][2] \in Nat
      BY <2>1, <3>1, FileTypes, Numbers DEF IInv
    <3> QED
      BY <2>1, <3>2
  <2>5. ASSUME NEW b \in BlocksOf(i)
        PROVE  b \in 0 .. (Len(image) - 1) /\ image[b + 1] = <<file[i][1], b - Start(i)>>
    <3>1. PICK k \in 0 .. (BlocksFor(file[i][2]) - 1) : b = Start(i) + k
      BY <2>1
    <3>2. b - Start(i) = k /\ b \in Nat
      BY <2>1, <3>1
    <3>3. b < Len(image) /\ image[b + 1] = <<file[i][1], k>>
      BY <2>2, <3>1
    <3> QED
      BY <2>3, <3>2, <3>3
  <2> QED
    BY <2>1, <2>4, <2>5
<1> QED
  BY <1>1, <1>2 DEF IInv, EntriesInv, TableInv

\* Partitions lie apart behind the boot block, hold their files to the last
\* byte also while later runs of mkvdisk append or are killed, and are all
\* among the three that print_mbr_partition shows.
THEOREM PartitionsAreWhole == Spec => []TableInv
BY Invariance, TableFromIInv, PTL

\* What the table holds stays as it is until the image is created anew:
\* append_primary only ever writes an entry that is free.
THEOREM EntriesStay == Spec => AppendsOnly
<1>1. ASSUME IInv, [Next]_vars
      PROVE  [job'.at # "create" =>
                \A i \in Entry : ~ IsFree(i) => table'[i] = table[i]]_vars
  <2>1. CASE create_open
    <3>1. job' = [at |-> "create", slot |-> 0, lba_first |-> 0, length |-> 0, size |-> 0]
      BY <2>1 DEF create_open, Begin, None
    <3> QED
      BY <3>1
  <2>2. CASE append_entry
    <3>1. job.slot \in 1 .. 3 /\ IsFree(job.slot)
      BY <1>1, <2>2 DEF append_entry, IInv, JobInv
    <3>2. table \in [Entry -> [lba_first : 0 .. (WORD - 1), length : 0 .. (WORD - 1)]]
      BY <1>1 DEF IInv, TypeOK
    <3>3. \A i \in Entry : i # job.slot => table'[i] = table[i]
      BY <2>2, <3>2 DEF append_entry
    <3> QED
      BY <3>1, <3>3
  <2>3. CASE \/ create_write \/ (\E size \in Size : append_open(size))
             \/ append_fails \/ append_copy \/ killed
    <3>1. table' = table
      BY <2>3 DEF create_write, append_open, append_fails, append_copy, killed
    <3> QED
      BY <3>1
  <2>4. CASE UNCHANGED vars
    BY <2>4
  <2> QED
    BY <1>1, <2>1, <2>2, <2>3, <2>4 DEF Next
<1>2. IInv /\ [Next]_vars => [job'.at # "create" =>
                                \A i \in Entry : ~ IsFree(i) => table'[i] = table[i]]_vars
  BY <1>1
<1> QED
  BY <1>2, Invariance, PTL DEF Spec, AppendsOnly
=============================================================================
