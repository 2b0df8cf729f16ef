-------------------------------- MODULE Mbr --------------------------------
(***************************************************************************)
(* tools/mkvdisk/main.c: a disk image over a series of runs of mkvdisk,    *)
(* which create it with a boot sector or append a partition to it.         *)
(*                                                                         *)
(* The image is a sequence of blocks of BLOCK bytes, the buffer in which   *)
(* the program copies; block 0 is the boot block and holds the table of    *)
(* four entries.  lba_first is an offset in bytes, length a number of      *)
(* sectors, both 32 bits wide (WORD values).  Flags and types are left     *)
(* out.  A partition file is its size; what block k of the file that run   *)
(* n appends holds is <<n, k>>.                                            *)
(*                                                                         *)
(* A run can be killed between two writes.  An image is appended to after  *)
(* a run that created it has finished: main.c does not see a short read.   *)
(***************************************************************************)
EXTENDS Naturals, Sequences

CONSTANTS SECTOR,  \* bytes of a sector: 512
          WORD,    \* the values of a uint32_t: 2^32
          Size,    \* the sizes of partition files, in bytes
          MaxRuns  \* bound on the runs

BLOCK == 4 * SECTOR
Entry == 1..4

ASSUME MbrAssumption ==
  /\ SECTOR \in Nat \ {0, 1} /\ MaxRuns \in Nat
  /\ WORD \in Nat \ {0} /\ WORD % BLOCK = 0
  /\ Size \subseteq 0..(WORD - 1)
  \* The image stays within what a uint32_t can address.
  /\ \A s \in Size : BLOCK + 3 * (s + BLOCK) <= WORD

VARIABLES image, \* image[k + 1]: what block k holds
          table, \* the entries
          job,   \* the run in progress, its local variables
          runs,  \* the number of runs so far
          file   \* ghost: file[i]: the run that wrote entry i, and the size of its file

vars == <<image, table, job, runs, file>>

Free == [lba_first |-> 0, length |-> 0]
Nothing == <<0, 0>>
Boot == <<0, 1>>
None == [at |-> "none", slot |-> 0, lba_first |-> 0, length |-> 0, size |-> 0]

\* No image yet.
Init ==
  /\ image = <<>>
  /\ table = [i \in Entry |-> Free]
  /\ job = None
  /\ runs = 0
  /\ file = [i \in Entry |-> Nothing]

Begin(j) == job.at = "none" /\ runs < MaxRuns /\ runs' = runs + 1 /\ job' = j
Exit == job' = None

-----------------------------------------------------------------------------
(* create_with_bootsector *)

\* fopen(disk, "w+b") empties the image, before the boot file is opened.
create_open ==
  /\ Begin([None EXCEPT !.at = "create"])
  /\ image' = <<>>
  /\ table' = [i \in Entry |-> Free]
  /\ file' = [i \in Entry |-> Nothing]

\* The first BUFFER_SIZE bytes of the boot file, with an empty table.
create_write ==
  /\ job.at = "create"
  /\ image' = <<Boot>>
  /\ Exit
  /\ UNCHANGED <<table, runs, file>>

-----------------------------------------------------------------------------
(* append_primary *)

IsFree(i) == table[i] = Free

\* The entry the loop stops at: the first free one of three, or the third.
LastRead ==
  IF \E i \in 1..3 : IsFree(i)
  THEN CHOOSE i \in 1..3 : IsFree(i) /\ \A j \in 1..(i - 1) : ~IsFree(j)
  ELSE 3

\* Behind the boot block and the partitions read.
first_byte(slot) ==
  LET bytes(i) == IF i <= slot THEN table[i].length * SECTOR ELSE 0
  IN  (BLOCK + bytes(1) + bytes(2) + bytes(3)) % WORD

\* A mutant: an entry that is not empty does not stop the program.
TableFull_never(slot) == FALSE
TableFull(slot) == table[slot].length # 0

\* The table is read, the partition file opened.
append_open(size) ==
  /\ image # <<>>
  /\ ~TableFull(LastRead)
  /\ Begin([at |-> "copy", slot |-> LastRead, lba_first |-> first_byte(LastRead),
            length |-> 0, size |-> size])
  /\ UNCHANGED <<image, table, file>>

\* "primary partition is fully", or the partition file cannot be opened: the
\* program ends and nothing has changed.  main exits as well on any
\* partition type but "primary", and print_mbr_partition only reads.
append_fails ==
  /\ image # <<>>
  /\ Begin(None)
  /\ UNCHANGED <<image, table, file>>

AtBlock(byte) == byte \div BLOCK + 1

\* The image with a block written at byte: fseek behind the end leaves a hole.
Written(byte, content) ==
  [k \in 1..(IF AtBlock(byte) > Len(image) THEN AtBlock(byte) ELSE Len(image)) |->
     IF k = AtBlock(byte) THEN content ELSE IF k <= Len(image) THEN image[k] ELSE Nothing]

\* One turn of the copying loop that reads something.
append_copy ==
  /\ job.at = "copy"
  /\ job.length < job.size
  /\ image' = Written(job.lba_first + BLOCK * (job.length \div BLOCK),
                      <<runs, job.length \div BLOCK>>)
  /\ job' = [job EXCEPT !.length = IF @ + BLOCK < job.size THEN @ + BLOCK ELSE job.size]
  /\ UNCHANGED <<table, runs, file>>

\* A mutant: the length is rounded down.
sectors_down(length) == (length \div BLOCK) * 4
\* ((length - 1) / 2048 + 1) * 4, in 32 bits: of 0 bytes, all there are.
sectors(length) == (((length + WORD - 1) % WORD) \div BLOCK + 1) * 4

\* The last turn reads nothing; then the entry is written.
append_entry ==
  /\ job.at = "copy"
  /\ job.length = job.size
  /\ table' = [table EXCEPT ![job.slot] =
                 [lba_first |-> job.lba_first, length |-> sectors(job.length)]]
  /\ file' = [file EXCEPT ![job.slot] = <<runs, job.size>>]
  /\ Exit
  /\ UNCHANGED <<image, runs>>

\* A signal between two writes, which no line of the code shows, or a file that
\* cannot be opened: of append_primary the data may be there and the entry not.
killed ==
  /\ job.at # "none"
  /\ Exit
  /\ UNCHANGED <<image, table, runs, file>>

Next ==
  \/ create_open \/ create_write
  \/ \E size \in Size : append_open(size)
  \/ append_fails \/ append_copy \/ append_entry
  \/ killed

Spec == Init /\ [][Next]_vars

-----------------------------------------------------------------------------
TypeOK ==
  /\ image \in Seq({Nothing, Boot} \cup ((1..MaxRuns) \X (0..(WORD \div BLOCK))))
  /\ Len(image) <= WORD \div BLOCK
  /\ table \in [Entry -> [lba_first : 0..(WORD - 1), length : 0..(WORD - 1)]]
  /\ job \in [at : {"none", "create", "copy"}, slot : 0..4, lba_first : 0..(WORD - 1),
              length : Nat, size : Size \cup {0}]
  /\ job.length <= job.size
  /\ file \in [Entry -> (0..MaxRuns) \X (Size \cup {0})]
  /\ runs \in 0..MaxRuns

\* The partitions with something in them: of an empty file, the entry says
\* all sectors there are, and the next partition starts at the same place.
Partition == {i \in Entry : file[i][2] > 0}
BlocksOf(i) ==
  {table[i].lba_first \div BLOCK + k : k \in 0..((table[i].length * SECTOR) \div BLOCK - 1)}

(* Partitions lie behind the boot block and do not overlap. *)
Disjoint ==
  \A i, j \in Partition : 0 \notin BlocksOf(i) /\ (i # j => BlocksOf(i) \cap BlocksOf(j) = {})

(* A partition in the table holds its file and nothing else: to its last   *)
(* byte, and for ever, also while later runs append or are killed.          *)
HoldsItsFile ==
  \A i \in Partition :
    /\ BlocksOf(i) \subseteq 0..(Len(image) - 1)
    /\ table[i].length * SECTOR >= file[i][2]
    /\ \A b \in BlocksOf(i) : image[b + 1] = <<file[i][1], b - table[i].lba_first \div BLOCK>>

(* The table fills from the front, and what it holds stays as it is until   *)
(* the image is created anew.                                                *)
AppendsOnly ==
  [][job'.at # "create" =>
       \A i \in Entry : ~IsFree(i) => table'[i] = table[i]]_vars

(* Entries are used in order: print_mbr_partition shows the first three,    *)
(* and these are all there are.                                              *)
ShownByPrint == \A i \in Entry : ~IsFree(i) => i <= 3 /\ \A j \in 1..i : ~IsFree(j)

(* What a disk image promises: its partitions are apart, whole, and all shown. *)
TableInv == TypeOK /\ Disjoint /\ HoldsItsFile /\ ShownByPrint

-----------------------------------------------------------------------------
(* The inductive invariant, in blocks. *)

\* The blocks that so many bytes take, and the block at which entry i starts.
BlocksFor(bytes) == IF bytes = 0 THEN 0 ELSE (bytes - 1) \div BLOCK + 1

Start(i) == 1 + (IF i > 1 THEN BlocksFor(file[1][2]) ELSE 0)
              + (IF i > 2 THEN BlocksFor(file[2][2]) ELSE 0)

\* The entries are one behind the other, from the first on; an empty file has
\* an entry of all sectors there are, which in 32 bits are none.
EntriesInv ==
  /\ ShownByPrint
  /\ \A i \in Entry :
       IF IsFree(i) THEN file[i] = Nothing
       ELSE /\ file[i] \in (1..MaxRuns) \X Size
            /\ table[i] = [lba_first |-> Start(i) * BLOCK,
                           length |-> (IF file[i][2] = 0 THEN WORD \div BLOCK
                                       ELSE BlocksFor(file[i][2])) * 4]

\* So many blocks from where entry i starts hold the file of a run.
HoldsBlocks(i, run, count) ==
  \A k \in 0..(count - 1) :
    Start(i) + k < Len(image) /\ image[Start(i) + k + 1] = <<run, k>>

BlocksInv ==
  \A i \in Entry : ~IsFree(i) => HoldsBlocks(i, file[i][1], BlocksFor(file[i][2]))

\* A run that appends works on the first free entry, behind all partitions.
JobInv ==
  /\ job.at = "create" => image = <<>> /\ \A i \in Entry : IsFree(i)
  /\ job.at = "copy" =>
       /\ runs > 0 /\ job.slot \in 1..3
       /\ IsFree(job.slot) /\ \A j \in 1..(job.slot - 1) : ~IsFree(j)
       /\ job.lba_first = Start(job.slot) * BLOCK /\ job.size \in Size
       /\ job.length = job.size \/ job.length % BLOCK = 0
       /\ HoldsBlocks(job.slot, runs, BlocksFor(job.length))

IInv == TypeOK /\ EntriesInv /\ BlocksInv /\ JobInv
=============================================================================
