------------------------------- MODULE UxlFs -------------------------------
(***************************************************************************)
(* The file system tool, tools/mkuxlfs/lib/uxlfs.c: inodes, a bitmap of    *)
(* blocks and the counts of the superblock are read by mount_fs, kept in   *)
(* memory (`meta') and written back by sync_fs only (`image'); blocks of   *)
(* files, of directories and of addresses go to the disk at once (`blk').  *)
(*                                                                         *)
(* The functions of the code are operators on a state s of all of these;   *)
(* s.stop says whether the program stops inside: panic is PANIC, which     *)
(* saves, exit is exit(EXIT_FAILURE), which does not, overrun is an index  *)
(* past a block of addresses, garbage a block that holds none.  A file     *)
(* block has one value; the length of a file counts blocks, that of a      *)
(* directory entries.                                                      *)
(***************************************************************************)
EXTENDS Naturals, FiniteSets, Sequences, SequencesExt, FiniteSetsExt

CONSTANTS TOTAL_INODES, \* inodes 2 .. TOTAL_INODES-1 are for use, 1 is the root
          TOTAL_DATA,   \* blocks for data; block 0 stands for `none'
          NDIRECT,      \* addresses in an inode that lead to data (8)
          BINS,         \* addresses in a block
          EPB,          \* directory entries in a block
          Names,        \* file names
          MaxDepth,     \* bound on the names of a path
          FileBlocks,   \* the lengths of the files on the host
          WriteAfterAbort \* TRUE: an image may be written again although a run
                          \* that wrote it stopped without sync_fs

\* What an entry that is not there has, and the first two of a directory.
NoName == ""
Dot    == "."
DotDot == ".."

ASSUME UxlFsAssumption ==
  /\ TOTAL_INODES \in Nat /\ TOTAL_INODES > 2
  /\ TOTAL_DATA \in Nat \ {0} /\ NDIRECT \in Nat \ {0}
  /\ BINS \in Nat \ {0} /\ EPB \in Nat \ {0, 1}
  /\ FileBlocks \subseteq Nat /\ MaxDepth \in Nat /\ NoName \notin Names
  /\ WriteAfterAbort \in BOOLEAN

\* A directory of all inodes is within what an inode can address.
ASSUME CapacityAssumption == TOTAL_INODES <= EPB * (NDIRECT + BINS + BINS * BINS)

ROOT_INODE == 1
Inum   == 1 .. (TOTAL_INODES - 1)
Blocks == 1..TOTAL_DATA
Paths  == UNION { [1..n -> Names] : n \in 1..MaxDepth }

VARIABLES meta,    \* superblock counts, inodes and bitmap in memory
          image,   \* the same on disk
          blk,     \* the data blocks, on disk
          pc,      \* off, ready, copy (inside cpin), super, inodes or bitmap
                   \* (what sync_fs writes next), overrun or garbage
          copy,    \* cpin: the inode and the blocks still to write
          aborted  \* ghost: a run that wrote has stopped without saving

vars == <<meta, image, blk, pc, copy, aborted>>

----------------------------------------------------------------------------
(* Blocks.                                                                  *)

Zero       == [kind |-> "zero"]
Addresses(f) == [kind |-> "addresses", at |-> f]
Entries(f) == [kind |-> "entries", at |-> f]
Data(v)    == [kind |-> "data", value |-> v]

NoEntry == [inum |-> 0, name |-> NoName]

\* disk_create leaves zeros, which are no address and no entry.
AddressIn(b, k) ==
  IF b.kind = "zero" THEN 0 ELSE b.at[k]

\* What balloc and iget_phys_block answer: a state and a block.
Stop(s, why) == [s |-> [s EXCEPT !.stop = why], b |-> 0]

\* A mutant: balloc without bitmap_set.
balloc_unmarked(s) ==
  LET free == Blocks \ s.map
  IN IF s.stop # "no" THEN Stop(s, s.stop)
     ELSE IF free = {} THEN Stop(s, "panic")
     ELSE [s |-> [s EXCEPT !.free_data = @ - 1], b |-> Min(free)]

\* The first free block.
balloc(s) ==
  LET free == Blocks \ s.map
  IN IF s.stop # "no" THEN Stop(s, s.stop)
     ELSE IF free = {} THEN Stop(s, "panic")
     ELSE [s |-> [s EXCEPT !.map = @ \cup {Min(free)}, !.free_data = @ - 1],
           b |-> Min(free)]

\* A mutant: the new block is not stored in the inode.
KeepInInode_not(r, n, k) == r

\* iget_phys_block: the block behind the address k of an inode, allocated if
\* there is none yet.
KeepInInode(r, n, k) ==
  IF r.s.stop # "no" THEN r ELSE [r EXCEPT !.s.ino[n].addr[k] = r.b]

inode_addr(s, n, k) ==
  IF s.stop # "no" THEN Stop(s, s.stop)
  ELSE IF s.ino[n].addr[k] # 0 THEN [s |-> s, b |-> s.ino[n].addr[k]]
  ELSE KeepInInode(balloc(s), n, k)

\* The same for the address k in the block of addresses that `at' answered.
\* Only then is the block written; nobody cleared it when it was allocated.
KeepInBlock(r, p, k) ==
  IF r.s.stop # "no" THEN r
  ELSE [r EXCEPT !.s.blk[p] = Addresses([j \in 0 .. (BINS - 1) |->
                                 IF j = k THEN r.b ELSE AddressIn(r.s.blk[p], j)])]

block_addr(at, k) ==
  IF at.s.stop # "no" THEN at
  ELSE IF k >= BINS THEN Stop(at.s, "overrun")
  ELSE IF at.s.blk[at.b].kind \in {"data", "entries"} THEN Stop(at.s, "garbage")
  ELSE IF AddressIn(at.s.blk[at.b], k) # 0
       THEN [at EXCEPT !.b = AddressIn(at.s.blk[at.b], k)]
  ELSE KeepInBlock(balloc(at.s), at.b, k)

\* A mutant: the last index of the first block of addresses is off by one.
iget_phys_block_off_by_one(s, n, i) ==
  LET j == i - NDIRECT - BINS
  IN IF i < NDIRECT THEN inode_addr(s, n, i)
     ELSE IF i <= NDIRECT + BINS THEN block_addr(inode_addr(s, n, NDIRECT), i - NDIRECT)
     ELSE IF j > BINS * BINS THEN Stop(s, "panic")
     ELSE block_addr(block_addr(inode_addr(s, n, NDIRECT + 1), j \div BINS), j % BINS)

\* The double indirect index is checked with > where >= is meant.
iget_phys_block(s, n, i) ==
  LET j == i - NDIRECT - BINS
  IN IF i < NDIRECT THEN inode_addr(s, n, i)
     ELSE IF i < NDIRECT + BINS THEN block_addr(inode_addr(s, n, NDIRECT), i - NDIRECT)
     ELSE IF j > BINS * BINS THEN Stop(s, "panic")
     ELSE block_addr(block_addr(inode_addr(s, n, NDIRECT + 1), j \div BINS), j % BINS)

\* The same without allocating, for what is read back; 0 if there is none.
AddressAt(b, p, k) ==
  IF p = 0 \/ k >= BINS THEN 0
  ELSE IF b[p].kind \in {"data", "entries"} THEN 0 ELSE AddressIn(b[p], k)

PhysBlock(ino, b, n, i) ==
  LET j == i - NDIRECT - BINS
  IN IF i < NDIRECT THEN ino[n].addr[i]
     ELSE IF i < NDIRECT + BINS THEN AddressAt(b, ino[n].addr[NDIRECT], i - NDIRECT)
     ELSE AddressAt(b, AddressAt(b, ino[n].addr[NDIRECT + 1], j \div BINS), j % BINS)

----------------------------------------------------------------------------
(* Directories.                                                             *)

EntryAt(ino, b, n, e) ==
  LET p == PhysBlock(ino, b, n, e \div EPB)
  IN IF p = 0 THEN NoEntry
     ELSE IF b[p].kind = "entries" THEN b[p].at[e % EPB] ELSE NoEntry

\* The inode that the first entry of that name leads to: a set of one, or
\* the empty set where the code has NULL.
ilookup(ino, b, n, name) ==
  LET hits == { e \in 0 .. (ino[n].filelength - 1) : EntryAt(ino, b, n, e).name = name }
  IN { EntryAt(ino, b, n, e).inum : e \in { x \in hits : \A y \in hits : x <= y } }

\* Name after name, from the root on: a set of one, or the empty set.
iname(ino, b, path) ==
  LET at[i \in 0 .. Len(path)] ==
        IF i = 0 THEN {ROOT_INODE} ELSE UNION { ilookup(ino, b, n, path[i]) : n \in at[i - 1] }
  IN at[Len(path)]

The(S) == CHOOSE x \in S : TRUE

\* dir_write: iwrite of one entry at the end of the directory.
PutEntry(r, n, entry) ==
  LET e   == r.s.ino[n].filelength
      old == r.s.blk[r.b]
  IN IF r.s.stop # "no" THEN r.s
     ELSE [r.s EXCEPT !.ino[n].filelength = e + 1,
                      !.blk[r.b] = Entries([j \in 0 .. (EPB - 1) |->
                                     IF j = e % EPB THEN entry
                                     ELSE IF old.kind = "entries" THEN old.at[j] ELSE NoEntry])]

dir_write(s, n, entry) ==
  PutEntry(iget_phys_block(s, n, s.ino[n].filelength \div EPB), n, entry)

FreeInodes(s) == { n \in 2 .. (TOTAL_INODES - 1) : s.ino[n].links = 0 }

\* A mutant: the inode is counted but not marked.
ialloc_unlinked(s, n) == [s EXCEPT !.free_inodes = @ - 1]

ialloc(s, n) == [s EXCEPT !.ino[n].links = @ + 1, !.free_inodes = @ - 1]

\* A directory begins with two entries; the mode is stored after them.
Dots(s, num, dir) ==
  dir_write(dir_write(s, num, [inum |-> num, name |-> Dot]), num, [inum |-> dir, name |-> DotDot])

WithMode(s, num, type) ==
  IF s.stop = "no" THEN [s EXCEPT !.ino[num].mode = type] ELSE s

\* A mutant: a name that exists ends the program as a full disk does.
dir_create_entity_saves(s, dir, name, type) ==
  LET num   == Min(FreeInodes(s))
      taken == ialloc(s, num)
  IN IF FreeInodes(s) = {} THEN [s EXCEPT !.stop = "panic"]
     ELSE IF ilookup(s.ino, s.blk, dir, name) # {} THEN [taken EXCEPT !.stop = "panic"]
     ELSE dir_write(WithMode(IF type = "dir" THEN Dots(taken, num, dir) ELSE taken, num, type),
                    dir, [inum |-> num, name |-> name])

\* The inode is taken first; the name is looked up only then.
dir_create_entity(s, dir, name, type) ==
  LET num   == Min(FreeInodes(s))
      taken == ialloc(s, num)
  IN IF FreeInodes(s) = {} THEN [s EXCEPT !.stop = "panic"]
     ELSE IF ilookup(s.ino, s.blk, dir, name) # {} THEN [taken EXCEPT !.stop = "exit"]
     ELSE dir_write(WithMode(IF type = "dir" THEN Dots(taken, num, dir) ELSE taken, num, type),
                    dir, [inum |-> num, name |-> name])

\* cli_mkdir, cli_touch: get_path, iname, dir_create_entity.
create(s, path, type) ==
  LET dir == iname(s.ino, s.blk, Front(path))
  IN IF dir = {} THEN [s EXCEPT !.stop = "exit"]
     ELSE dir_create_entity(s, The(dir), Last(path), type)

\* iwrite of one block at the end of a file.
PutBlock(r, n, v) ==
  IF r.s.stop # "no" THEN r.s
  ELSE [r.s EXCEPT !.blk[r.b] = Data(v), !.ino[n].filelength = @ + 1]

write_block(s, n, v) == PutBlock(iget_phys_block(s, n, s.ino[n].filelength), n, v)

----------------------------------------------------------------------------
Current == [ino |-> meta.ino, map |-> meta.map, free_inodes |-> meta.free_inodes,
            free_data |-> meta.free_data, blk |-> blk, stop |-> "no"]

MetaOf(s) == [ino |-> s.ino, map |-> s.map, free_inodes |-> s.free_inodes, free_data |-> s.free_data]

\* create_fs and the sync_fs of main after it: the root directory alone.
NewFs ==
  LET empty == [mode |-> "none", links |-> 0, filelength |-> 0,
                addr |-> [k \in 0 .. (NDIRECT + 1) |-> 0]]
  IN [ino         |-> [n \in Inum |-> IF n = ROOT_INODE
                                      THEN [empty EXCEPT !.mode = "dir", !.filelength = 2, !.addr[0] = 1]
                                      ELSE empty],
      map         |-> {1},
      free_inodes |-> TOTAL_INODES - 2,
      free_data   |-> TOTAL_DATA - 1]

RootBlock == Entries([j \in 0 .. (EPB - 1) |->
               IF j = 0 THEN [inum |-> ROOT_INODE, name |-> Dot]
               ELSE IF j = 1 THEN [inum |-> ROOT_INODE, name |-> DotDot] ELSE NoEntry])

Init ==
  /\ meta = NewFs /\ image = NewFs
  /\ blk = [b \in Blocks |-> IF b = 1 THEN RootBlock ELSE Zero]
  /\ pc = "off" /\ copy = [inum |-> 0, left |-> 0] /\ aborted = FALSE

mount_fs ==
  /\ pc = "off"
  /\ meta' = image /\ pc' = "ready"
  /\ UNCHANGED <<image, blk, copy, aborted>>

\* What becomes of the program after a function that ended in s.
Continue(s, next) ==
  /\ blk' = s.blk
  /\ meta' = IF s.stop \in {"no", "panic"} THEN MetaOf(s) ELSE meta
  /\ pc' = CASE s.stop = "no" -> next [] s.stop = "panic" -> "super"
             [] s.stop = "exit" -> "off" [] OTHER -> s.stop
  /\ aborted' = (aborted \/ (s.stop = "exit" /\ meta # image))
  /\ UNCHANGED image

\* A discipline of the callers.  A new entry goes into a directory, as in all that
\* cpdir_in does; ilookup and dir_write do not look at the mode of what they are
\* given.  An image that an unfinished run wrote to is left alone, which nothing
\* in the code looks at either.
MayWrite(path) ==
  /\ pc = "ready" /\ (aborted => WriteAfterAbort)
  /\ \A dir \in iname(meta.ino, blk, Front(path)) : meta.ino[dir].mode = "dir"

cli_mkdir(path) ==
  /\ MayWrite(path)
  /\ \E s \in {create(Current, path, "dir")} : Continue(s, "ready")
  /\ UNCHANGED copy

\* cpin up to its loop: cli_touch, and iname for what it made.  An empty file
\* needs no loop.
touched(path) ==
  LET s     == create(Current, path, "file")
      found == iname(s.ino, s.blk, path)
  IN IF s.stop = "no" /\ found = {} THEN [s EXCEPT !.stop = "exit"] ELSE s

cpin(path, n) ==
  /\ MayWrite(path)
  /\ \E s \in {touched(path)} :
       /\ Continue(s, IF n = 0 THEN "ready" ELSE "copy")
       /\ copy' = IF s.stop = "no" THEN [inum |-> The(iname(s.ino, s.blk, path)), left |-> n]
                                   ELSE copy

\* A turn of the loop: one block read from the host and written.
NextBlock == write_block(Current, copy.inum, <<copy.inum, meta.ino[copy.inum].filelength>>)

cpin_block ==
  /\ pc = "copy"
  /\ \E s \in {NextBlock} : Continue(s, IF copy.left = 1 THEN "ready" ELSE "copy")
  /\ copy' = [copy EXCEPT !.left = @ - 1]

\* main calls sync_fs when the command is done.
sync_fs ==
  /\ pc = "ready"
  /\ pc' = "super"
  /\ UNCHANGED <<meta, image, blk, copy, aborted>>

sync_super ==
  /\ pc = "super"
  /\ image' = [image EXCEPT !.free_inodes = meta.free_inodes, !.free_data = meta.free_data]
  /\ pc' = "inodes"
  /\ UNCHANGED <<meta, blk, copy, aborted>>

\* One disk_write, and one step, though it is of all blocks of inodes.
sync_inodes ==
  /\ pc = "inodes"
  /\ image' = [image EXCEPT !.ino = meta.ino]
  /\ pc' = "bitmap"
  /\ UNCHANGED <<meta, blk, copy, aborted>>

sync_bitmap ==
  /\ pc = "bitmap"
  /\ image' = [image EXCEPT !.map = meta.map]
  /\ pc' = "off"
  /\ UNCHANGED <<meta, blk, copy, aborted>>

\* A file of the host that cannot be opened, or a signal, for which the code
\* has no line: the program ends without what is left of sync_fs, between two
\* commands, two blocks that cpin copies or two writes of sync_fs.  So it does,
\* here, after an access that the code has no right to.
killed ==
  /\ pc # "off"
  /\ pc' = "off" /\ meta' = image
  /\ aborted' = (aborted \/ meta # image)
  /\ UNCHANGED <<image, blk, copy>>

Next == \/ mount_fs
        \/ \E path \in Paths : cli_mkdir(path) \/ \E n \in FileBlocks : cpin(path, n)
        \/ cpin_block
        \/ sync_fs \/ sync_super \/ sync_inodes \/ sync_bitmap
        \/ killed

Spec == Init /\ [][Next]_vars

----------------------------------------------------------------------------
\* The tree of files, as cpdir_out would copy it out of inodes and blocks.
NodeOf(ino, b, n) ==
  IF ino[n].mode = "dir" THEN [kind |-> "dir", data |-> <<>>]
  ELSE [kind |-> "file",
        data |-> [k \in 1 .. ino[n].filelength |->
                    LET p == PhysBlock(ino, b, n, k - 1)
                    IN IF p = 0 THEN <<0, 0>>
                       ELSE IF b[p].kind = "data" THEN b[p].value ELSE <<0, 0>>]]

TreeOf(ino) ==
  [path \in Paths |-> LET at == iname(ino, blk, path)
                      IN IF at = {} THEN [kind |-> "none", data |-> <<>>]
                         ELSE The({ NodeOf(ino, blk, n) : n \in at })]

Abs == INSTANCE UxlTree
         WITH work  <- IF pc = "off" THEN TreeOf(image.ino) ELSE TreeOf(meta.ino),
              saved <- TreeOf(image.ino)

\* The blocks of addresses, single and double, and below the double ones.
AddressBlocks(ino, b) ==
  LET tops    == { ino[n].addr[k] : n \in Inum, k \in {NDIRECT, NDIRECT + 1} }
      middles == { AddressAt(b, ino[n].addr[NDIRECT + 1], k) : n \in Inum, k \in 0 .. (BINS - 1) }
  IN (tops \cup middles) \ {0}

\* Where an address may be kept: in an inode, or in a block of addresses.
References(ino, b) ==
  ({"inode"} \X Inum \X (0 .. (NDIRECT + 1)))
    \cup ({"block"} \X AddressBlocks(ino, b) \X (0 .. (BINS - 1)))

Value(ino, b, r) == IF r[1] = "inode" THEN ino[r[2]].addr[r[3]] ELSE AddressAt(b, r[2], r[3])

Intact == ~aborted /\ pc \notin {"overrun", "garbage"}

Inode == [mode : {"none", "dir", "file"}, links : Nat, filelength : Nat,
          addr : [0 .. (NDIRECT + 1) -> Blocks \cup {0}]]
Meta == [ino : [Inum -> Inode], map : SUBSET Blocks, free_inodes : Nat, free_data : Nat]

Content == {Zero} \cup [kind : {"addresses"}, at : [0 .. (BINS - 1) -> Blocks \cup {0}]]
                  \cup [kind : {"entries"}, at : [0 .. (EPB - 1) ->
                           [inum : Inum \cup {0}, name : Names \cup {NoName, Dot, DotDot}]]]
                  \cup [kind : {"data"}, value : Inum \X Nat]

TypeOK ==
  /\ meta \in Meta /\ image \in Meta
  /\ blk \in [Blocks -> Content]
  /\ pc \in {"off", "ready", "copy", "super", "inodes", "bitmap", "overrun", "garbage"}
  /\ copy \in [inum : Inum \cup {0}, left : Nat]
  /\ aborted \in BOOLEAN

\* Each block in use has one owner, and the bitmap marks these blocks and no
\* others: nothing is lost even where PANIC stops half way through a call.
Owned(s) ==
  LET refs   == References(s.ino, s.blk)
      val(r) == Value(s.ino, s.blk, r)
  IN /\ \A r, q \in refs : val(r) = val(q) /\ val(r) # 0 => r = q
     /\ { val(r) : r \in refs } \ {0} = s.map

\* What the superblock counts is what inodes and bitmap say.
Counted(s) ==
  /\ s.free_data = TOTAL_DATA - Cardinality(s.map)
  /\ s.free_inodes = Cardinality(FreeInodes(s))

\* Inodes, blocks of addresses, bitmap and counts agree, whatever stopped where.
ImageInv == TypeOK /\ (Intact => Owned(Current) /\ Counted(Current))

\* Every inode taken has a name, unless the disk filled up while it was made.
Named(ino, b) == UNION { ilookup(ino, b, n, name) :
                           n \in { m \in Inum : ino[m].mode = "dir" }, name \in Names }
AllNamed(s) ==
  s.map # Blocks => \A n \in 2 .. (TOTAL_INODES - 1) : s.ino[n].links > 0 => n \in Named(s.ino, s.blk)

NoOrphans == Intact => AllNamed(Current)

\* Run after run, with runs that end early at any point and images that fill
\* up, the tool is a tree that a run extends and that is saved at one moment,
\* when the inodes are written; what a run does before it changes nothing of
\* what was saved.
Implements == Abs!TSpec

\* `blocks in single ndirect block' (uxlfs.c:26): a block of addresses has
\* BINS of them.  An index leads past its end for one block of a file only,
\* the one behind the last that an inode can address.
IndexFaultsAtEnd ==
  pc = "overrun" =>
    /\ meta.ino[copy.inum].mode = "file"
    /\ meta.ino[copy.inum].filelength = NDIRECT + BINS + BINS * BINS

\* `single ndirect block' (uxlfs.c:97): what an inode names as such holds
\* addresses.
NdirectHoldsAddresses == pc # "garbage"
----------------------------------------------------------------------------
(* The inductive invariant, of what a run has before it and of what it      *)
(* would leave behind.                                                      *)

\* Blocks of addresses hold addresses; a block that is free was never written.
Clean(s) ==
  /\ \A p \in AddressBlocks(s.ino, s.blk) : s.blk[p].kind \in {"zero", "addresses"}
  /\ \A p \in Blocks \ s.map : s.blk[p] = Zero

\* What a file or a directory is long is there, in blocks of its own kind.
Filled(s) ==
  \A n \in Inum : \A e \in 0 .. (s.ino[n].filelength - 1) :
    LET isfile == s.ino[n].mode = "file"
        p      == PhysBlock(s.ino, s.blk, n, IF isfile THEN e ELSE e \div EPB)
    IN /\ p # 0
       /\ s.blk[p].kind = IF isfile THEN "data" ELSE "entries"
       /\ ~isfile => EntryAt(s.ino, s.blk, n, e).inum \in Inum

\* A free inode is empty, and an entry of a directory took one that was free.
Unused(s) ==
  /\ \A n \in FreeInodes(s) : s.ino[n].mode = "none" /\ s.ino[n].filelength = 0
  /\ \A n \in Inum : s.ino[n].mode # "file" => s.ino[n].filelength + s.free_inodes <= TOTAL_INODES

\* The names that make the tree: . and .. lead back.
TreeNames == Names \ {Dot, DotDot}

\* An inode has one name at most, the root and what was not finished have none.
Sole(s) ==
  \A n, m \in Inum : \A e \in 0 .. (s.ino[n].filelength - 1), f \in 0 .. (s.ino[m].filelength - 1) :
    LET a == EntryAt(s.ino, s.blk, n, e)
        b == EntryAt(s.ino, s.blk, m, f)
    IN a.name \in TreeNames =>
         /\ a.inum # ROOT_INODE /\ s.ino[a.inum].mode # "none"
         /\ b.name \in TreeNames /\ b.inum = a.inum => n = m /\ e = f

SInv(s) == Owned(s) /\ Counted(s) /\ Clean(s) /\ Filled(s) /\ Unused(s) /\ AllNamed(s) /\ Sole(s)

\* The inode that cpin writes is new: what is saved knows nothing of it.
Copying ==
  /\ copy.inum \in FreeInodes(image) /\ meta.ino[copy.inum].links > 0
  /\ meta.ino[copy.inum].mode = "file"
  /\ pc = "copy" => copy.left > 0

\* What sync_fs has written by now.
Synced ==
  /\ pc = "off" => meta = image
  /\ pc \in {"inodes", "bitmap"} =>
       image.free_inodes = meta.free_inodes /\ image.free_data = meta.free_data
  /\ pc = "bitmap" => image.ino = meta.ino

RunInv ==
  IF aborted THEN pc \notin {"copy", "overrun"}
  ELSE /\ Synced
       /\ pc # "overrun" => SInv(Current)
       /\ pc \in {"ready", "copy", "overrun"} => FreeInodes(meta) \subseteq FreeInodes(image)
       /\ pc \in {"copy", "overrun"} => Copying

IInv == TypeOK /\ RunInv /\ IndexFaultsAtEnd /\ NdirectHoldsAddresses
=============================================================================
