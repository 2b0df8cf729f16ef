----------------------------- MODULE UxlFsProofs -----------------------------
(***************************************************************************)
(* UxlFs for any numbers of inodes and blocks, any files and names: inodes,*)
(* blocks of addresses, bitmap and counts agree after every run that is    *)
(* not written over a broken one, every inode in use has a name, and what  *)
(* the runs do to the disk is what UxlTree says they do to a tree.         *)
(***************************************************************************)
EXTENDS UxlFs, FiniteSetTheorems, WellFoundedInduction, TLAPS

Key == 0 .. (NDIRECT + 1)   \* the addresses of an inode
Sub == 0 .. (BINS - 1)      \* those of a block
Address == Blocks \cup {0}

State == [ino : [Inum -> Inode], map : SUBSET Blocks, free_inodes : Nat, free_data : Nat,
          blk : [Blocks -> Content], stop : {"no", "panic", "exit", "overrun", "garbage"}]

\* What the assumptions say of the constants, and where 0 and the root lie.
LEMMA Numbers ==
  /\ TOTAL_INODES \in Nat /\ TOTAL_INODES > 2 /\ TOTAL_DATA \in Nat \ {0}
  /\ NDIRECT \in Nat \ {0} /\ BINS \in Nat \ {0} /\ EPB \in Nat \ {0, 1}
  /\ 0 \notin Blocks /\ Blocks \subseteq Nat /\ 0 \notin Inum /\ ROOT_INODE \in Inum
  /\ 0 \in Key /\ NDIRECT \in Key /\ NDIRECT + 1 \in Key /\ NoName \notin Names
<1>1. /\ TOTAL_INODES \in Nat /\ TOTAL_INODES > 2 /\ TOTAL_DATA \in Nat \ {0}
      /\ NDIRECT \in Nat \ {0} /\ BINS \in Nat \ {0} /\ EPB \in Nat \ {0, 1} /\ NoName \notin Names
  BY UxlFsAssumption DEF UxlFsAssumption
<1>2. 0 \notin Blocks /\ Blocks \subseteq Nat
  BY <1>1 DEF Blocks
<1>3. 0 \notin Inum /\ ROOT_INODE \in Inum
  BY <1>1 DEF Inum, ROOT_INODE
<1>4. 0 \in Key /\ NDIRECT \in Key /\ NDIRECT + 1 \in Key
  BY <1>1 DEF Key
<1> QED
  BY <1>1, <1>2, <1>3, <1>4

-----------------------------------------------------------------------------
(* Addresses *)

\* What a block is by its kind.
LEMMA Kinds ==
  ASSUME NEW c \in Content
  PROVE  /\ c.kind \in {"zero", "addresses", "entries", "data"}
         /\ (c.kind = "zero" => c = Zero)
         /\ (c.kind = "addresses" => c.at \in [Sub -> Address])
         /\ (c.kind = "entries" =>
               c.at \in [0 .. (EPB - 1) -> [inum : Inum \cup {0}, name : Names \cup {NoName, Dot, DotDot}]])
<1>1. CASE c = Zero
  BY <1>1 DEF Zero
<1>2. CASE c \in [kind : {"addresses"}, at : [Sub -> Address]]
  <2>1. c.kind = "addresses" /\ c.at \in [Sub -> Address]
    BY <1>2
  <2> QED
    BY <2>1
<1>3. CASE c \in [kind : {"entries"}, at : [0 .. (EPB - 1) ->
                     [inum : Inum \cup {0}, name : Names \cup {NoName, Dot, DotDot}]]]
  <2> DEFINE E == [0 .. (EPB - 1) -> [inum : Inum \cup {0}, name : Names \cup {NoName, Dot, DotDot}]]
  <2> HIDE DEF E
  <2>1. c.kind = "entries" /\ c.at \in E
    BY <1>3 DEF E
  <2> QED
    BY <2>1 DEF E
<1>4. CASE c \in [kind : {"data"}, value : Inum \X Nat]
  <2>1. c.kind = "data"
    BY <1>4
  <2> QED
    BY <2>1
<1> QED
  BY <1>1, <1>2, <1>3, <1>4 DEF Content, Sub, Address

\* What is read at a place of a block is an address; past the end, or in a block
\* of zeros, there is none.
LEMMA AddressAtIs ==
  ASSUME NEW b \in [Blocks -> Content], NEW p \in Address, NEW k \in Nat
  PROVE  /\ AddressAt(b, p, k) \in Address
         /\ (AddressAt(b, p, k) # 0 => k \in Sub /\ p \in Blocks)
         /\ (p = 0 \/ b[p] = Zero => AddressAt(b, p, k) = 0)
<1>1. CASE p = 0 \/ k >= BINS
  BY <1>1, Numbers DEF AddressAt, Address, Sub
<1>2. CASE p # 0 /\ ~ (k >= BINS)
  <2>1. p \in Blocks /\ b[p] \in Content /\ k \in Sub
    <3>1. p \in Blocks
      BY <1>2 DEF Address
    <3>2. k \in Sub
      BY <1>2, Numbers DEF Sub
    <3> QED
      BY <3>1, <3>2
  <2>2. CASE b[p].kind \in {"data", "entries"}
    BY <1>2, <2>1, <2>2 DEF AddressAt, Address, Zero
  <2>3. CASE b[p].kind = "zero"
    BY <1>2, <2>1, <2>3 DEF AddressAt, AddressIn, Address, Zero
  <2>4. CASE b[p].kind = "addresses"
    <3>1. AddressAt(b, p, k) = b[p].at[k]
      BY <1>2, <2>4 DEF AddressAt, AddressIn
    <3>2. b[p].at[k] \in Address
      BY <2>1, <2>4, Kinds
    <3>3. b[p] # Zero
      BY <2>4 DEF Zero
    <3> QED
      BY <1>2, <2>1, <3>1, <3>2, <3>3
  <2> QED
    BY <2>1, <2>2, <2>3, <2>4, Kinds
<1> QED
  BY <1>1, <1>2

\* A block is one of addresses if the last two of an inode lead to it, or a
\* block to which the last one does.
LEMMA AddressBlockIs ==
  ASSUME NEW s \in State, NEW p \in Blocks
  PROVE  p \in AddressBlocks(s.ino, s.blk) <=>
           \/ \E n \in Inum : \E k \in {NDIRECT, NDIRECT + 1} : s.ino[n].addr[k] = p
           \/ \E n \in Inum : \E k \in Sub : AddressAt(s.blk, s.ino[n].addr[NDIRECT + 1], k) = p
<1>1. p # 0
  BY Numbers
<1> QED
  BY <1>1 DEF AddressBlocks, Sub

\* The addresses of an inode lead to blocks or nowhere, and so do those of blocks.
LEMMA AddressesOfInode ==
  ASSUME NEW s \in State, NEW n \in Inum
  PROVE  /\ s.ino[n] \in Inode /\ \A k \in Key : s.ino[n].addr[k] \in Address
         /\ AddressBlocks(s.ino, s.blk) \subseteq Blocks
<1>1. s.ino[n] \in Inode /\ \A m \in Inum : \A k \in Key : s.ino[m].addr[k] \in Address
  <2>1. \A m \in Inum : s.ino[m] \in Inode
    BY DEF State
  <2>2. ASSUME NEW m \in Inum, NEW k \in Key
        PROVE  s.ino[m].addr[k] \in Address
    <3>1. s.ino[m].addr \in [Key -> Address]
      BY <2>1 DEF Inode, Key, Address
    <3> QED
      BY <3>1
  <2> QED
    BY <2>1, <2>2
<1>2. s.blk \in [Blocks -> Content]
  BY DEF State
<1>3. \A m \in Inum, k \in Sub : AddressAt(s.blk, s.ino[m].addr[NDIRECT + 1], k) \in Address
  <2> TAKE m \in Inum, k \in Sub
  <2>1. s.ino[m].addr[NDIRECT + 1] \in Address
    BY <1>1, Numbers
  <2>0. k \in Nat
    BY Numbers DEF Sub
  <2> QED
    BY <1>2, <2>0, <2>1, AddressAtIs
<1>4. \A m \in Inum : \A k \in {NDIRECT, NDIRECT + 1} : s.ino[m].addr[k] \in Address
  BY <1>1, Numbers
<1>5. AddressBlocks(s.ino, s.blk) \subseteq Blocks
  BY <1>3, <1>4 DEF AddressBlocks, Sub, Address
<1> QED
  BY <1>1, <1>5

\* The references of a state, and what they are worth.
LEMMA ReferenceIs ==
  ASSUME NEW s \in State, NEW r \in References(s.ino, s.blk)
  PROVE  /\ Value(s.ino, s.blk, r) \in Address
         /\ \/ \E n \in Inum, k \in Key : r = <<"inode", n, k>> /\ Value(s.ino, s.blk, r) = s.ino[n].addr[k]
            \/ \E p \in AddressBlocks(s.ino, s.blk), k \in Sub :
                 r = <<"block", p, k>> /\ Value(s.ino, s.blk, r) = AddressAt(s.blk, p, k)
<1>1. CASE r \in {"inode"} \X Inum \X Key
  <2>1. PICK n \in Inum, k \in Key : r = <<"inode", n, k>>
    BY <1>1
  <2>2. Value(s.ino, s.blk, r) = s.ino[n].addr[k]
    BY <2>1 DEF Value
  <2> QED
    BY <2>1, <2>2, AddressesOfInode
<1>2. CASE r \in {"block"} \X AddressBlocks(s.ino, s.blk) \X Sub
  <2>1. PICK p \in AddressBlocks(s.ino, s.blk), k \in Sub : r = <<"block", p, k>>
    BY <1>2
  <2>2. Value(s.ino, s.blk, r) = AddressAt(s.blk, p, k)
    BY <2>1 DEF Value
  <2>3. s.blk \in [Blocks -> Content] /\ p \in Address /\ k \in Nat
    <3>1. s.blk \in [Blocks -> Content]
      BY DEF State
    <3>2. p \in Address
      BY AddressesOfInode, Numbers DEF Address
    <3>3. k \in Nat
      BY Numbers DEF Sub
    <3> QED
      BY <3>1, <3>2, <3>3
  <2>4. Value(s.ino, s.blk, r) \in Address
    BY <2>2, <2>3, AddressAtIs
  <2> QED
    BY <2>1, <2>2, <2>4
<1> QED
  BY <1>1, <1>2 DEF References, Key, Sub

\* A place in an inode, and its value.
LEMMA InodeReference ==
  ASSUME NEW s \in State, NEW n \in Inum, NEW k \in Key
  PROVE  /\ <<"inode", n, k>> \in References(s.ino, s.blk)
         /\ Value(s.ino, s.blk, <<"inode", n, k>>) = s.ino[n].addr[k]
BY DEF References, Value, Key

\* A place in a block of addresses, and its value.
LEMMA BlockReference ==
  ASSUME NEW s \in State, NEW p \in AddressBlocks(s.ino, s.blk), NEW k \in Sub
  PROVE  /\ <<"block", p, k>> \in References(s.ino, s.blk)
         /\ Value(s.ino, s.blk, <<"block", p, k>>) = AddressAt(s.blk, p, k)
BY DEF References, Value, Sub

-----------------------------------------------------------------------------
(* A block more *)

Refs(s) == References(s.ino, s.blk)
Val(s, r) == Value(s.ino, s.blk, r)
Tables(s) == AddressBlocks(s.ino, s.blk)

\* Of s, blocks may have been allocated and addresses stored where there were
\* none, and nothing else.
Grown(s, t) ==
  /\ t \in State /\ t.free_inodes = s.free_inodes
  /\ \A n \in Inum : /\ t.ino[n].mode = s.ino[n].mode /\ t.ino[n].links = s.ino[n].links
                     /\ t.ino[n].filelength = s.ino[n].filelength
  /\ Tables(s) \subseteq Tables(t) /\ s.map \subseteq t.map
  /\ \A r \in Refs(s) : Val(s, r) # 0 => Val(t, r) = Val(s, r)
  /\ \A p \in Blocks \ Tables(t) : t.blk[p] = s.blk[p]

\* Owners, clean blocks, and their number.
Sound(s) ==
  /\ s \in State /\ Owned(s) /\ Clean(s)
  /\ s.free_data = TOTAL_DATA - Cardinality(s.map)

\* More blocks of addresses, more places.
LEMMA RefsStay ==
  ASSUME NEW s, NEW t, Tables(s) \subseteq Tables(t)
  PROVE  Refs(s) \subseteq Refs(t)
BY DEF Refs, Tables, References

\* Grown is a preorder: reflexive ...
LEMMA GrownSame ==
  ASSUME NEW s \in State
  PROVE  Grown(s, s)
BY DEF Grown

\* ... and transitive.
LEMMA GrownFurther ==
  ASSUME NEW s, NEW t, NEW u, Grown(s, t), Grown(t, u)
  PROVE  Grown(s, u)
<1>1. Refs(s) \subseteq Refs(t)
  BY RefsStay DEF Grown
<1>2. \A r \in Refs(s) : Val(s, r) # 0 => Val(u, r) = Val(s, r)
  BY <1>1 DEF Grown
<1>3. \A p \in Blocks \ Tables(u) : u.blk[p] = s.blk[p]
  BY DEF Grown
<1>4. \A n \in Inum : /\ u.ino[n].mode = s.ino[n].mode /\ u.ino[n].links = s.ino[n].links
                      /\ u.ino[n].filelength = s.ino[n].filelength
  BY DEF Grown
<1>5. Tables(s) \subseteq Tables(u) /\ s.map \subseteq u.map /\ u \in State /\ u.free_inodes = s.free_inodes
  BY DEF Grown
<1> QED
  BY <1>2, <1>3, <1>4, <1>5 DEF Grown

\* Owned, in these words.
LEMMA OwnedIs ==
  ASSUME NEW s \in State
  PROVE  Owned(s) <=> /\ \A r, q \in Refs(s) : Val(s, r) = Val(s, q) /\ Val(s, r) # 0 => r = q
                      /\ \A r \in Refs(s) : Val(s, r) \in s.map \cup {0}
                      /\ \A p \in s.map : \E r \in Refs(s) : Val(s, r) = p
<1>1. 0 \notin s.map
  BY Numbers DEF State
<1>2. {Val(s, r) : r \in Refs(s)} \ {0} = s.map
        <=> /\ \A r \in Refs(s) : Val(s, r) \in s.map \cup {0}
            /\ \A p \in s.map : \E r \in Refs(s) : Val(s, r) = p
  BY <1>1
<1>3. Owned(s) <=> /\ \A r, q \in Refs(s) : Val(s, r) = Val(s, q) /\ Val(s, r) # 0 => r = q
                   /\ {Val(s, r) : r \in Refs(s)} \ {0} = s.map
  BY DEF Owned, Refs, Val
<1> QED
  BY <1>2, <1>3

\* A fresh block, stored at one place.
LEMMA OneMore ==
  ASSUME NEW s \in State, NEW t \in State, Owned(s), NEW f \in Blocks \ s.map,
         NEW r0 \in Refs(s), Val(s, r0) = 0, t.map = s.map \cup {f},
         Refs(s) \subseteq Refs(t), Val(t, r0) = f,
         \A r \in Refs(s) : r # r0 => Val(t, r) = Val(s, r),
         \A r \in Refs(t) \ Refs(s) : Val(t, r) = 0
  PROVE  Owned(t)
<1>1. /\ \A r, q \in Refs(s) : Val(s, r) = Val(s, q) /\ Val(s, r) # 0 => r = q
      /\ \A r \in Refs(s) : Val(s, r) \in s.map \cup {0}
      /\ \A p \in s.map : \E r \in Refs(s) : Val(s, r) = p
  BY OwnedIs
<1>2. f # 0 /\ f \notin s.map /\ 0 \notin s.map
  BY Numbers DEF State
<1>3. \A r, q \in Refs(t) : Val(t, r) = Val(t, q) /\ Val(t, r) # 0 => r = q
  <2> SUFFICES ASSUME NEW r \in Refs(t), NEW q \in Refs(t), Val(t, r) = Val(t, q), Val(t, r) # 0
               PROVE  r = q
    OBVIOUS
  <2>1. r \in Refs(s) /\ q \in Refs(s)
    OBVIOUS
  <2>2. CASE r # r0 /\ q # r0
    BY <1>1, <2>1, <2>2
  <2>3. CASE r = r0 /\ q # r0
    BY <1>1, <1>2, <2>1, <2>3
  <2>4. CASE r # r0 /\ q = r0
    BY <1>1, <1>2, <2>1, <2>4
  <2> QED
    BY <2>2, <2>3, <2>4
<1>4. \A r \in Refs(t) : Val(t, r) \in t.map \cup {0}
  BY <1>1
<1>5. \A p \in t.map : \E r \in Refs(t) : Val(t, r) = p
  <2> SUFFICES ASSUME NEW p \in t.map PROVE \E r \in Refs(t) : Val(t, r) = p
    OBVIOUS
  <2>1. CASE p = f
    BY <2>1
  <2>2. CASE p # f
    <3>1. PICK r \in Refs(s) : Val(s, r) = p
      BY <1>1, <2>2
    <3>2. r # r0
      BY <2>2, <3>1, <1>2
    <3> QED
      BY <3>1, <3>2
  <2> QED
    BY <2>1, <2>2
<1> QED
  BY <1>3, <1>4, <1>5, OwnedIs

\* Sets of blocks are finite, and one block more counts one more.
LEMMA FiniteBlocks ==
  ASSUME NEW s \in State
  PROVE  /\ IsFiniteSet(s.map) /\ Cardinality(s.map) \in Nat /\ Cardinality(s.map) <= TOTAL_DATA
         /\ (Cardinality(s.map) = TOTAL_DATA => s.map = Blocks)
         /\ \A f \in Blocks \ s.map : Cardinality(s.map \cup {f}) = Cardinality(s.map) + 1
<1>1. IsFiniteSet(Blocks) /\ Cardinality(Blocks) = TOTAL_DATA
  <2>1. 1 \in Int /\ TOTAL_DATA \in Int /\ TOTAL_DATA >= 1 /\ TOTAL_DATA - 1 + 1 = TOTAL_DATA
    BY Numbers
  <2> QED
    BY <2>1, FS_Interval DEF Blocks
<1>2. s.map \subseteq Blocks
  BY DEF State
<1>3. IsFiniteSet(s.map) /\ Cardinality(s.map) <= Cardinality(Blocks)
      /\ (Cardinality(s.map) = Cardinality(Blocks) => s.map = Blocks)
  BY <1>1, <1>2, FS_Subset
<1>4. Cardinality(s.map) \in Nat
  BY <1>3, FS_CardinalityType
<1>5. \A f \in Blocks \ s.map : Cardinality(s.map \cup {f}) = Cardinality(s.map) + 1
  BY <1>3, FS_AddElement
<1> QED
  BY <1>1, <1>3, <1>4, <1>5

\* What Clean says of a table, and of a block that is free.
LEMMA FreshIsEmpty ==
  ASSUME NEW s \in State, Clean(s), Owned(s), NEW f \in Blocks \ s.map
  PROVE  /\ s.blk[f] = Zero /\ f \notin Tables(s)
         /\ \A k \in Sub : AddressAt(s.blk, f, k) = 0
<1>1. s.blk[f] = Zero
  BY DEF Clean
<1>2. f \notin Tables(s)
  <2> SUFFICES ASSUME f \in Tables(s) PROVE FALSE
    OBVIOUS
  <2>1. f # 0 /\ \A r \in Refs(s) : Val(s, r) \in s.map \cup {0}
    BY Numbers, OwnedIs
  <2>2. \A r \in Refs(s) : Val(s, r) # f
    BY <2>1
  <2>3. ASSUME NEW n \in Inum, NEW k \in Key
        PROVE  s.ino[n].addr[k] # f
    <3>1. <<"inode", n, k>> \in Refs(s) /\ Val(s, <<"inode", n, k>>) = s.ino[n].addr[k]
      BY InodeReference DEF Refs, Val
    <3> QED
      BY <2>2, <3>1
  <2>4. PICK n \in Inum, k \in Sub : AddressAt(s.blk, s.ino[n].addr[NDIRECT + 1], k) = f
    BY <2>3, AddressBlockIs, Numbers DEF Tables
  <2>5. s.ino[n].addr[NDIRECT + 1] \in Tables(s)
    <3>1. s.ino[n].addr[NDIRECT + 1] \in Address /\ s.blk \in [Blocks -> Content] /\ k \in Nat
      BY AddressesOfInode, Numbers DEF State, Sub
    <3>2. s.ino[n].addr[NDIRECT + 1] \in Blocks
      BY <2>1, <2>4, <3>1, AddressAtIs
    <3> QED
      BY <3>2, AddressBlockIs DEF Tables
  <2> QED
    BY <2>2, <2>4, <2>5, BlockReference DEF Refs, Val, Tables
<1>3. ASSUME NEW k \in Sub
      PROVE  AddressAt(s.blk, f, k) = 0
  <2>1. s.blk \in [Blocks -> Content] /\ f \in Address /\ k \in Nat
    BY Numbers DEF State, Sub, Address
  <2> QED
    BY <1>1, <2>1, AddressAtIs
<1> QED
  BY <1>1, <1>2, <1>3

\* The address of an inode, as an argument of AddressAt.
LEMMA LastAddress ==
  ASSUME NEW s \in State, NEW n \in Inum, NEW k \in Sub
  PROVE  /\ s.blk \in [Blocks -> Content] /\ s.ino[n].addr[NDIRECT + 1] \in Address /\ k \in Nat
         /\ (s.ino[n].addr[NDIRECT + 1] = 0 => AddressAt(s.blk, s.ino[n].addr[NDIRECT + 1], k) = 0)
         /\ (s.ino[n].addr[NDIRECT + 1] # 0 => s.ino[n].addr[NDIRECT + 1] \in Tables(s))
<1>1. s.blk \in [Blocks -> Content]
  BY DEF State
<1>2. s.ino[n].addr[NDIRECT + 1] \in Address
  BY AddressesOfInode, Numbers
<1>3. k \in Nat
  BY Numbers DEF Sub
<1>4. s.ino[n].addr[NDIRECT + 1] # 0 => s.ino[n].addr[NDIRECT + 1] \in Tables(s)
  BY <1>2, AddressBlockIs DEF Tables, Address
<1> QED
  BY <1>1, <1>2, <1>3, <1>4, AddressAtIs

\* A fresh block stored at an empty place of an inode: one owner more, and
\* nothing else changes.
LEMMA StoreInInode ==
  ASSUME NEW s, Sound(s), NEW n \in Inum, NEW k \in Key, s.ino[n].addr[k] = 0,
         NEW f \in Blocks \ s.map, NEW t \in State, t.ino[n].addr[k] = f,
         \A m \in Inum, j \in Key : m # n \/ j # k => t.ino[m].addr[j] = s.ino[m].addr[j],
         \A m \in Inum : /\ t.ino[m].mode = s.ino[m].mode /\ t.ino[m].links = s.ino[m].links
                         /\ t.ino[m].filelength = s.ino[m].filelength,
         t.blk = s.blk, t.map = s.map \cup {f},
         t.free_inodes = s.free_inodes, t.free_data = s.free_data - 1
  PROVE  Sound(t) /\ Grown(s, t)
<1> USE DEF Tables, Refs, Val
<1>0. s \in State /\ Owned(s) /\ Clean(s)
  BY DEF Sound
<1>1. s.blk[f] = Zero /\ f \notin Tables(s) /\ \A j \in Sub : AddressAt(s.blk, f, j) = 0
  BY <1>0, FreshIsEmpty
<1>2. Tables(s) \subseteq Tables(t)
  <2> SUFFICES ASSUME NEW p \in Tables(s) PROVE p \in Tables(t)
    OBVIOUS
  <2>1. p \in Blocks /\ p # 0
    BY <1>0, AddressesOfInode, Numbers DEF Inum
  <2>2. CASE \E m \in Inum : \E j \in {NDIRECT, NDIRECT + 1} : s.ino[m].addr[j] = p
    <3>1. PICK m \in Inum, j \in {NDIRECT, NDIRECT + 1} : s.ino[m].addr[j] = p
      BY <2>2
    <3>2. t.ino[m].addr[j] = p
      BY <2>1, <3>1, Numbers
    <3> QED
      BY <2>1, <3>2, AddressBlockIs
  <2>3. CASE \E m \in Inum : \E j \in Sub : AddressAt(s.blk, s.ino[m].addr[NDIRECT + 1], j) = p
    <3>1. PICK m \in Inum, j \in Sub : AddressAt(s.blk, s.ino[m].addr[NDIRECT + 1], j) = p
      BY <2>3
    <3>2. s.ino[m].addr[NDIRECT + 1] # 0
      BY <1>0, <2>1, <3>1, LastAddress
    <3>3. t.ino[m].addr[NDIRECT + 1] = s.ino[m].addr[NDIRECT + 1]
      BY <3>2, Numbers
    <3> QED
      BY <2>1, <3>1, <3>3, AddressBlockIs
  <2> QED
    BY <1>0, <2>1, <2>2, <2>3, AddressBlockIs
<1>3. Tables(t) \subseteq Tables(s) \cup {f}
  <2> SUFFICES ASSUME NEW p \in Tables(t), p # f PROVE p \in Tables(s)
    OBVIOUS
  <2>1. p \in Blocks /\ p # 0
    BY AddressesOfInode, Numbers DEF Inum
  <2>2. CASE \E m \in Inum : \E j \in {NDIRECT, NDIRECT + 1} : t.ino[m].addr[j] = p
    <3>1. PICK m \in Inum, j \in {NDIRECT, NDIRECT + 1} : t.ino[m].addr[j] = p
      BY <2>2
    <3>2. s.ino[m].addr[j] = p
      BY <3>1, Numbers
    <3> QED
      BY <1>0, <2>1, <3>2, AddressBlockIs
  <2>3. CASE \E m \in Inum : \E j \in Sub : AddressAt(t.blk, t.ino[m].addr[NDIRECT + 1], j) = p
    <3>1. PICK m \in Inum, j \in Sub : AddressAt(t.blk, t.ino[m].addr[NDIRECT + 1], j) = p
      BY <2>3
    <3>2. t.ino[m].addr[NDIRECT + 1] # f
      BY <1>1, <2>1, <3>1
    <3>3. t.ino[m].addr[NDIRECT + 1] = s.ino[m].addr[NDIRECT + 1]
      BY <3>2, Numbers
    <3> QED
      BY <1>0, <2>1, <3>1, <3>3, AddressBlockIs
  <2> QED
    BY <2>1, <2>2, <2>3, AddressBlockIs
<1> DEFINE r0 == <<"inode", n, k>>
<1>4. r0 \in Refs(s) /\ Val(s, r0) = 0 /\ Val(t, r0) = f
  BY <1>0, InodeReference
<1>5. Refs(s) \subseteq Refs(t)
  BY <1>2, RefsStay
<1>6. ASSUME NEW r \in Refs(s), r # r0
      PROVE  Val(t, r) = Val(s, r)
  <2>1. CASE \E m \in Inum, j \in Key : r = <<"inode", m, j>>
    <3>1. PICK m \in Inum, j \in Key : r = <<"inode", m, j>>
      BY <2>1
    <3>2. m # n \/ j # k
      BY <1>6, <3>1
    <3> QED
      BY <1>0, <3>1, <3>2, InodeReference
  <2>2. CASE \E p \in Tables(s), j \in Sub : r = <<"block", p, j>>
    BY <1>0, <1>2, <2>2, BlockReference
  <2> QED
    BY <1>0, <2>1, <2>2, ReferenceIs
<1>7. ASSUME NEW r \in Refs(t) \ Refs(s)
      PROVE  Val(t, r) = 0
  <2>1. PICK p \in Tables(t), j \in Sub : r = <<"block", p, j>> /\ Val(t, r) = AddressAt(t.blk, p, j)
    BY <1>0, InodeReference, ReferenceIs
  <2>2. p \notin Tables(s)
    BY <1>0, <2>1, BlockReference
  <2> QED
    BY <1>1, <1>3, <2>1, <2>2
<1> HIDE DEF r0, Tables, Refs, Val
<1>8. Owned(t)
  BY <1>0, <1>4, <1>5, <1>6, <1>7, OneMore
<1>9. Clean(t)
  BY <1>0, <1>1, <1>3 DEF Clean, Tables, Zero
<1>10. t.free_data = TOTAL_DATA - Cardinality(t.map)
  <2>1. Cardinality(t.map) = Cardinality(s.map) + 1 /\ Cardinality(s.map) \in Nat
    BY <1>0, FiniteBlocks
  <2> QED
    BY <2>1, Numbers DEF Sound
<1>11. Grown(s, t)
  BY <1>2, <1>4, <1>6 DEF Grown
<1> QED
  BY <1>8, <1>9, <1>10, <1>11 DEF Sound

\* The same at an empty place of a block of addresses, which is written as a
\* whole.
LEMMA StoreInBlock ==
  ASSUME NEW s, Sound(s), NEW p \in Tables(s), NEW k \in Sub, AddressAt(s.blk, p, k) = 0,
         NEW f \in Blocks \ s.map, NEW t \in State, t.blk[p].kind = "addresses",
         \A q \in Blocks, j \in Sub :
           AddressAt(t.blk, q, j) = IF q = p /\ j = k THEN f ELSE AddressAt(s.blk, q, j),
         \A q \in Blocks : q # p => t.blk[q] = s.blk[q],
         t.ino = s.ino, t.map = s.map \cup {f},
         t.free_inodes = s.free_inodes, t.free_data = s.free_data - 1
  PROVE  Sound(t) /\ Grown(s, t)
<1> USE DEF Tables, Refs, Val
<1>0. s \in State /\ Owned(s) /\ Clean(s)
  BY DEF Sound
<1>1. s.blk[f] = Zero /\ f \notin Tables(s) /\ \A j \in Sub : AddressAt(s.blk, f, j) = 0
  BY <1>0, FreshIsEmpty
<1>a. p \in Blocks /\ f # p
  BY <1>0, <1>1, AddressesOfInode, Numbers DEF Inum
\* What a block of addresses leads to, before and after.
<1>b. ASSUME NEW m \in Inum, NEW j \in Sub
      PROVE  \/ AddressAt(t.blk, t.ino[m].addr[NDIRECT + 1], j) = AddressAt(s.blk, s.ino[m].addr[NDIRECT + 1], j)
             \/ /\ AddressAt(t.blk, t.ino[m].addr[NDIRECT + 1], j) = f
                /\ AddressAt(s.blk, s.ino[m].addr[NDIRECT + 1], j) = 0
  <2>1. CASE s.ino[m].addr[NDIRECT + 1] = 0
    BY <1>0, <2>1, LastAddress
  <2>2. CASE s.ino[m].addr[NDIRECT + 1] # 0
    <3>1. s.ino[m].addr[NDIRECT + 1] \in Blocks
      BY <1>0, <2>2, LastAddress DEF Address
    <3> QED
      BY <3>1
  <2> QED
    BY <2>1, <2>2
<1>2. Tables(s) \subseteq Tables(t)
  <2> SUFFICES ASSUME NEW q \in Tables(s) PROVE q \in Tables(t)
    OBVIOUS
  <2>1. q \in Blocks /\ q # 0
    BY <1>0, AddressesOfInode, Numbers DEF Inum
  <2>2. CASE \E m \in Inum : \E j \in {NDIRECT, NDIRECT + 1} : s.ino[m].addr[j] = q
    BY <2>1, <2>2, AddressBlockIs
  <2>3. CASE \E m \in Inum : \E j \in Sub : AddressAt(s.blk, s.ino[m].addr[NDIRECT + 1], j) = q
    <3>1. PICK m \in Inum, j \in Sub : AddressAt(s.blk, s.ino[m].addr[NDIRECT + 1], j) = q
      BY <2>3
    <3>2. AddressAt(t.blk, t.ino[m].addr[NDIRECT + 1], j) = q
      BY <1>b, <2>1, <3>1
    <3> QED
      BY <2>1, <3>2, AddressBlockIs
  <2> QED
    BY <1>0, <2>1, <2>2, <2>3, AddressBlockIs
<1>3. Tables(t) \subseteq Tables(s) \cup {f}
  <2> SUFFICES ASSUME NEW q \in Tables(t), q # f PROVE q \in Tables(s)
    OBVIOUS
  <2>1. q \in Blocks /\ q # 0
    BY AddressesOfInode, Numbers DEF Inum
  <2>2. CASE \E m \in Inum : \E j \in {NDIRECT, NDIRECT + 1} : t.ino[m].addr[j] = q
    BY <1>0, <2>1, <2>2, AddressBlockIs
  <2>3. CASE \E m \in Inum : \E j \in Sub : AddressAt(t.blk, t.ino[m].addr[NDIRECT + 1], j) = q
    <3>1. PICK m \in Inum, j \in Sub : AddressAt(t.blk, t.ino[m].addr[NDIRECT + 1], j) = q
      BY <2>3
    <3>2. AddressAt(s.blk, s.ino[m].addr[NDIRECT + 1], j) = q
      BY <1>b, <3>1
    <3> QED
      BY <1>0, <2>1, <3>2, AddressBlockIs
  <2> QED
    BY <2>1, <2>2, <2>3, AddressBlockIs
<1> DEFINE r0 == <<"block", p, k>>
<1>4. r0 \in Refs(s) /\ Val(s, r0) = 0 /\ Val(t, r0) = f
  BY <1>0, <1>2, <1>a, BlockReference
<1>5. Refs(s) \subseteq Refs(t)
  BY <1>2, RefsStay
<1>6. ASSUME NEW r \in Refs(s), r # r0
      PROVE  Val(t, r) = Val(s, r)
  <2>1. CASE \E m \in Inum, j \in Key : r = <<"inode", m, j>>
    BY <1>0, <2>1, InodeReference
  <2>2. CASE \E q \in Tables(s), j \in Sub : r = <<"block", q, j>>
    <3>1. PICK q \in Tables(s), j \in Sub : r = <<"block", q, j>>
      BY <2>2
    <3>2. q \in Blocks /\ (q # p \/ j # k)
      BY <1>0, <1>6, <3>1, AddressesOfInode, Numbers
    <3>3. Val(t, r) = AddressAt(t.blk, q, j) /\ Val(s, r) = AddressAt(s.blk, q, j)
      BY <1>0, <1>2, <3>1, BlockReference
    <3> QED
      BY <3>2, <3>3
  <2> QED
    BY <1>0, <2>1, <2>2, ReferenceIs
<1>7. ASSUME NEW r \in Refs(t) \ Refs(s)
      PROVE  Val(t, r) = 0
  <2>1. PICK q \in Tables(t), j \in Sub : r = <<"block", q, j>> /\ Val(t, r) = AddressAt(t.blk, q, j)
    BY <1>0, InodeReference, ReferenceIs
  <2>2. q \notin Tables(s)
    BY <1>0, <2>1, BlockReference
  <2>3. q = f
    BY <1>3, <2>2
  <2> QED
    BY <1>1, <1>a, <2>1, <2>3
<1> HIDE DEF r0, Tables, Refs, Val
<1>8. Owned(t)
  BY <1>0, <1>4, <1>5, <1>6, <1>7, OneMore
<1>9. Clean(t)
  <2>1. \A q \in Tables(t) : t.blk[q].kind \in {"zero", "addresses"}
    <3> SUFFICES ASSUME NEW q \in Tables(t) PROVE t.blk[q].kind \in {"zero", "addresses"}
      OBVIOUS
    <3>1. CASE q = p
      BY <3>1
    <3>2. CASE q # p
      <4>1. t.blk[q] = s.blk[q]
        BY <3>2, AddressesOfInode, Numbers DEF Tables
      <4>2. CASE q = f
        BY <1>1, <4>1, <4>2 DEF Zero
      <4>3. CASE q # f
        BY <1>0, <1>3, <4>1, <4>3 DEF Clean, Tables
      <4> QED
        BY <4>2, <4>3
    <3> QED
      BY <3>1, <3>2
  <2>2. p \in s.map
    <3>1. p # 0 /\ p \in Tables(s)
      BY <1>a, Numbers
    <3> QED
      BY <1>0, <1>a, FreshIsEmpty
  <2>3. \A q \in Blocks \ t.map : t.blk[q] = Zero
    BY <1>0, <2>2 DEF Clean
  <2> QED
    BY <2>1, <2>3 DEF Clean, Tables
<1>10. t.free_data = TOTAL_DATA - Cardinality(t.map)
  <2>1. Cardinality(t.map) = Cardinality(s.map) + 1 /\ Cardinality(s.map) \in Nat
    BY <1>0, FiniteBlocks
  <2> QED
    BY <2>1, Numbers DEF Sound
<1>11. Grown(s, t)
  <2>1. \A q \in Blocks \ Tables(t) : t.blk[q] = s.blk[q]
    BY <1>2
  <2> QED
    BY <1>2, <1>4, <1>6, <2>1 DEF Grown
<1> QED
  BY <1>8, <1>9, <1>10, <1>11 DEF Sound

-----------------------------------------------------------------------------
(* balloc and iget_phys_block *)

\* A set of numbers has a least one.
LEMMA LeastNat ==
  ASSUME NEW T, T \subseteq Nat, T # {}
  PROVE  \E x \in T : \A y \in T : x <= y
<1> DEFINE less == OpToRel(<, Nat)
<1>1. less = { p \in Nat \X Nat : p[1] < p[2] }
  BY Zenon DEF OpToRel
<1>2. IsWellFoundedOn(less, Nat)
  BY Zenon, NatLessThanWellFounded
<1> HIDE DEF less
<1>3. \A m, n \in Nat : m < n => <<m, n>> \in less
  BY <1>1
<1>4. PICK x \in T : \A y \in T : ~ (<<y, x>> \in less)
  BY <1>2, WFMin
<1>5. ASSUME NEW y \in T, y < x
      PROVE  FALSE
  <2>1. <<y, x>> \in less
    BY <1>3, <1>5
  <2> QED
    BY <1>4, <2>1
<1> QED
  BY <1>4, <1>5

\* The first free block, the first free inode: one of them.
LEMMA MinIs ==
  ASSUME NEW T, T \subseteq Nat, T # {}
  PROVE  Min(T) \in T
BY LeastNat DEF Min

\* A stop changes nothing else.
LEMMA StopIs ==
  ASSUME NEW s \in State, NEW why \in {"no", "panic", "exit", "overrun", "garbage"}, NEW t,
         t = Stop(s, why).s
  PROVE  /\ t \in State /\ t.stop = why /\ t.ino = s.ino /\ t.map = s.map /\ t.blk = s.blk
         /\ t.free_inodes = s.free_inodes /\ t.free_data = s.free_data
         /\ (s.stop = why => t = s)
BY DEF Stop, State

\* ... and so what does not look at it.
LEMMA StopSound ==
  ASSUME NEW s \in State, NEW t \in State, t.ino = s.ino, t.map = s.map, t.blk = s.blk,
         t.free_inodes = s.free_inodes, t.free_data = s.free_data
  PROVE  /\ Grown(s, t) /\ (Sound(s) => Sound(t))
         /\ Tables(t) = Tables(s) /\ Refs(t) = Refs(s) /\ \A r \in Refs(s) : Val(t, r) = Val(s, r)
<1>1. Tables(t) = Tables(s) /\ Refs(t) = Refs(s) /\ \A r \in Refs(s) : Val(t, r) = Val(s, r)
  BY DEF Tables, Refs, Val
<1>2. Grown(s, t)
  BY <1>1 DEF Grown
<1>3. Sound(s) => Sound(t)
  BY <1>1, OwnedIs DEF Sound, Clean, Tables
<1> QED
  BY <1>1, <1>2, <1>3

\* balloc finds the disk full, or a block that was free.
LEMMA BallocIs ==
  ASSUME NEW s, Sound(s), s.stop = "no"
  PROVE  \/ s.map = Blocks /\ balloc(s) = Stop(s, "panic")
         \/ \E f \in Blocks \ s.map, t \in State :
              /\ balloc(s) = [s |-> t, b |-> f] /\ t.map = s.map \cup {f} /\ t.free_data = s.free_data - 1
              /\ t.ino = s.ino /\ t.blk = s.blk /\ t.stop = "no" /\ t.free_inodes = s.free_inodes
<1>0. s \in State
  BY DEF Sound
<1>1. CASE Blocks \ s.map = {}
  <2>1. s.map = Blocks
    BY <1>0, <1>1 DEF State
  <2> QED
    BY <1>1, <2>1 DEF balloc
<1>2. CASE Blocks \ s.map # {}
  <2> DEFINE f == Min(Blocks \ s.map)
             t == [s EXCEPT !.map = s.map \cup {f}, !.free_data = s.free_data - 1]
  <2>1. f \in Blocks \ s.map
    BY <1>2, MinIs, Numbers
  <2>2. balloc(s) = [s |-> t, b |-> f]
    BY <1>2 DEF balloc
  <2> HIDE DEF f
  <2>3. s.free_data - 1 \in Nat
    <3>1. Cardinality(s.map) \in Nat /\ Cardinality(s.map) <= TOTAL_DATA /\ Cardinality(s.map) # TOTAL_DATA
      BY <1>0, <2>1, FiniteBlocks
    <3> QED
      BY <3>1, Numbers DEF Sound
  <2>4. t \in State
    BY <1>0, <2>1, <2>3 DEF State
  <2>5. /\ t.map = s.map \cup {f} /\ t.free_data = s.free_data - 1
        /\ t.ino = s.ino /\ t.blk = s.blk /\ t.stop = "no" /\ t.free_inodes = s.free_inodes
    BY <1>0 DEF State
  <2> QED
    BY <2>1, <2>2, <2>4, <2>5
<1> QED
  BY <1>1, <1>2

\* What a function that looks for a block gives: the block, or a full disk.
Found(s, r) ==
  /\ r = [s |-> r.s, b |-> r.b]
  /\ Sound(r.s) /\ Grown(s, r.s)
  /\ \/ r.s.stop = "no" /\ r.b \in Blocks
     \/ r.s.stop = "panic" /\ r.s.map = Blocks

\* A full disk changes nothing but where the program is.
LEMMA PanicIs ==
  ASSUME NEW s, Sound(s), s.map = Blocks
  PROVE  Found(s, Stop(s, "panic")) /\ Stop(s, "panic").s.stop = "panic"
<1>1. s \in State
  BY DEF Sound
<1> DEFINE t == Stop(s, "panic").s
<1>2. /\ t \in State /\ t.stop = "panic" /\ t.ino = s.ino /\ t.map = s.map /\ t.blk = s.blk
      /\ t.free_inodes = s.free_inodes /\ t.free_data = s.free_data
  BY <1>1, StopIs
<1>4. Stop(s, "panic") = [s |-> t, b |-> Stop(s, "panic").b]
  BY DEF Stop
<1> HIDE DEF t
<1>3. Sound(t) /\ Grown(s, t)
  BY <1>1, <1>2, StopSound
<1> QED
  BY <1>1, <1>2, <1>3, <1>4 DEF Found, t

\* iget_phys_block at an empty address of an inode: balloc, then the address.
LEMMA KeptInInode ==
  ASSUME NEW s \in State, NEW n \in Inum, NEW k \in Key, NEW f \in Blocks, NEW t \in State,
         t.stop = "no", t.ino = s.ino, NEW r, r = KeepInInode([s |-> t, b |-> f], n, k)
  PROVE  /\ r = [s |-> r.s, b |-> r.b]
         /\ r.b = f /\ r.s \in State /\ r.s.stop = "no" /\ r.s.blk = t.blk /\ r.s.map = t.map
         /\ r.s.free_inodes = t.free_inodes /\ r.s.free_data = t.free_data
         /\ r.s.ino[n].addr[k] = f
         /\ \A m \in Inum, j \in Key : m # n \/ j # k => r.s.ino[m].addr[j] = s.ino[m].addr[j]
         /\ \A m \in Inum : /\ r.s.ino[m].mode = s.ino[m].mode /\ r.s.ino[m].links = s.ino[m].links
                            /\ r.s.ino[m].filelength = s.ino[m].filelength
<1> DEFINE addr == [s.ino[n].addr EXCEPT ![k] = f]
           node == [s.ino[n] EXCEPT !.addr = addr]
           u    == [t EXCEPT !.ino = [s.ino EXCEPT ![n] = node]]
<1>1. r = [s |-> u, b |-> f]
  BY DEF KeepInInode, State
<1>2. s.ino[n].addr \in [Key -> Address] /\ s.ino[n] \in Inode /\ s.ino \in [Inum -> Inode]
  BY DEF State, Inode, Key, Address
<1>3. addr \in [Key -> Address] /\ addr[k] = f /\ \A j \in Key : j # k => addr[j] = s.ino[n].addr[j]
  BY <1>2 DEF Address
<1> HIDE DEF addr
<1>4. /\ node \in Inode /\ node.addr = addr /\ node.mode = s.ino[n].mode
      /\ node.links = s.ino[n].links /\ node.filelength = s.ino[n].filelength
  BY <1>2, <1>3 DEF Inode, Key, Address
<1> HIDE DEF node
<1>5. /\ u \in State /\ u.ino = [s.ino EXCEPT ![n] = node] /\ u.stop = "no" /\ u.blk = t.blk
      /\ u.map = t.map /\ u.free_inodes = t.free_inodes /\ u.free_data = t.free_data
  BY <1>2, <1>4 DEF State
<1>6. /\ u.ino[n] = node /\ \A m \in Inum : m # n => u.ino[m] = s.ino[m]
  BY <1>2, <1>5
<1> HIDE DEF u
<1>7. u.ino[n].addr[k] = f /\ \A m \in Inum, j \in Key : m # n \/ j # k => u.ino[m].addr[j] = s.ino[m].addr[j]
  BY <1>3, <1>4, <1>6
<1>8. \A m \in Inum : /\ u.ino[m].mode = s.ino[m].mode /\ u.ino[m].links = s.ino[m].links
                      /\ u.ino[m].filelength = s.ino[m].filelength
  BY <1>4, <1>6
<1>9. r.s = u
  BY <1>1
<1>10. r.b = f /\ r = [s |-> r.s, b |-> r.b]
  BY <1>1
<1>11. /\ r.s \in State /\ r.s.stop = "no" /\ r.s.blk = t.blk /\ r.s.map = t.map
       /\ r.s.free_inodes = t.free_inodes /\ r.s.free_data = t.free_data
  BY <1>5, <1>9
<1>12. r.s.ino[n].addr[k] = f /\ \A m \in Inum, j \in Key : m # n \/ j # k => r.s.ino[m].addr[j] = s.ino[m].addr[j]
  BY <1>7, <1>9
<1>13. \A m \in Inum : /\ r.s.ino[m].mode = s.ino[m].mode /\ r.s.ino[m].links = s.ino[m].links
                       /\ r.s.ino[m].filelength = s.ino[m].filelength
  BY <1>8, <1>9
<1> QED
  BY <1>10, <1>11, <1>12, <1>13

\* inode_addr finds the block behind an address of an inode, or allocates it.
LEMMA InodeAddr ==
  ASSUME NEW s, Sound(s), s.stop = "no", NEW n \in Inum, NEW k \in Key, NEW r, r = inode_addr(s, n, k)
  PROVE  Found(s, r) /\ (r.s.stop = "no" => r.b = r.s.ino[n].addr[k])
<1>0. s \in State
  BY DEF Sound
<1>1. CASE s.ino[n].addr[k] # 0
  <2>1. r = [s |-> s, b |-> s.ino[n].addr[k]]
    BY <1>1 DEF inode_addr
  <2>2. r.b \in Blocks
    BY <1>0, <1>1, <2>1, AddressesOfInode DEF Address
  <2> QED
    BY <1>0, <2>1, <2>2, GrownSame DEF Found
<1>2. CASE s.ino[n].addr[k] = 0
  <2>1. r = KeepInInode(balloc(s), n, k)
    BY <1>2 DEF inode_addr
  <2>2. CASE s.map = Blocks /\ balloc(s) = Stop(s, "panic")
    <3>1. Found(s, balloc(s)) /\ balloc(s).s.stop = "panic"
      BY <2>2, PanicIs
    <3>2. r = balloc(s)
      BY <2>1, <3>1 DEF KeepInInode
    <3> QED
      BY <3>1, <3>2
  <2>3. ASSUME NEW f \in Blocks \ s.map, NEW t \in State,
               balloc(s) = [s |-> t, b |-> f], t.map = s.map \cup {f}, t.free_data = s.free_data - 1,
               t.ino = s.ino, t.blk = s.blk, t.stop = "no", t.free_inodes = s.free_inodes
        PROVE  Found(s, r) /\ (r.s.stop = "no" => r.b = r.s.ino[n].addr[k])
    <3>1. r = KeepInInode([s |-> t, b |-> f], n, k)
      BY <2>1, <2>3
    <3>2. /\ r = [s |-> r.s, b |-> r.b] /\ r.b = f /\ r.s \in State /\ r.s.stop = "no" /\ r.s.blk = t.blk /\ r.s.map = t.map
          /\ r.s.free_inodes = t.free_inodes /\ r.s.free_data = t.free_data
          /\ r.s.ino[n].addr[k] = f
          /\ \A m \in Inum, j \in Key : m # n \/ j # k => r.s.ino[m].addr[j] = s.ino[m].addr[j]
          /\ \A m \in Inum : /\ r.s.ino[m].mode = s.ino[m].mode /\ r.s.ino[m].links = s.ino[m].links
                             /\ r.s.ino[m].filelength = s.ino[m].filelength
      BY <1>0, <2>3, <3>1, KeptInInode
    <3>3. Sound(r.s) /\ Grown(s, r.s)
      BY <1>2, <2>3, <3>2, StoreInInode
    <3> QED
      BY <3>2, <3>3 DEF Found
  <2> QED
    BY <2>2, <2>3, BallocIs
<1> QED
  BY <1>1, <1>2

\* iget_phys_block at an empty address of a block: balloc, then the block.
LEMMA KeptInBlock ==
  ASSUME NEW s \in State, NEW p \in Blocks, s.blk[p].kind \in {"zero", "addresses"}, NEW k \in Sub,
         NEW f \in Blocks, NEW t \in State, t.stop = "no", t.blk = s.blk,
         NEW r, r = KeepInBlock([s |-> t, b |-> f], p, k)
  PROVE  /\ r = [s |-> r.s, b |-> r.b]
         /\ r.b = f /\ r.s \in State /\ r.s.stop = "no" /\ r.s.ino = t.ino /\ r.s.map = t.map
         /\ r.s.free_inodes = t.free_inodes /\ r.s.free_data = t.free_data
         /\ r.s.blk[p].kind = "addresses"
         /\ \A q \in Blocks, j \in Sub :
              AddressAt(r.s.blk, q, j) = IF q = p /\ j = k THEN f ELSE AddressAt(s.blk, q, j)
         /\ \A q \in Blocks : q # p => r.s.blk[q] = s.blk[q]
<1> DEFINE at == [j \in Sub |-> IF j = k THEN f ELSE AddressIn(s.blk[p], j)]
           c  == Addresses(at)
           u  == [t EXCEPT !.blk = [s.blk EXCEPT ![p] = c]]
<1>1. r = [s |-> u, b |-> f]
  BY DEF KeepInBlock, State, Sub
<1>2. s.blk \in [Blocks -> Content] /\ s.blk[p] \in Content /\ p # 0
  BY Numbers DEF State
<1>3. \A j \in Sub : AddressAt(s.blk, p, j) = AddressIn(s.blk[p], j) /\ AddressIn(s.blk[p], j) \in Address
  <2> TAKE j \in Sub
  <2>1. ~ (j >= BINS) /\ j \in Nat
    BY Numbers DEF Sub
  <2>2. AddressAt(s.blk, p, j) = AddressIn(s.blk[p], j)
    BY <1>2, <2>1 DEF AddressAt
  <2>3. p \in Address
    BY DEF Address
  <2> QED
    BY <1>2, <2>1, <2>2, <2>3, AddressAtIs
<1>4. at \in [Sub -> Address]
  BY <1>3 DEF Address
<1>5. c \in Content /\ c.kind = "addresses" /\ c.at = at
  BY <1>4 DEF Content, Addresses, Sub, Address
<1>6. \A j \in Sub : at[j] = IF j = k THEN f ELSE AddressAt(s.blk, p, j)
  BY <1>3
<1> HIDE DEF c, at
<1>7. /\ u \in State /\ u.stop = "no" /\ u.ino = t.ino /\ u.map = t.map
      /\ u.free_inodes = t.free_inodes /\ u.free_data = t.free_data
      /\ u.blk = [s.blk EXCEPT ![p] = c]
  BY <1>2, <1>5 DEF State
<1>8. u.blk[p] = c /\ \A q \in Blocks : q # p => u.blk[q] = s.blk[q]
  BY <1>2, <1>7
<1> HIDE DEF u
<1>9. ASSUME NEW q \in Blocks, NEW j \in Sub
      PROVE  AddressAt(u.blk, q, j) = IF q = p /\ j = k THEN f ELSE AddressAt(s.blk, q, j)
  <2>1. CASE q = p
    <3>1. ~ (j >= BINS)
      BY Numbers DEF Sub
    <3>2. AddressAt(u.blk, p, j) = at[j]
      BY <1>2, <1>5, <1>8, <3>1 DEF AddressAt, AddressIn
    <3> QED
      BY <1>6, <2>1, <3>2
  <2>2. CASE q # p
    BY <1>8, <2>2 DEF AddressAt
  <2> QED
    BY <2>1, <2>2
<1>10. r.s = u /\ r.b = f /\ r = [s |-> r.s, b |-> r.b]
  BY <1>1
<1> QED
  BY <1>5, <1>7, <1>8, <1>9, <1>10

\* block_addr finds the block behind an address in a block, or allocates it, or
\* leads past the end.
LEMMA BlockAddr ==
  ASSUME NEW s, NEW at, Found(s, at), at.s.stop = "no" => at.b \in Tables(at.s), NEW k \in Nat,
         NEW r, r = block_addr(at, k)
  PROVE  /\ Sound(r.s) /\ Grown(s, r.s) /\ Grown(at.s, r.s)
         /\ (at.s.stop = "panic" => r = at)
         /\ (k \in Sub => Found(s, r) /\ (r.s.stop = "no" => r.b = AddressAt(r.s.blk, at.b, k)))
         /\ (at.s.stop = "no" /\ k \notin Sub => r.s.stop = "overrun")
<1>0. /\ Sound(at.s) /\ at.s \in State /\ Grown(s, at.s) /\ Grown(at.s, at.s)
      /\ (at.s.stop = "no" \/ (at.s.stop = "panic" /\ at.s.map = Blocks))
  BY GrownSame DEF Found, Sound
<1>1. CASE at.s.stop = "panic"
  <2>1. r = at
    BY <1>1 DEF block_addr
  <2> QED
    BY <1>0, <1>1, <2>1
<1>2. CASE at.s.stop = "no" /\ k >= BINS
  <2>1. r.s = Stop(at.s, "overrun").s
    BY <1>2 DEF block_addr
  <2>2. /\ r.s \in State /\ r.s.stop = "overrun" /\ r.s.ino = at.s.ino /\ r.s.map = at.s.map
        /\ r.s.blk = at.s.blk /\ r.s.free_inodes = at.s.free_inodes /\ r.s.free_data = at.s.free_data
    BY <1>0, <2>1, StopIs
  <2>3. Sound(r.s) /\ Grown(at.s, r.s)
    BY <1>0, <2>2, StopSound
  <2>4. k \notin Sub
    BY <1>2, Numbers DEF Sub
  <2> QED
    BY <1>0, <1>2, <2>2, <2>3, <2>4, GrownFurther
<1>3. CASE at.s.stop = "no" /\ ~ (k >= BINS)
  <2>1. k \in Sub
    BY <1>3, Numbers DEF Sub
  <2>2. at.b \in Blocks /\ at.b # 0 /\ at.b \in Tables(at.s) /\ at.s.blk[at.b].kind \in {"zero", "addresses"}
    BY <1>0, <1>3, Numbers DEF Found, Sound, Clean, Tables
  <2>3. AddressAt(at.s.blk, at.b, k) = AddressIn(at.s.blk[at.b], k)
    BY <1>3, <2>2 DEF AddressAt
  <2>4. CASE AddressIn(at.s.blk[at.b], k) # 0
    <3>1. r = [s |-> at.s, b |-> AddressIn(at.s.blk[at.b], k)]
      <4>1. r = [at EXCEPT !.b = AddressIn(at.s.blk[at.b], k)]
        BY <1>3, <2>2, <2>4 DEF block_addr
      <4> QED
        BY <4>1 DEF Found
    <3>2. r.b \in Blocks
      <4>1. at.s.blk \in [Blocks -> Content] /\ at.b \in Address
        BY <1>0, <2>2 DEF State, Address
      <4> QED
        BY <2>3, <2>4, <3>1, <4>1, AddressAtIs DEF Address
    <3> QED
      BY <1>0, <1>3, <2>1, <2>3, <3>1, <3>2 DEF Found
  <2>5. CASE AddressIn(at.s.blk[at.b], k) = 0
    <3>1. r = KeepInBlock(balloc(at.s), at.b, k)
      BY <1>3, <2>2, <2>5 DEF block_addr
    <3>2. CASE at.s.map = Blocks /\ balloc(at.s) = Stop(at.s, "panic")
      <4>1. Found(at.s, balloc(at.s)) /\ balloc(at.s).s.stop = "panic"
        BY <1>0, <3>2, PanicIs
      <4>2. r = balloc(at.s)
        BY <3>1, <4>1 DEF KeepInBlock
      <4>3. Found(s, r)
        BY <1>0, <4>1, <4>2, GrownFurther DEF Found
      <4> QED
        BY <1>3, <2>1, <4>1, <4>2, <4>3 DEF Found
    <3>3. ASSUME NEW f \in Blocks \ at.s.map, NEW t \in State,
                 balloc(at.s) = [s |-> t, b |-> f], t.map = at.s.map \cup {f},
                 t.free_data = at.s.free_data - 1, t.ino = at.s.ino, t.blk = at.s.blk, t.stop = "no",
                 t.free_inodes = at.s.free_inodes
          PROVE  Found(at.s, r) /\ (r.s.stop = "no" => r.b = AddressAt(r.s.blk, at.b, k))
      <4>1. r = KeepInBlock([s |-> t, b |-> f], at.b, k)
        BY <3>1, <3>3
      <4>2. /\ r = [s |-> r.s, b |-> r.b] /\ r.b = f /\ r.s \in State /\ r.s.stop = "no" /\ r.s.ino = t.ino /\ r.s.map = t.map
            /\ r.s.free_inodes = t.free_inodes /\ r.s.free_data = t.free_data
            /\ r.s.blk[at.b].kind = "addresses"
            /\ \A q \in Blocks, j \in Sub :
                 AddressAt(r.s.blk, q, j) = IF q = at.b /\ j = k THEN f ELSE AddressAt(at.s.blk, q, j)
            /\ \A q \in Blocks : q # at.b => r.s.blk[q] = at.s.blk[q]
        BY <1>0, <2>1, <2>2, <3>3, <4>1, KeptInBlock
      <4>3. Sound(r.s) /\ Grown(at.s, r.s)
        BY <1>0, <2>1, <2>2, <2>3, <2>5, <3>3, <4>2, StoreInBlock
      <4> QED
        BY <2>1, <2>2, <4>2, <4>3 DEF Found
    <3>4. Found(at.s, r) /\ (r.s.stop = "no" => r.b = AddressAt(r.s.blk, at.b, k))
      BY <1>0, <1>3, <2>1, <3>2, <3>3, BallocIs, PanicIs, <3>1 DEF KeepInBlock
    <3>5. Found(s, r)
      BY <1>0, <3>4, GrownFurther DEF Found
    <3> QED
      BY <1>3, <2>1, <3>4, <3>5 DEF Found
  <2> QED
    BY <2>4, <2>5
<1> QED
  BY <1>0, <1>1, <1>2, <1>3

Capacity == NDIRECT + BINS + BINS * BINS   \* what an inode can address
DoubleAt(i) == i - NDIRECT - BINS          \* an index, behind the first two kinds

\* Quotient and remainder.
LEMMA Division ==
  ASSUME NEW j \in Nat, NEW w \in Nat \ {0}
  PROVE  j \div w \in Nat /\ j % w \in 0 .. (w - 1) /\ j = w * (j \div w) + (j % w)
OBVIOUS

\* An index below a product has its quotient below the one factor.
LEMMA ProductBelow ==
  ASSUME NEW a \in Nat, NEW w \in Nat, NEW c \in Nat, NEW m \in 0 .. (w - 1), w * a + m < w * c
  PROVE  a < c
<1> SUFFICES ASSUME a >= c PROVE FALSE
  OBVIOUS
<1>1. w * a >= w * c
  OBVIOUS
<1>2. w * a \in Nat /\ w * c \in Nat
  OBVIOUS
<1> QED
  BY <1>1, <1>2

\* An index of the double kind, as two indices into blocks of addresses.
LEMMA DoubleIndex ==
  ASSUME NEW i \in Nat, i >= NDIRECT + BINS
  PROVE  /\ DoubleAt(i) \in Nat /\ DoubleAt(i) \div BINS \in Nat /\ DoubleAt(i) % BINS \in Sub
         /\ DoubleAt(i) = BINS * (DoubleAt(i) \div BINS) + (DoubleAt(i) % BINS)
         /\ (DoubleAt(i) \div BINS \in Sub <=> i < Capacity)
         /\ (DoubleAt(i) <= BINS * BINS /\ i >= Capacity => i = Capacity)
         /\ (DoubleAt(i) > BINS * BINS <=> i > Capacity)
<1> DEFINE j == DoubleAt(i)
<1>1. /\ j \in Nat /\ BINS \in Nat \ {0} /\ BINS * BINS \in Nat
      /\ (i < Capacity <=> j < BINS * BINS) /\ (i = Capacity <=> j = BINS * BINS)
  <2>1. /\ NDIRECT \in Nat /\ BINS \in Nat \ {0}
    BY Numbers
  <2>2. BINS * BINS \in Nat
    BY <2>1
  <2> QED
    BY <2>1, <2>2 DEF Capacity, DoubleAt
<1> HIDE DEF j
<1>2. j \div BINS \in Nat /\ j % BINS \in 0 .. (BINS - 1) /\ j = BINS * (j \div BINS) + (j % BINS)
  BY <1>1, Division
<1>3. j < BINS * BINS => j \div BINS < BINS
  BY <1>1, <1>2, ProductBelow
<1>4. j \div BINS < BINS => j < BINS * BINS
  <2> SUFFICES ASSUME j \div BINS < BINS PROVE j < BINS * BINS
    OBVIOUS
  <2> DEFINE a == j \div BINS
             m == j % BINS
  <2>1. a \in Nat /\ a + 1 <= BINS /\ m \in 0 .. (BINS - 1) /\ j = BINS * a + m
    BY <1>1, <1>2
  <2> HIDE DEF a, m
  <2>2. BINS * (a + 1) <= BINS * BINS /\ BINS * (a + 1) = BINS * a + BINS /\ BINS * a \in Nat
    BY <1>1, <2>1
  <2> QED
    BY <1>1, <2>1, <2>2
<1>5. (j \div BINS \in Sub <=> i < Capacity) /\ j % BINS \in Sub
  BY <1>1, <1>2, <1>3, <1>4 DEF Sub
<1>6. /\ (j <= BINS * BINS /\ i >= Capacity => i = Capacity) /\ (j > BINS * BINS <=> i > Capacity)
  BY <1>1, Numbers DEF Capacity
<1> QED
  BY <1>1, <1>2, <1>5, <1>6 DEF j

\* The block behind an index, in the words of the blocks of addresses.
LEMMA PhysBlockIs ==
  ASSUME NEW s \in State, NEW n \in Inum, NEW i \in Nat
  PROVE  /\ (i < NDIRECT => PhysBlock(s.ino, s.blk, n, i) = s.ino[n].addr[i])
         /\ (i >= NDIRECT /\ i < NDIRECT + BINS =>
               PhysBlock(s.ino, s.blk, n, i) = AddressAt(s.blk, s.ino[n].addr[NDIRECT], i - NDIRECT))
         /\ (i >= NDIRECT + BINS =>
               PhysBlock(s.ino, s.blk, n, i)
                 = AddressAt(s.blk, AddressAt(s.blk, s.ino[n].addr[NDIRECT + 1], DoubleAt(i) \div BINS),
                             DoubleAt(i) % BINS))
<1>1. NDIRECT \in Nat /\ BINS \in Nat
  BY Numbers
<1>2. (i < NDIRECT <=> ~ (i >= NDIRECT)) /\ (i < NDIRECT + BINS <=> ~ (i >= NDIRECT + BINS))
      /\ (i >= NDIRECT + BINS => i >= NDIRECT)
  BY <1>1
<1>3. CASE i < NDIRECT
  BY <1>2, <1>3 DEF PhysBlock
<1>4. CASE i >= NDIRECT /\ i < NDIRECT + BINS
  BY <1>2, <1>4 DEF PhysBlock
<1>5. CASE i >= NDIRECT + BINS
  BY <1>2, <1>5 DEF PhysBlock, DoubleAt
<1> QED
  BY <1>2, <1>3, <1>4, <1>5

\* What leads from the inodes to blocks in s leads there in t.
Way(s, t) ==
  /\ \A n \in Inum, k \in Key : s.ino[n].addr[k] # 0 => t.ino[n].addr[k] = s.ino[n].addr[k]
  /\ \A p \in Tables(s), k \in Sub :
       AddressAt(s.blk, p, k) # 0 => AddressAt(t.blk, p, k) = AddressAt(s.blk, p, k)

\* An address that is there stays.
LEMMA GrownAddresses ==
  ASSUME NEW s \in State, NEW t, Grown(s, t)
  PROVE  /\ Way(s, t)
         /\ \A n \in Inum, k \in Key : s.ino[n].addr[k] # 0 => t.ino[n].addr[k] = s.ino[n].addr[k]
         /\ \A p \in Tables(s), k \in Sub : AddressAt(s.blk, p, k) # 0 => AddressAt(t.blk, p, k) = AddressAt(s.blk, p, k)
<1>0. t \in State /\ Tables(s) \subseteq Tables(t)
  BY DEF Grown
<1>1. ASSUME NEW n \in Inum, NEW k \in Key, s.ino[n].addr[k] # 0
      PROVE  t.ino[n].addr[k] = s.ino[n].addr[k]
  <2>1. /\ <<"inode", n, k>> \in Refs(s) /\ Val(s, <<"inode", n, k>>) = s.ino[n].addr[k]
        /\ Val(t, <<"inode", n, k>>) = t.ino[n].addr[k]
    BY <1>0, InodeReference DEF Refs, Val
  <2> QED
    BY <1>1, <2>1 DEF Grown
<1>2. ASSUME NEW p \in Tables(s), NEW k \in Sub, AddressAt(s.blk, p, k) # 0
      PROVE  AddressAt(t.blk, p, k) = AddressAt(s.blk, p, k)
  <2>1. /\ <<"block", p, k>> \in Refs(s) /\ Val(s, <<"block", p, k>>) = AddressAt(s.blk, p, k)
        /\ Val(t, <<"block", p, k>>) = AddressAt(t.blk, p, k)
    BY <1>0, BlockReference DEF Refs, Val, Tables
  <2> QED
    BY <1>2, <2>1 DEF Grown
<1> QED
  BY <1>1, <1>2 DEF Way

\* The block of addresses at the end of an inode.
LEMMA TableAddr ==
  ASSUME NEW s, Sound(s), s.stop = "no", NEW n \in Inum, NEW k \in {NDIRECT, NDIRECT + 1},
         NEW at, at = inode_addr(s, n, k)
  PROVE  /\ Found(s, at)
         /\ (at.s.stop = "no" => at.b = at.s.ino[n].addr[k] /\ at.b \in Tables(at.s) /\ at.b # 0)
<1>1. k \in Key
  BY Numbers
<1>2. Found(s, at) /\ (at.s.stop = "no" => at.b = at.s.ino[n].addr[k])
  BY <1>1, InodeAddr
<1>3. ASSUME at.s.stop = "no" PROVE at.b \in Tables(at.s) /\ at.b # 0
  <2>1. at.s \in State /\ at.b \in Blocks
    BY <1>2, <1>3 DEF Found, Sound
  <2> QED
    BY <1>2, <1>3, <2>1, AddressBlockIs, Numbers DEF Tables
<1> QED
  BY <1>2, <1>3

\* iget_phys_block answers with the block behind the index, unless the disk
\* is full or the index is behind what an inode can address.
Reached(s, n, i, r) ==
  /\ Sound(r.s) /\ Grown(s, r.s)
  /\ \/ r.s.stop = "no" /\ i < Capacity /\ r.b \in Blocks /\ r.b = PhysBlock(r.s.ino, r.s.blk, n, i)
     \/ r.s.stop = "panic" /\ (r.s.map = Blocks \/ i > Capacity)
     \/ r.s.stop = "overrun" /\ i = Capacity

\* iget_phys_block by a direct address ...
LEMMA DirectBlock ==
  ASSUME NEW s, Sound(s), s.stop = "no", NEW n \in Inum, NEW i \in Nat, i < NDIRECT
  PROVE  Reached(s, n, i, inode_addr(s, n, i))
<1> DEFINE r == inode_addr(s, n, i)
<1>1. i \in Key /\ i < Capacity
  <2>1. NDIRECT \in Nat /\ BINS \in Nat /\ BINS * BINS \in Nat
    BY Numbers
  <2> QED
    BY <2>1 DEF Key, Capacity
<1>2. Found(s, r) /\ (r.s.stop = "no" => r.b = r.s.ino[n].addr[i])
  BY <1>1, InodeAddr
<1> HIDE DEF r
<1>3. r.s \in State
  BY <1>2 DEF Found, Sound
<1>4. PhysBlock(r.s.ino, r.s.blk, n, i) = r.s.ino[n].addr[i]
  BY <1>3, PhysBlockIs
<1>5. Reached(s, n, i, r)
  BY <1>1, <1>2, <1>4 DEF Found, Reached
<1> QED
  BY <1>5 DEF r

\* ... by a block of addresses ...
LEMMA SingleBlock ==
  ASSUME NEW s, Sound(s), s.stop = "no", NEW n \in Inum, NEW i \in Nat,
         i >= NDIRECT, i < NDIRECT + BINS
  PROVE  Reached(s, n, i, block_addr(inode_addr(s, n, NDIRECT), i - NDIRECT))
<1> DEFINE at == inode_addr(s, n, NDIRECT)
           k  == i - NDIRECT
           r  == block_addr(at, k)
<1>1. k \in Nat /\ k \in Sub /\ i < Capacity
  <2>1. NDIRECT \in Nat /\ BINS \in Nat /\ BINS * BINS \in Nat
    BY Numbers
  <2> QED
    BY <2>1 DEF Sub, Capacity
<1>2. Found(s, at) /\ (at.s.stop = "no" => at.b = at.s.ino[n].addr[NDIRECT] /\ at.b \in Tables(at.s) /\ at.b # 0)
  BY TableAddr
<1> HIDE DEF at, k
<1>3. /\ Found(s, r) /\ Grown(at.s, r.s) /\ (at.s.stop = "panic" => r = at)
      /\ (r.s.stop = "no" => r.b = AddressAt(r.s.blk, at.b, k))
  BY <1>1, <1>2, BlockAddr
<1> HIDE DEF r
<1>4. CASE r.s.stop = "no"
  <2>1. at.s.stop = "no"
    BY <1>2, <1>3, <1>4 DEF Found
  <2>2. at.s \in State /\ r.s \in State
    BY <1>2, <1>3 DEF Found, Sound
  <2>3. r.s.ino[n].addr[NDIRECT] = at.b
    BY <1>2, <1>3, <2>1, <2>2, GrownAddresses, Numbers
  <2>4. PhysBlock(r.s.ino, r.s.blk, n, i) = r.b
    BY <1>3, <1>4, <2>2, <2>3, PhysBlockIs DEF k
  <2> QED
    BY <1>1, <1>3, <1>4, <2>4 DEF Found, Reached, r, k, at
<1>5. CASE r.s.stop = "panic"
  BY <1>3, <1>5 DEF Found, Reached, r, k, at
<1> QED
  BY <1>3, <1>4, <1>5 DEF Found

\* ... by a block of addresses of such blocks; the last index leads past its end ...
LEMMA DoubleBlock ==
  ASSUME NEW s, Sound(s), s.stop = "no", NEW n \in Inum, NEW i \in Nat,
         i >= NDIRECT + BINS, i <= Capacity
  PROVE  Reached(s, n, i, block_addr(block_addr(inode_addr(s, n, NDIRECT + 1), DoubleAt(i) \div BINS),
                                     DoubleAt(i) % BINS))
<1> DEFINE at  == inode_addr(s, n, NDIRECT + 1)
           a   == DoubleAt(i) \div BINS
           k   == DoubleAt(i) % BINS
           mid == block_addr(at, a)
           r   == block_addr(mid, k)
<1>1. a \in Nat /\ k \in Sub /\ k \in Nat /\ (a \in Sub <=> i < Capacity) /\ (i < Capacity \/ i = Capacity)
  <2>1. a \in Nat /\ k \in Sub /\ (a \in Sub <=> i < Capacity)
    BY DoubleIndex
  <2>2. BINS \in Nat /\ NDIRECT \in Nat /\ BINS * BINS \in Nat
    BY Numbers
  <2> HIDE DEF a, k
  <2> QED
    BY <2>1, <2>2 DEF Sub, Capacity
<1>2. /\ Found(s, at)
      /\ (at.s.stop = "no" => at.b = at.s.ino[n].addr[NDIRECT + 1] /\ at.b \in Tables(at.s) /\ at.b # 0)
  BY TableAddr
<1> HIDE DEF at, a, k
<1>3. /\ Sound(mid.s) /\ Grown(s, mid.s) /\ Grown(at.s, mid.s) /\ (at.s.stop = "panic" => mid = at)
      /\ (a \in Sub => Found(s, mid) /\ (mid.s.stop = "no" => mid.b = AddressAt(mid.s.blk, at.b, a)))
      /\ (at.s.stop = "no" /\ a \notin Sub => mid.s.stop = "overrun")
  BY <1>1, <1>2, BlockAddr
<1> HIDE DEF mid
<1>4. mid.s \in State /\ at.s \in State /\ (at.s.stop = "no" \/ (at.s.stop = "panic" /\ at.s.map = Blocks))
  BY <1>2, <1>3 DEF Found, Sound
<1>5. CASE mid.s.stop # "no"
  <2>1. r = mid
    BY <1>5 DEF block_addr
  <2>2. (mid.s.stop = "panic" /\ mid.s.map = Blocks) \/ (mid.s.stop = "overrun" /\ i = Capacity)
    BY <1>1, <1>3, <1>4, <1>5 DEF Found
  <2>3. Reached(s, n, i, r)
    BY <1>3, <2>1, <2>2 DEF Reached
  <2> QED
    BY <2>3 DEF r, k, mid, a, at
<1>6. CASE mid.s.stop = "no"
  <2>1. at.s.stop = "no" /\ a \in Sub
    BY <1>3, <1>4, <1>6
  <2>2. mid.s.ino[n].addr[NDIRECT + 1] = at.b
    BY <1>2, <1>3, <1>4, <2>1, GrownAddresses, Numbers
  <2>3. mid.b \in Blocks /\ mid.b = AddressAt(mid.s.blk, mid.s.ino[n].addr[NDIRECT + 1], a) /\ mid.b # 0
    BY <1>3, <1>6, <2>1, <2>2, Numbers DEF Found
  <2>4. mid.b \in Tables(mid.s)
    BY <1>4, <2>1, <2>3, AddressBlockIs DEF Tables
  <2>5. /\ Found(s, r) /\ Grown(mid.s, r.s)
        /\ (r.s.stop = "no" => r.b = AddressAt(r.s.blk, mid.b, k))
    BY <1>1, <1>3, <2>1, <2>4, BlockAddr
  <2> HIDE DEF r
  <2>6. CASE r.s.stop = "no"
    <3>1. r.s \in State
      BY <2>5 DEF Found, Sound
    <3>2. r.s.ino[n].addr[NDIRECT + 1] = at.b
      BY <1>2, <1>4, <2>1, <2>2, <2>5, GrownAddresses, Numbers
    <3>3. at.b \in Tables(mid.s)
      BY <1>2, <1>3, <2>1 DEF Grown
    <3>4. AddressAt(r.s.blk, at.b, a) = mid.b
      BY <1>4, <2>1, <2>2, <2>3, <2>5, <3>3, GrownAddresses
    <3>5. PhysBlock(r.s.ino, r.s.blk, n, i) = r.b
      BY <2>5, <2>6, <3>1, <3>2, <3>4, PhysBlockIs DEF a, k
    <3>6. Reached(s, n, i, r)
      BY <1>1, <2>1, <2>5, <2>6, <3>5 DEF Found, Reached
    <3> QED
      BY <3>6 DEF r, k, mid, a, at
  <2>7. CASE r.s.stop = "panic"
    <3>1. Reached(s, n, i, r)
      BY <2>5, <2>7 DEF Found, Reached
    <3> QED
      BY <3>1 DEF r, k, mid, a, at
  <2> QED
    BY <2>5, <2>6, <2>7 DEF Found
<1> QED
  BY <1>5, <1>6

\* ... and by all of them: what the code answers is the block that is read back.
LEMMA BlockReached ==
  ASSUME NEW s, Sound(s), s.stop = "no", NEW n \in Inum, NEW i \in Nat
  PROVE  Reached(s, n, i, iget_phys_block(s, n, i))
<1>1. NDIRECT \in Nat /\ BINS \in Nat /\ BINS * BINS \in Nat
  BY Numbers
<1>2. CASE i < NDIRECT
  BY <1>2, DirectBlock DEF iget_phys_block
<1>3. CASE ~ (i < NDIRECT) /\ i < NDIRECT + BINS
  <2>1. i >= NDIRECT
    BY <1>1, <1>3
  <2> QED
    BY <1>3, <2>1, SingleBlock DEF iget_phys_block
<1>4. CASE ~ (i < NDIRECT) /\ ~ (i < NDIRECT + BINS)
  <2>1. i >= NDIRECT + BINS /\ (i > Capacity \/ i <= Capacity)
    BY <1>1, <1>4 DEF Capacity
  <2>2. CASE i > Capacity
    <3>1. DoubleAt(i) > BINS * BINS
      BY <2>1, <2>2, DoubleIndex
    <3>2. iget_phys_block(s, n, i) = Stop(s, "panic")
      BY <1>4, <3>1 DEF iget_phys_block, DoubleAt
    <3> DEFINE t == Stop(s, "panic").s
    <3>3. /\ s \in State /\ t \in State /\ t.stop = "panic" /\ t.ino = s.ino /\ t.map = s.map /\ t.blk = s.blk
          /\ t.free_inodes = s.free_inodes /\ t.free_data = s.free_data
      BY StopIs DEF Sound
    <3> HIDE DEF t
    <3>4. Sound(t) /\ Grown(s, t)
      BY <3>3, StopSound
    <3> QED
      BY <2>2, <3>2, <3>3, <3>4 DEF Reached, t
  <2>3. CASE i <= Capacity
    <3>1. ~ (DoubleAt(i) > BINS * BINS)
      <4>1. ~ (i > Capacity)
        BY <1>1, <2>3 DEF Capacity
      <4> QED
        BY <2>1, <4>1, DoubleIndex
    <3>2. Reached(s, n, i, block_addr(block_addr(inode_addr(s, n, NDIRECT + 1), DoubleAt(i) \div BINS),
                                      DoubleAt(i) % BINS))
      BY <2>1, <2>3, DoubleBlock
    <3> QED
      BY <1>4, <3>1, <3>2 DEF iget_phys_block, DoubleAt
  <2> QED
    BY <2>1, <2>2, <2>3
<1> QED
  BY <1>2, <1>3, <1>4

-----------------------------------------------------------------------------
(* The blocks behind an index *)

\* Where the address of such a block is kept: in the inode, in the block of
\* addresses that it names, or in one of those that a second one names.
DirectAt(s, n, i, r) == i < NDIRECT /\ i \in Key /\ r = <<"inode", n, i>>

SingleAt(s, n, i, r) ==
  /\ i >= NDIRECT /\ i < NDIRECT + BINS /\ i - NDIRECT \in Sub
  /\ s.ino[n].addr[NDIRECT] \in Tables(s)
  /\ r = <<"block", s.ino[n].addr[NDIRECT], i - NDIRECT>>

MiddleOf(s, n, i) == AddressAt(s.blk, s.ino[n].addr[NDIRECT + 1], DoubleAt(i) \div BINS)

DoubledAt(s, n, i, r) ==
  /\ i >= NDIRECT + BINS /\ DoubleAt(i) \div BINS \in Sub /\ DoubleAt(i) % BINS \in Sub
  /\ s.ino[n].addr[NDIRECT + 1] \in Tables(s) /\ MiddleOf(s, n, i) \in Tables(s)
  /\ r = <<"block", MiddleOf(s, n, i), DoubleAt(i) % BINS>>

LeafAt(s, n, i, r) ==
  /\ r \in Refs(s) /\ Val(s, r) = PhysBlock(s.ino, s.blk, n, i)
  /\ DirectAt(s, n, i, r) \/ SingleAt(s, n, i, r) \/ DoubledAt(s, n, i, r)

\* The block behind an index, by the way that leads there.
LEMMA LeafIs ==
  ASSUME NEW s \in State, NEW n \in Inum, NEW i \in Nat, PhysBlock(s.ino, s.blk, n, i) # 0
  PROVE  /\ PhysBlock(s.ino, s.blk, n, i) \in Blocks
         /\ \E r \in Refs(s) : LeafAt(s, n, i, r)
<1>0. NDIRECT \in Nat /\ BINS \in Nat /\ s.blk \in [Blocks -> Content]
  BY Numbers DEF State
<1>1. CASE i < NDIRECT
  <2>1. i \in Key
    BY <1>0, <1>1 DEF Key
  <2>2. PhysBlock(s.ino, s.blk, n, i) = s.ino[n].addr[i]
    BY <1>1, PhysBlockIs
  <2>3. <<"inode", n, i>> \in Refs(s) /\ Val(s, <<"inode", n, i>>) = s.ino[n].addr[i]
    BY <2>1, InodeReference DEF Refs, Val
  <2>4. s.ino[n].addr[i] \in Address
    BY <2>1, AddressesOfInode
  <2> QED
    BY <1>1, <2>1, <2>2, <2>3, <2>4 DEF LeafAt, DirectAt, Address
<1>2. CASE i >= NDIRECT /\ i < NDIRECT + BINS
  <2> DEFINE p == s.ino[n].addr[NDIRECT]
             k == i - NDIRECT
  <2>1. k \in Nat /\ k \in Sub
    BY <1>0, <1>2 DEF Sub
  <2>2. PhysBlock(s.ino, s.blk, n, i) = AddressAt(s.blk, p, k)
    BY <1>2, PhysBlockIs
  <2>3. p \in Address
    BY AddressesOfInode, Numbers
  <2>4. AddressAt(s.blk, p, k) \in Blocks /\ p \in Blocks
    BY <1>0, <2>1, <2>2, <2>3, AddressAtIs DEF Address
  <2>5. p \in Tables(s)
    BY <2>4, AddressBlockIs DEF Tables
  <2>6. <<"block", p, k>> \in Refs(s) /\ Val(s, <<"block", p, k>>) = AddressAt(s.blk, p, k)
    BY <2>1, <2>5, BlockReference DEF Refs, Val, Tables
  <2> QED
    BY <1>2, <2>1, <2>2, <2>4, <2>5, <2>6 DEF LeafAt, SingleAt
<1>3. CASE i >= NDIRECT + BINS
  <2> DEFINE top == s.ino[n].addr[NDIRECT + 1]
             a   == DoubleAt(i) \div BINS
             k   == DoubleAt(i) % BINS
             p   == MiddleOf(s, n, i)
  <2>1. a \in Nat /\ k \in Sub /\ k \in Nat
    <3>1. a \in Nat /\ k \in Sub
      BY <1>3, DoubleIndex
    <3> HIDE DEF a, k
    <3> QED
      BY <1>0, <3>1 DEF Sub
  <2>2. PhysBlock(s.ino, s.blk, n, i) = AddressAt(s.blk, p, k) /\ p = AddressAt(s.blk, top, a)
    BY <1>3, PhysBlockIs DEF MiddleOf
  <2>3. top \in Address
    BY AddressesOfInode, Numbers
  <2> HIDE DEF a, k, p, top
  <2>4. p \in Address /\ (p # 0 => a \in Sub /\ top \in Blocks)
    BY <1>0, <2>1, <2>2, <2>3, AddressAtIs
  <2>5. AddressAt(s.blk, p, k) \in Blocks /\ p \in Blocks
    BY <1>0, <2>1, <2>2, <2>4, AddressAtIs DEF Address
  <2>6. a \in Sub /\ top \in Blocks /\ p # 0
    BY <2>4, <2>5, Numbers
  <2>7. top \in Tables(s)
    BY <2>6, AddressBlockIs DEF Tables, top
  <2>8. p \in Tables(s)
    BY <2>2, <2>5, <2>6, AddressBlockIs DEF Tables, top
  <2>9. <<"block", p, k>> \in Refs(s) /\ Val(s, <<"block", p, k>>) = AddressAt(s.blk, p, k)
    BY <2>1, <2>8, BlockReference DEF Refs, Val, Tables
  <2>10. DoubledAt(s, n, i, <<"block", p, k>>)
    BY <1>3, <2>1, <2>6, <2>7, <2>8 DEF DoubledAt, a, k, p, top
  <2> QED
    BY <2>2, <2>5, <2>9, <2>10 DEF LeafAt
<1> QED
  BY <1>0, <1>1, <1>2, <1>3

\* A block behind an index is no block of addresses.
LEMMA LeafNoTable ==
  ASSUME NEW s \in State, Owned(s), NEW n \in Inum, NEW i \in Nat, PhysBlock(s.ino, s.blk, n, i) # 0
  PROVE  PhysBlock(s.ino, s.blk, n, i) \notin Tables(s) /\ PhysBlock(s.ino, s.blk, n, i) \in s.map
<1> DEFINE p == PhysBlock(s.ino, s.blk, n, i)
<1>0. /\ \A r, q \in Refs(s) : Val(s, r) = Val(s, q) /\ Val(s, r) # 0 => r = q
      /\ \A r \in Refs(s) : Val(s, r) \in s.map \cup {0}
  BY OwnedIs
<1>1. PICK r \in Refs(s) : LeafAt(s, n, i, r)
  BY LeafIs
<1>2. p \in Blocks /\ p # 0 /\ Val(s, r) = p
  BY <1>1, LeafIs DEF LeafAt
<1>3. p \in s.map
  BY <1>0, <1>2
<1> HIDE DEF p
<1>4. NDIRECT \in Nat /\ NDIRECT \in Key /\ NDIRECT + 1 \in Key /\ \A j \in Sub : j \in Nat
  BY Numbers DEF Sub
<1>5. ASSUME NEW m \in Inum, NEW k \in {NDIRECT, NDIRECT + 1}, s.ino[m].addr[k] = p
      PROVE  FALSE
  <2>1. <<"inode", m, k>> \in Refs(s) /\ Val(s, <<"inode", m, k>>) = p
    BY <1>4, <1>5, InodeReference DEF Refs, Val
  <2>2. r = <<"inode", m, k>>
    BY <1>0, <1>2, <2>1
  <2>3. k \in Nat /\ ~ (k < NDIRECT)
    BY <1>4
  <2> QED
    BY <1>1, <2>2, <2>3 DEF LeafAt, DirectAt, SingleAt, DoubledAt
<1>6. ASSUME NEW m \in Inum, NEW k \in Sub, AddressAt(s.blk, s.ino[m].addr[NDIRECT + 1], k) = p
      PROVE  FALSE
  <2> DEFINE top == s.ino[m].addr[NDIRECT + 1]
  <2>1. top \in Tables(s) /\ top # 0
    BY <1>2, <1>6, LastAddress
  <2>2. <<"inode", m, NDIRECT + 1>> \in Refs(s) /\ Val(s, <<"inode", m, NDIRECT + 1>>) = top
    BY <1>4, InodeReference DEF Refs, Val
  <2> HIDE DEF top
  <2>3. <<"block", top, k>> \in Refs(s) /\ Val(s, <<"block", top, k>>) = p
    BY <1>6, <2>1, BlockReference DEF Refs, Val, Tables, top
  <2>4. r = <<"block", top, k>>
    BY <1>0, <1>2, <2>3
  <2>5. CASE SingleAt(s, n, i, r)
    <3>1. s.ino[n].addr[NDIRECT] = top
      BY <2>4, <2>5 DEF SingleAt
    <3>2. <<"inode", n, NDIRECT>> \in Refs(s) /\ Val(s, <<"inode", n, NDIRECT>>) = top
      BY <1>4, <3>1, InodeReference DEF Refs, Val
    <3>3. <<"inode", n, NDIRECT>> = <<"inode", m, NDIRECT + 1>>
      BY <1>0, <2>1, <2>2, <3>2
    <3> QED
      BY <1>4, <3>3
  <2>6. CASE DoubledAt(s, n, i, r)
    <3> DEFINE up == s.ino[n].addr[NDIRECT + 1]
               a  == DoubleAt(i) \div BINS
    <3>1. MiddleOf(s, n, i) = top /\ MiddleOf(s, n, i) = AddressAt(s.blk, up, a) /\ up \in Tables(s) /\ a \in Sub
      BY <2>4, <2>6 DEF DoubledAt, MiddleOf
    <3> HIDE DEF up, a
    <3>2. <<"block", up, a>> \in Refs(s) /\ Val(s, <<"block", up, a>>) = top
      BY <3>1, BlockReference DEF Refs, Val, Tables
    <3>3. <<"block", up, a>> = <<"inode", m, NDIRECT + 1>>
      BY <1>0, <2>1, <2>2, <3>2
    <3> QED
      BY <3>3
  <2> QED
    BY <1>1, <2>4, <2>5, <2>6 DEF LeafAt, DirectAt
<1>7. p \notin Tables(s)
  BY <1>2, <1>5, <1>6, AddressBlockIs DEF Tables
<1> QED
  BY <1>3, <1>7 DEF p

\* A block is behind one index of one inode.
LEMMA LeafOnce ==
  ASSUME NEW s \in State, Owned(s), NEW n \in Inum, NEW i \in Nat, NEW m \in Inum, NEW j \in Nat,
         PhysBlock(s.ino, s.blk, n, i) # 0,
         PhysBlock(s.ino, s.blk, n, i) = PhysBlock(s.ino, s.blk, m, j)
  PROVE  n = m /\ i = j
<1>0. /\ \A r, q \in Refs(s) : Val(s, r) = Val(s, q) /\ Val(s, r) # 0 => r = q
      /\ NDIRECT \in Nat /\ BINS \in Nat /\ NDIRECT \in Key /\ NDIRECT + 1 \in Key /\ 0 \notin Tables(s)
  BY OwnedIs, AddressesOfInode, Numbers DEF Tables
<1>1. PICK r \in Refs(s) : LeafAt(s, n, i, r)
  BY LeafIs
<1>2. PICK q \in Refs(s) : LeafAt(s, m, j, q)
  BY LeafIs
<1>3. r = q
  BY <1>0, <1>1, <1>2 DEF LeafAt
<1>4. \A x \in Inum, y \in Inum, k \in Key, l \in Key :
        s.ino[x].addr[k] = s.ino[y].addr[l] /\ s.ino[x].addr[k] # 0 => x = y /\ k = l
  <2> SUFFICES ASSUME NEW x \in Inum, NEW y \in Inum, NEW k \in Key, NEW l \in Key,
                      s.ino[x].addr[k] = s.ino[y].addr[l], s.ino[x].addr[k] # 0
               PROVE  x = y /\ k = l
    OBVIOUS
  <2>1. /\ <<"inode", x, k>> \in Refs(s) /\ Val(s, <<"inode", x, k>>) = s.ino[x].addr[k]
        /\ <<"inode", y, l>> \in Refs(s) /\ Val(s, <<"inode", y, l>>) = s.ino[y].addr[l]
    BY InodeReference DEF Refs, Val
  <2>2. <<"inode", x, k>> = <<"inode", y, l>>
    BY <1>0, <2>1
  <2> QED
    BY <2>2
<1>5. CASE DirectAt(s, n, i, r) /\ DirectAt(s, m, j, q)
  <2>1. <<"inode", n, i>> = <<"inode", m, j>>
    BY <1>3, <1>5 DEF DirectAt
  <2> QED
    BY <2>1
<1>6. CASE SingleAt(s, n, i, r) /\ SingleAt(s, m, j, q)
  <2>0. /\ <<"block", s.ino[n].addr[NDIRECT], i - NDIRECT>> = <<"block", s.ino[m].addr[NDIRECT], j - NDIRECT>>
        /\ s.ino[n].addr[NDIRECT] # 0
    BY <1>0, <1>3, <1>6 DEF SingleAt
  <2>1. s.ino[n].addr[NDIRECT] = s.ino[m].addr[NDIRECT] /\ i - NDIRECT = j - NDIRECT
    BY <2>0
  <2> QED
    BY <1>0, <1>4, <2>0, <2>1
<1>7. ASSUME NEW x \in Inum, NEW y \in Inum, NEW k \in Nat, NEW l \in Nat,
             SingleAt(s, x, k, r), DoubledAt(s, y, l, r)
      PROVE  FALSE
  <2> DEFINE up == s.ino[y].addr[NDIRECT + 1]
             a  == DoubleAt(l) \div BINS
  <2>1. /\ MiddleOf(s, y, l) = s.ino[x].addr[NDIRECT] /\ MiddleOf(s, y, l) = AddressAt(s.blk, up, a)
        /\ up \in Tables(s) /\ a \in Sub /\ s.ino[x].addr[NDIRECT] # 0
    BY <1>0, <1>7 DEF SingleAt, DoubledAt, MiddleOf
  <2> HIDE DEF up, a
  <2>2. <<"block", up, a>> \in Refs(s) /\ Val(s, <<"block", up, a>>) = s.ino[x].addr[NDIRECT]
    BY <2>1, BlockReference DEF Refs, Val, Tables
  <2>3. <<"inode", x, NDIRECT>> \in Refs(s) /\ Val(s, <<"inode", x, NDIRECT>>) = s.ino[x].addr[NDIRECT]
    BY <1>0, InodeReference DEF Refs, Val
  <2>4. <<"block", up, a>> = <<"inode", x, NDIRECT>>
    BY <1>0, <2>1, <2>2, <2>3
  <2> QED
    BY <2>4
<1>8. CASE DoubledAt(s, n, i, r) /\ DoubledAt(s, m, j, q)
  <2> DEFINE up == s.ino[n].addr[NDIRECT + 1]
             a  == DoubleAt(i) \div BINS
             vp == s.ino[m].addr[NDIRECT + 1]
             c  == DoubleAt(j) \div BINS
             u  == DoubleAt(i) % BINS
             v  == DoubleAt(j) % BINS
  <2>0. <<"block", MiddleOf(s, n, i), u>> = <<"block", MiddleOf(s, m, j), v>>
    BY <1>3, <1>8 DEF DoubledAt
  <2>9. MiddleOf(s, n, i) = MiddleOf(s, m, j) /\ u = v
    BY <2>0
  <2>1. /\ MiddleOf(s, n, i) = AddressAt(s.blk, up, a) /\ MiddleOf(s, m, j) = AddressAt(s.blk, vp, c)
        /\ MiddleOf(s, n, i) = MiddleOf(s, m, j) /\ MiddleOf(s, n, i) # 0
        /\ up \in Tables(s) /\ vp \in Tables(s) /\ a \in Sub /\ c \in Sub /\ u = v
        /\ i >= NDIRECT + BINS /\ j >= NDIRECT + BINS
    BY <1>0, <1>8, <2>9 DEF DoubledAt, MiddleOf
  <2>2. DoubleAt(i) \in Nat /\ DoubleAt(j) \in Nat /\ DoubleAt(i) = BINS * a + u /\ DoubleAt(j) = BINS * c + v
    BY <2>1, DoubleIndex
  <2> HIDE DEF a, c, u, v
  <2>3. /\ <<"block", up, a>> \in Refs(s) /\ Val(s, <<"block", up, a>>) = AddressAt(s.blk, up, a)
        /\ <<"block", vp, c>> \in Refs(s) /\ Val(s, <<"block", vp, c>>) = AddressAt(s.blk, vp, c)
    BY <2>1, BlockReference DEF Refs, Val, Tables
  <2>4. <<"block", up, a>> = <<"block", vp, c>>
    BY <1>0, <2>1, <2>3
  <2>5. up = vp /\ a = c /\ up # 0
    BY <1>0, <2>1, <2>4
  <2>6. n = m
    BY <1>0, <1>4, <2>5
  <2>7. DoubleAt(i) = DoubleAt(j)
    BY <2>1, <2>2, <2>5
  <2> QED
    BY <1>0, <2>6, <2>7 DEF DoubleAt
<1>9. /\ ~ (DirectAt(s, n, i, r) /\ ~ DirectAt(s, m, j, q))
      /\ ~ (~ DirectAt(s, n, i, r) /\ DirectAt(s, m, j, q))
  BY <1>1, <1>2, <1>3 DEF LeafAt, DirectAt, SingleAt, DoubledAt
<1> QED
  BY <1>1, <1>2, <1>3, <1>5, <1>6, <1>7, <1>8, <1>9 DEF LeafAt

\* ... and stays where it is and as it is while others are allocated.
LEMMA LeafStays ==
  ASSUME NEW s \in State, NEW t, Sound(t), Grown(s, t), NEW n \in Inum, NEW i \in Nat,
         PhysBlock(s.ino, s.blk, n, i) # 0
  PROVE  /\ PhysBlock(t.ino, t.blk, n, i) = PhysBlock(s.ino, s.blk, n, i)
         /\ t.blk[PhysBlock(s.ino, s.blk, n, i)] = s.blk[PhysBlock(s.ino, s.blk, n, i)]
<1>0. t \in State /\ Owned(t) /\ 0 \notin Tables(s) /\ NDIRECT \in Key /\ NDIRECT + 1 \in Key
  BY AddressesOfInode, Numbers DEF Sound, Tables
<1>1. PICK r \in Refs(s) : LeafAt(s, n, i, r)
  BY LeafIs
<1>2. Val(t, r) = PhysBlock(s.ino, s.blk, n, i)
  BY <1>1 DEF LeafAt, Grown
<1>3. Val(t, r) = PhysBlock(t.ino, t.blk, n, i)
  <2>1. CASE DirectAt(s, n, i, r)
    BY <1>0, <2>1, InodeReference, PhysBlockIs DEF DirectAt, Val
  <2>2. CASE SingleAt(s, n, i, r)
    <3> DEFINE p == s.ino[n].addr[NDIRECT]
               k == i - NDIRECT
    <3>1. t.ino[n].addr[NDIRECT] = p /\ p \in Tables(t) /\ k \in Sub
      BY <1>0, <2>2, GrownAddresses DEF SingleAt, Grown
    <3>2. PhysBlock(t.ino, t.blk, n, i) = AddressAt(t.blk, p, k)
      BY <1>0, <2>2, <3>1, PhysBlockIs DEF SingleAt
    <3>3. r = <<"block", p, k>>
      BY <2>2 DEF SingleAt
    <3> HIDE DEF p, k
    <3>4. Val(t, r) = AddressAt(t.blk, p, k)
      BY <1>0, <3>1, <3>3, BlockReference DEF Val, Tables
    <3> QED
      BY <3>2, <3>4
  <2>3. CASE DoubledAt(s, n, i, r)
    <3> DEFINE top == s.ino[n].addr[NDIRECT + 1]
               a   == DoubleAt(i) \div BINS
               k   == DoubleAt(i) % BINS
               p   == MiddleOf(s, n, i)
    <3>1. /\ top \in Tables(s) /\ top # 0 /\ p \in Tables(s) /\ p # 0 /\ a \in Sub /\ k \in Sub
          /\ p = AddressAt(s.blk, top, a) /\ r = <<"block", p, k>> /\ i >= NDIRECT + BINS
      BY <1>0, <2>3 DEF DoubledAt, MiddleOf
    <3>2. t.ino[n].addr[NDIRECT + 1] = top
      BY <1>0, <3>1, GrownAddresses
    <3>3. PhysBlock(t.ino, t.blk, n, i) = AddressAt(t.blk, AddressAt(t.blk, top, a), k)
      BY <1>0, <3>1, <3>2, PhysBlockIs
    <3> HIDE DEF top, a, k, p
    <3>4. AddressAt(t.blk, top, a) = p
      BY <3>1, GrownAddresses
    <3>5. p \in Tables(t)
      BY <3>1 DEF Grown
    <3>6. Val(t, r) = AddressAt(t.blk, p, k)
      BY <1>0, <3>1, <3>5, BlockReference DEF Val, Tables
    <3> QED
      BY <3>3, <3>4, <3>6
  <2> QED
    BY <1>1, <2>1, <2>2, <2>3 DEF LeafAt
<1>4. PhysBlock(t.ino, t.blk, n, i) \notin Tables(t) /\ PhysBlock(t.ino, t.blk, n, i) \in Blocks
  BY <1>0, <1>2, <1>3, LeafNoTable, LeafIs
<1> QED
  BY <1>2, <1>3, <1>4 DEF Grown

\* What a block behind an index holds does not lead anywhere.
LEMMA WriteLeaf ==
  ASSUME NEW s, Sound(s), NEW n \in Inum, NEW i \in Nat, NEW p, p = PhysBlock(s.ino, s.blk, n, i), p # 0,
         NEW t \in State, \A m \in Inum, k \in Key : t.ino[m].addr[k] = s.ino[m].addr[k],
         \A q \in Blocks \ {p} : t.blk[q] = s.blk[q], t.map = s.map, t.free_data = s.free_data
  PROVE  /\ Sound(t) /\ Way(s, t)
         /\ \A m \in Inum, j \in Nat : PhysBlock(t.ino, t.blk, m, j) = PhysBlock(s.ino, s.blk, m, j)
<1>0. /\ s \in State /\ Owned(s) /\ Clean(s) /\ p \notin Tables(s) /\ p \in s.map
      /\ Tables(s) \subseteq Blocks /\ 0 \notin Tables(s)
      /\ NDIRECT \in Key /\ NDIRECT + 1 \in Key /\ NDIRECT \in Nat /\ BINS \in Nat
  <2>1. s \in State /\ Owned(s) /\ Clean(s)
    BY DEF Sound
  <2>2. p \notin Tables(s) /\ p \in s.map
    BY <2>1, LeafNoTable
  <2>3. Tables(s) \subseteq Blocks /\ 0 \notin Tables(s)
    BY <2>1, AddressesOfInode, Numbers DEF Tables
  <2> QED
    BY <2>1, <2>2, <2>3, Numbers
<1>1. \A q, k : q \in Tables(s) \cup {0} => AddressAt(t.blk, q, k) = AddressAt(s.blk, q, k)
  BY <1>0 DEF AddressAt
<1>2. \A m \in Inum : s.ino[m].addr[NDIRECT] \in Tables(s) \cup {0} /\ s.ino[m].addr[NDIRECT + 1] \in Tables(s) \cup {0}
  <2> TAKE m \in Inum
  <2>1. s.ino[m].addr[NDIRECT] \in Address /\ s.ino[m].addr[NDIRECT + 1] \in Address
    BY <1>0, AddressesOfInode
  <2> QED
    BY <1>0, <2>1, AddressBlockIs DEF Address, Tables
<1>3. ASSUME NEW m \in Inum, NEW k
      PROVE  AddressAt(t.blk, t.ino[m].addr[NDIRECT + 1], k) = AddressAt(s.blk, s.ino[m].addr[NDIRECT + 1], k)
  BY <1>0, <1>1, <1>2
<1>4. Tables(t) = Tables(s)
  <2>1. Tables(t) \subseteq Blocks
    BY AddressesOfInode DEF Tables, Inum
  <2>2. ASSUME NEW q \in Blocks PROVE q \in Tables(t) <=> q \in Tables(s)
    BY <1>0, <1>3, AddressBlockIs DEF Tables
  <2> QED
    BY <1>0, <2>1, <2>2
<1>5. Refs(t) = Refs(s)
  BY <1>4 DEF Refs, References, Tables
<1>6. ASSUME NEW r \in Refs(s) PROVE Val(t, r) = Val(s, r)
  <2>1. CASE \E m \in Inum, k \in Key : r = <<"inode", m, k>>
    <3>1. PICK m \in Inum, k \in Key : r = <<"inode", m, k>>
      BY <2>1
    <3>2. Val(t, r) = t.ino[m].addr[k] /\ Val(s, r) = s.ino[m].addr[k]
      BY <1>0, <3>1, InodeReference DEF Val
    <3> QED
      BY <3>2
  <2>2. CASE \E q \in Tables(s), k \in Sub : r = <<"block", q, k>>
    BY <1>0, <1>1, <1>4, <2>2, BlockReference DEF Val, Tables
  <2> QED
    BY <1>0, <2>1, <2>2, ReferenceIs DEF Refs, Tables
<1>7. Owned(t)
  BY <1>0, <1>5, <1>6, OwnedIs
<1>8. Clean(t)
  BY <1>0, <1>4 DEF Clean, Tables
<1>9. Sound(t)
  BY <1>7, <1>8 DEF Sound
<1>10. ASSUME NEW m \in Inum, NEW j \in Nat
       PROVE  PhysBlock(t.ino, t.blk, m, j) = PhysBlock(s.ino, s.blk, m, j)
  <2>1. CASE j < NDIRECT
    <3>1. j \in Key
      BY <1>0, <2>1 DEF Key
    <3> QED
      BY <1>0, <2>1, <3>1, PhysBlockIs
  <2>2. CASE j >= NDIRECT /\ j < NDIRECT + BINS
    <3>1. AddressAt(t.blk, t.ino[m].addr[NDIRECT], j - NDIRECT) = AddressAt(s.blk, s.ino[m].addr[NDIRECT], j - NDIRECT)
      BY <1>0, <1>1, <1>2
    <3> QED
      BY <1>0, <2>2, <3>1, PhysBlockIs
  <2>3. CASE j >= NDIRECT + BINS
    <3> DEFINE a == DoubleAt(j) \div BINS
               k == DoubleAt(j) % BINS
               q == AddressAt(s.blk, s.ino[m].addr[NDIRECT + 1], a)
    <3>1. PhysBlock(s.ino, s.blk, m, j) = AddressAt(s.blk, q, k)
      BY <1>0, <2>3, PhysBlockIs
    <3>2. PhysBlock(t.ino, t.blk, m, j) = AddressAt(t.blk, q, k)
      BY <1>0, <1>3, <2>3, PhysBlockIs
    <3>3. a \in Nat
      BY <2>3, DoubleIndex
    <3> HIDE DEF a, k
    <3>4. s.ino[m].addr[NDIRECT + 1] \in Address /\ s.blk \in [Blocks -> Content]
      BY <1>0, AddressesOfInode DEF State
    <3>5. q \in Address /\ (q # 0 => a \in Sub)
      BY <3>3, <3>4, AddressAtIs
    <3>6. q \in Tables(s) \cup {0}
      BY <1>0, <3>5, AddressBlockIs DEF Address, Tables
    <3> QED
      BY <1>1, <3>1, <3>2, <3>6
  <2> QED
    BY <1>0, <2>1, <2>2, <2>3
<1>11. Way(s, t)
  <2>1. \A q \in Tables(s), k \in Sub : AddressAt(s.blk, q, k) # 0 => AddressAt(t.blk, q, k) = AddressAt(s.blk, q, k)
    BY <1>1
  <2> QED
    BY <2>1 DEF Way
<1> QED
  BY <1>9, <1>10, <1>11

-----------------------------------------------------------------------------
(* Entries and blocks of files *)

EntryType == [inum : Inum \cup {0}, name : Names \cup {NoName, Dot, DotDot}]
Shown(s, n, x) == EntryAt(s.ino, s.blk, n, x)
Phys(s, n, i) == PhysBlock(s.ino, s.blk, n, i)

\* The entry at x of a directory is in block x \div EPB, which is there.
LEMMA EntryIs ==
  ASSUME NEW s \in State, Filled(s), NEW n \in Inum, NEW x \in 0 .. (s.ino[n].filelength - 1)
  PROVE  /\ x \in Nat /\ x \div EPB \in Nat /\ x % EPB \in 0 .. (EPB - 1)
         /\ Phys(s, n, x \div EPB) \in Blocks
         /\ (s.ino[n].mode = "file" =>
               s.blk[Phys(s, n, x \div EPB)].kind = "data" /\ Shown(s, n, x) = NoEntry)
         /\ (s.ino[n].mode # "file" =>
               /\ s.blk[Phys(s, n, x \div EPB)].kind = "entries"
               /\ Shown(s, n, x) = s.blk[Phys(s, n, x \div EPB)].at[x % EPB]
               /\ Shown(s, n, x).inum \in Inum)
<1> DEFINE i == x \div EPB
<1>1. s.ino[n].filelength \in Nat /\ EPB \in Nat \ {0, 1}
  BY Numbers, AddressesOfInode DEF Inode
<1>2. x \in Nat /\ x < s.ino[n].filelength
  BY <1>1
<1>3. i \in Nat /\ x % EPB \in 0 .. (EPB - 1) /\ x = EPB * i + (x % EPB)
  BY <1>1, <1>2, Division
<1>4. i <= x
  <2> HIDE DEF i
  <2>1. EPB * i >= i
    BY <1>1, <1>3
  <2> DEFINE m == x % EPB
  <2>2. x = EPB * i + m /\ m \in Nat /\ EPB * i \in Nat
    BY <1>1, <1>3
  <2> HIDE DEF m
  <2> QED
    BY <1>2, <1>3, <2>1, <2>2
<1>5. i \in 0 .. (s.ino[n].filelength - 1)
  BY <1>1, <1>2, <1>3, <1>4
<1> HIDE DEF i
<1>6. CASE s.ino[n].mode = "file"
  <2>1. Phys(s, n, i) # 0 /\ s.blk[Phys(s, n, i)].kind = "data"
    BY <1>5, <1>6 DEF Filled, Phys
  <2>2. Shown(s, n, x) = NoEntry
    BY <2>1 DEF Shown, EntryAt, Phys, i
  <2>3. Phys(s, n, i) \in Blocks
    BY <1>3, <2>1, LeafIs DEF Phys
  <2> QED
    BY <1>2, <1>3, <1>6, <2>1, <2>2, <2>3 DEF i
<1>7. CASE s.ino[n].mode # "file"
  <2>1. Phys(s, n, i) # 0 /\ s.blk[Phys(s, n, i)].kind = "entries" /\ Shown(s, n, x).inum \in Inum
    BY <1>7 DEF Filled, Phys, Shown, i
  <2>2. Shown(s, n, x) = s.blk[Phys(s, n, i)].at[x % EPB]
    BY <2>1 DEF Shown, EntryAt, Phys, i
  <2>3. Phys(s, n, i) \in Blocks
    BY <1>3, <2>1, LeafIs DEF Phys
  <2> QED
    BY <1>2, <1>3, <1>7, <2>1, <2>2, <2>3 DEF i
<1> QED
  BY <1>6, <1>7

\* Filled, of one index of one inode.
FilledAt(s, n, e) ==
  LET isfile == s.ino[n].mode = "file"
      p      == Phys(s, n, IF isfile THEN e ELSE e \div EPB)
  IN /\ p # 0
     /\ s.blk[p].kind = IF isfile THEN "data" ELSE "entries"
     /\ ~isfile => Shown(s, n, e).inum \in Inum

\* Filled, index by index.
LEMMA FilledIs ==
  ASSUME NEW s
  PROVE  Filled(s) <=> \A n \in Inum : \A e \in 0 .. (s.ino[n].filelength - 1) : FilledAt(s, n, e)
BY DEF Filled, FilledAt, Phys, Shown

\* The blocks of the files of s are those of t.
Same(s, t) ==
  \A n \in Inum : s.ino[n].mode = "file" =>
    /\ t.ino[n].mode = "file"
    /\ \A x \in 0 .. (s.ino[n].filelength - 1) : t.blk[Phys(t, n, x)] = s.blk[Phys(s, n, x)]

\* The entries of s, its addresses and its files are those of t.
Kept(s, t) ==
  /\ \A n \in Inum : \A x \in 0 .. (s.ino[n].filelength - 1) : Shown(t, n, x) = Shown(s, n, x)
  /\ Way(s, t) /\ Same(s, t)

\* An address that led to a block leads there ...
LEMMA WayTables ==
  ASSUME NEW s \in State, NEW t \in State, Way(s, t)
  PROVE  Tables(s) \subseteq Tables(t)
<1> SUFFICES ASSUME NEW p \in Tables(s) PROVE p \in Tables(t)
  OBVIOUS
<1>0. p \in Blocks /\ p # 0 /\ NDIRECT \in Key /\ NDIRECT + 1 \in Key
  BY AddressesOfInode, Numbers DEF Tables
<1>1. CASE \E n \in Inum : \E k \in {NDIRECT, NDIRECT + 1} : s.ino[n].addr[k] = p
  <2>1. PICK n \in Inum, k \in {NDIRECT, NDIRECT + 1} : s.ino[n].addr[k] = p
    BY <1>1
  <2>2. t.ino[n].addr[k] = p
    BY <1>0, <2>1 DEF Way
  <2> QED
    BY <1>0, <2>1, <2>2, AddressBlockIs DEF Tables
<1>2. CASE \E n \in Inum : \E k \in Sub : AddressAt(s.blk, s.ino[n].addr[NDIRECT + 1], k) = p
  <2>1. PICK n \in Inum, k \in Sub : AddressAt(s.blk, s.ino[n].addr[NDIRECT + 1], k) = p
    BY <1>2
  <2> DEFINE top == s.ino[n].addr[NDIRECT + 1]
  <2>2. top \in Tables(s) /\ top # 0
    BY <1>0, <2>1, LastAddress
  <2>3. t.ino[n].addr[NDIRECT + 1] = top
    BY <1>0, <2>2 DEF Way
  <2>4. AddressAt(t.blk, top, k) = p
    BY <1>0, <2>1, <2>2 DEF Way
  <2> QED
    BY <1>0, <2>3, <2>4, AddressBlockIs DEF Tables
<1> QED
  BY <1>0, <1>1, <1>2, AddressBlockIs DEF Tables

\* ... and further.
LEMMA WayFurther ==
  ASSUME NEW s \in State, NEW t \in State, NEW u, Way(s, t), Way(t, u)
  PROVE  Way(s, u)
<1>1. Tables(s) \subseteq Tables(t)
  BY WayTables
<1>2. ASSUME NEW n \in Inum, NEW k \in Key, s.ino[n].addr[k] # 0
      PROVE  u.ino[n].addr[k] = s.ino[n].addr[k]
  <2>1. t.ino[n].addr[k] = s.ino[n].addr[k]
    BY <1>2 DEF Way
  <2> QED
    BY <1>2, <2>1 DEF Way
<1>3. ASSUME NEW p \in Tables(s), NEW k \in Sub, AddressAt(s.blk, p, k) # 0
      PROVE  AddressAt(u.blk, p, k) = AddressAt(s.blk, p, k)
  <2>1. AddressAt(t.blk, p, k) = AddressAt(s.blk, p, k)
    BY <1>3 DEF Way
  <2> QED
    BY <1>1, <1>3, <2>1 DEF Way
<1> QED
  BY <1>2, <1>3 DEF Way

\* Kept is transitive where nothing shrinks.
LEMMA KeptFurther ==
  ASSUME NEW s \in State, NEW t \in State, NEW u, Kept(s, t), Kept(t, u),
         \A n \in Inum : s.ino[n].filelength <= t.ino[n].filelength
  PROVE  Kept(s, u)
<1>1. ASSUME NEW n \in Inum, NEW x \in 0 .. (s.ino[n].filelength - 1)
      PROVE  /\ Shown(u, n, x) = Shown(s, n, x)
             /\ s.ino[n].mode = "file" =>
                  u.ino[n].mode = "file" /\ u.blk[Phys(u, n, x)] = s.blk[Phys(s, n, x)]
  <2>1. s.ino[n].filelength \in Nat /\ t.ino[n].filelength \in Nat
    BY AddressesOfInode DEF Inode
  <2>2. x \in 0 .. (t.ino[n].filelength - 1)
    BY <2>1
  <2> QED
    BY <2>2 DEF Kept, Same
<1>2. Same(s, u)
  BY <1>1 DEF Kept, Same
<1>3. Way(s, u)
  BY WayFurther DEF Kept
<1> QED
  BY <1>1, <1>2, <1>3 DEF Kept

\* Nothing changes where inodes and blocks do not.
LEMMA KeptSame ==
  ASSUME NEW s, NEW t, t.ino = s.ino, t.blk = s.blk
  PROVE  Kept(s, t)
BY DEF Kept, Way, Same, Shown, Phys

\* What was there is there after blocks were allocated.
LEMMA GrownFilled ==
  ASSUME NEW s \in State, Filled(s), NEW t, Sound(t), Grown(s, t)
  PROVE  Filled(t) /\ Kept(s, t)
<1>1. ASSUME NEW n \in Inum, NEW x \in 0 .. (s.ino[n].filelength - 1)
      PROVE  /\ FilledAt(t, n, x) /\ Shown(t, n, x) = Shown(s, n, x)
             /\ (s.ino[n].mode = "file" => t.blk[Phys(t, n, x)] = s.blk[Phys(s, n, x)])
  <2>1. /\ x \in Nat /\ x \div EPB \in Nat /\ Phys(s, n, x \div EPB) \in Blocks /\ Phys(s, n, x \div EPB) # 0
    BY EntryIs, Numbers
  <2>2. Phys(t, n, x \div EPB) = Phys(s, n, x \div EPB) /\ t.blk[Phys(s, n, x \div EPB)] = s.blk[Phys(s, n, x \div EPB)]
    BY <2>1, LeafStays DEF Phys
  <2>3. Shown(t, n, x) = Shown(s, n, x)
    BY <2>2 DEF Shown, EntryAt, Phys
  <2>4. FilledAt(s, n, x) /\ t.ino[n].mode = s.ino[n].mode
    BY FilledIs DEF Grown
  <2>5. CASE s.ino[n].mode = "file"
    <3>1. Phys(s, n, x) # 0 /\ s.blk[Phys(s, n, x)].kind = "data"
      BY <2>4, <2>5 DEF FilledAt
    <3>2. Phys(t, n, x) = Phys(s, n, x) /\ t.blk[Phys(s, n, x)] = s.blk[Phys(s, n, x)]
      BY <2>1, <3>1, LeafStays DEF Phys
    <3> QED
      BY <2>3, <2>4, <2>5, <3>1, <3>2 DEF FilledAt
  <2>6. CASE s.ino[n].mode # "file"
    BY <2>2, <2>3, <2>4, <2>6 DEF FilledAt
  <2> QED
    BY <2>3, <2>5, <2>6
<1>2. \A n \in Inum : t.ino[n].filelength = s.ino[n].filelength /\ t.ino[n].mode = s.ino[n].mode
  BY DEF Grown
<1>3. Way(s, t) /\ Same(s, t)
  BY <1>1, <1>2, GrownAddresses DEF Same
<1> QED
  BY <1>1, <1>2, <1>3, FilledIs DEF Kept

\* A block written at the end of what an inode has.
Put(u, n, p, c, t) ==
  /\ t \in State /\ t.stop = u.stop /\ t.map = u.map
  /\ t.free_inodes = u.free_inodes /\ t.free_data = u.free_data
  /\ \A m \in Inum : /\ t.ino[m].mode = u.ino[m].mode /\ t.ino[m].links = u.ino[m].links
                     /\ \A k \in Key : t.ino[m].addr[k] = u.ino[m].addr[k]
  /\ \A m \in Inum \ {n} : t.ino[m].filelength = u.ino[m].filelength
  /\ t.ino[n].filelength = u.ino[n].filelength + 1
  /\ t.blk[p] = c /\ \A q \in Blocks \ {p} : t.blk[q] = u.blk[q]

\* What a write at the end does to the state.
LEMMA PutIs ==
  ASSUME NEW u \in State, NEW n \in Inum, NEW p \in Blocks, NEW c \in Content,
         NEW node, node = [u.ino[n] EXCEPT !.filelength = u.ino[n].filelength + 1],
         NEW t, t = [u EXCEPT !.ino = [u.ino EXCEPT ![n] = node], !.blk = [u.blk EXCEPT ![p] = c]]
  PROVE  Put(u, n, p, c, t)
<1>1. u.ino \in [Inum -> Inode] /\ u.blk \in [Blocks -> Content] /\ u.ino[n] \in Inode
  BY DEF State
<1>2. u.ino[n].filelength + 1 \in Nat
  BY <1>1 DEF Inode
<1>3. /\ node \in Inode /\ node.mode = u.ino[n].mode /\ node.links = u.ino[n].links
      /\ node.addr = u.ino[n].addr /\ node.filelength = u.ino[n].filelength + 1
  BY <1>1, <1>2 DEF Inode
<1>4. /\ t \in State /\ t.stop = u.stop /\ t.map = u.map
      /\ t.free_inodes = u.free_inodes /\ t.free_data = u.free_data
      /\ t.ino = [u.ino EXCEPT ![n] = node] /\ t.blk = [u.blk EXCEPT ![p] = c]
  BY <1>1, <1>3 DEF State
<1>5. t.ino[n] = node /\ \A m \in Inum \ {n} : t.ino[m] = u.ino[m]
  BY <1>1, <1>4
<1>6. t.blk[p] = c /\ \A q \in Blocks \ {p} : t.blk[q] = u.blk[q]
  BY <1>1, <1>4
<1>7. \A m \in Inum : /\ t.ino[m].mode = u.ino[m].mode /\ t.ino[m].links = u.ino[m].links
                      /\ \A k \in Key : t.ino[m].addr[k] = u.ino[m].addr[k]
  BY <1>3, <1>5
<1>8. /\ \A m \in Inum \ {n} : t.ino[m].filelength = u.ino[m].filelength
      /\ t.ino[n].filelength = u.ino[n].filelength + 1
  BY <1>3, <1>5
<1> QED
  BY <1>4, <1>6, <1>7, <1>8 DEF Put

\* ... in a block of its own leaves all other entries.
LEMMA PutElsewhere ==
  ASSUME NEW u, Sound(u), Filled(u), NEW n \in Inum, NEW i \in Nat, NEW p \in Blocks, p = Phys(u, n, i),
         NEW c, NEW t, Put(u, n, p, c, t)
  PROVE  /\ Sound(t) /\ Way(u, t) /\ \A m \in Inum, j \in Nat : Phys(t, m, j) = Phys(u, m, j)
         /\ \A m \in Inum, j \in Nat : Phys(u, m, j) = p => m = n /\ j = i
         /\ \A m \in Inum \ {n} : \A x \in 0 .. (u.ino[m].filelength - 1) :
              /\ FilledAt(t, m, x) /\ Shown(t, m, x) = Shown(u, m, x)
              /\ u.ino[m].mode = "file" => t.blk[Phys(t, m, x)] = u.blk[Phys(u, m, x)]
<1>0. u \in State /\ Owned(u) /\ p # 0
  BY Numbers DEF Sound
<1>1. Sound(t) /\ Way(u, t) /\ \A m \in Inum, j \in Nat : Phys(t, m, j) = Phys(u, m, j)
  BY <1>0, WriteLeaf DEF Put, Phys
<1>2. \A m \in Inum, j \in Nat : Phys(u, m, j) = p => m = n /\ j = i
  BY <1>0, LeafOnce DEF Phys
<1>3. ASSUME NEW m \in Inum \ {n}, NEW x \in 0 .. (u.ino[m].filelength - 1)
      PROVE  /\ FilledAt(t, m, x) /\ Shown(t, m, x) = Shown(u, m, x)
             /\ u.ino[m].mode = "file" => t.blk[Phys(t, m, x)] = u.blk[Phys(u, m, x)]
  <2>1. /\ x \in Nat /\ x \div EPB \in Nat /\ Phys(u, m, x \div EPB) \in Blocks \ {p}
    BY <1>0, <1>2, EntryIs
  <2>2. Phys(t, m, x \div EPB) = Phys(u, m, x \div EPB) /\ t.blk[Phys(u, m, x \div EPB)] = u.blk[Phys(u, m, x \div EPB)]
    BY <1>1, <2>1 DEF Put
  <2>3. Shown(t, m, x) = Shown(u, m, x)
    BY <2>2 DEF Shown, EntryAt, Phys
  <2>4. FilledAt(u, m, x) /\ t.ino[m].mode = u.ino[m].mode
    BY FilledIs DEF Put
  <2>5. CASE u.ino[m].mode = "file"
    <3>1. Phys(u, m, x) # 0 /\ u.blk[Phys(u, m, x)].kind = "data"
      BY <2>4, <2>5 DEF FilledAt
    <3>2. Phys(u, m, x) \in Blocks \ {p}
      BY <1>0, <1>2, <2>1, <3>1, LeafIs DEF Phys
    <3>3. Phys(t, m, x) = Phys(u, m, x) /\ t.blk[Phys(u, m, x)] = u.blk[Phys(u, m, x)]
      BY <1>1, <2>1, <3>2 DEF Put
    <3> QED
      BY <2>3, <2>4, <2>5, <3>1, <3>3 DEF FilledAt
  <2>6. CASE u.ino[m].mode # "file"
    BY <2>2, <2>3, <2>4, <2>6 DEF FilledAt
  <2> QED
    BY <2>3, <2>5, <2>6
<1> QED
  BY <1>1, <1>2, <1>3

\* One entry more of a directory.
LEMMA PutEntryIs ==
  ASSUME NEW u, Sound(u), Filled(u), u.stop = "no", NEW n \in Inum, u.ino[n].mode # "file",
         NEW e, e = u.ino[n].filelength, NEW p \in Blocks, p = Phys(u, n, e \div EPB),
         NEW entry \in EntryType, entry.inum \in Inum,
         NEW t, t = PutEntry([s |-> u, b |-> p], n, entry)
  PROVE  /\ Sound(t) /\ Filled(t) /\ Kept(u, t) /\ Shown(t, n, e) = entry
         /\ t.stop = "no" /\ t.ino[n].filelength = e + 1 /\ t.free_inodes = u.free_inodes /\ u.map \subseteq t.map
         /\ \A m \in Inum : t.ino[m].mode = u.ino[m].mode /\ t.ino[m].links = u.ino[m].links
         /\ \A m \in Inum \ {n} : t.ino[m].filelength = u.ino[m].filelength
<1> DEFINE i == e \div EPB
           f == [j \in 0 .. (EPB - 1) |->
                   IF j = e % EPB THEN entry
                   ELSE IF u.blk[p].kind = "entries" THEN u.blk[p].at[j] ELSE NoEntry]
           c == Entries(f)
           node == [u.ino[n] EXCEPT !.filelength = e + 1]
<1>0. u \in State /\ Owned(u) /\ p # 0 /\ u.ino \in [Inum -> Inode] /\ u.blk \in [Blocks -> Content] /\ e \in Nat
  <2>1. u \in State /\ Owned(u) /\ p # 0
    BY Numbers DEF Sound
  <2>2. u.ino \in [Inum -> Inode] /\ u.blk \in [Blocks -> Content]
    BY <2>1 DEF State
  <2> QED
    BY <2>1, <2>2 DEF Inode
<1>1. t = [u EXCEPT !.ino = [u.ino EXCEPT ![n] = node], !.blk = [u.blk EXCEPT ![p] = c]]
  BY <1>0 DEF PutEntry, State
<1>2. NoEntry \in EntryType
  BY DEF NoEntry, EntryType
<1>3. u.blk[p].kind = "entries" => u.blk[p].at \in [0 .. (EPB - 1) -> EntryType]
  BY <1>0, Kinds DEF EntryType
<1>4. f \in [0 .. (EPB - 1) -> EntryType]
  BY <1>2, <1>3
<1>5. c \in Content /\ c.kind = "entries" /\ c.at = f
  <2> HIDE DEF f
  <2>1. c \in [kind : {"entries"}, at : [0 .. (EPB - 1) -> EntryType]]
    BY <1>4 DEF Entries
  <2> QED
    BY <2>1 DEF Content, EntryType, Entries
<1> HIDE DEF c
<1>6. Put(u, n, p, c, t)
  BY <1>0, <1>1, <1>5, PutIs
<1> HIDE DEF node
<1>7. i \in Nat /\ e % EPB \in 0 .. (EPB - 1) /\ e = EPB * i + (e % EPB)
  BY <1>0, Numbers, Division
<1>8. /\ Sound(t) /\ Way(u, t) /\ \A m \in Inum, j \in Nat : Phys(t, m, j) = Phys(u, m, j)
      /\ \A m \in Inum, j \in Nat : Phys(u, m, j) = p => m = n /\ j = i
      /\ \A m \in Inum \ {n} : \A x \in 0 .. (u.ino[m].filelength - 1) :
           /\ FilledAt(t, m, x) /\ Shown(t, m, x) = Shown(u, m, x)
           /\ u.ino[m].mode = "file" => t.blk[Phys(t, m, x)] = u.blk[Phys(u, m, x)]
  BY <1>6, <1>7, PutElsewhere
<1>9. FilledAt(t, n, e) /\ Shown(t, n, e) = entry
  <2>1. Phys(t, n, i) = p /\ t.blk[p] = c /\ t.ino[n].mode # "file"
    BY <1>6, <1>7, <1>8 DEF Put
  <2>2. f[e % EPB] = entry
    BY <1>7
  <2>3. Shown(t, n, e) = entry
    BY <1>0, <1>5, <2>1, <2>2 DEF Shown, EntryAt, Phys
  <2> QED
    BY <1>0, <1>5, <2>1, <2>3 DEF FilledAt
<1>10. ASSUME NEW x \in 0 .. (e - 1)
       PROVE  FilledAt(t, n, x) /\ Shown(t, n, x) = Shown(u, n, x)
  <2> DEFINE q == Phys(u, n, x \div EPB)
  <2>1. /\ x \in Nat /\ x \div EPB \in Nat /\ x % EPB \in 0 .. (EPB - 1) /\ q \in Blocks
        /\ u.blk[q].kind = "entries" /\ Shown(u, n, x) = u.blk[q].at[x % EPB] /\ Shown(u, n, x).inum \in Inum
    BY <1>0, EntryIs
  <2>2. x = EPB * (x \div EPB) + (x % EPB)
    BY <2>1, Numbers, Division
  <2>3. Phys(t, n, x \div EPB) = q /\ q # 0 /\ t.ino[n].mode # "file"
    BY <1>6, <1>8, <2>1, Numbers DEF Put
  <2>4. t.blk[q].kind = "entries" /\ t.blk[q].at[x % EPB] = u.blk[q].at[x % EPB]
    <3>1. CASE q # p
      BY <1>6, <2>1, <3>1 DEF Put
    <3>2. CASE q = p
      <4>1. x \div EPB = i
        BY <1>8, <2>1, <3>2
      <4>2. x # e
        BY <1>0
      <4>3. x % EPB # e % EPB
        BY <1>7, <2>2, <4>1, <4>2
      <4>4. f[x % EPB] = u.blk[p].at[x % EPB]
        BY <2>1, <3>2, <4>3
      <4> QED
        BY <1>5, <1>6, <3>2, <4>4 DEF Put
    <3> QED
      BY <3>1, <3>2
  <2> HIDE DEF q
  <2>5. Shown(t, n, x) = Shown(u, n, x)
    BY <2>1, <2>3, <2>4 DEF Shown, EntryAt, Phys
  <2> QED
    BY <2>1, <2>3, <2>4, <2>5 DEF FilledAt
<1>11. t.ino[n].filelength = e + 1 /\ \A m \in Inum \ {n} : t.ino[m].filelength = u.ino[m].filelength
  BY <1>6 DEF Put
<1>12. Filled(t)
  <2>2. \A x \in 0 .. (t.ino[n].filelength - 1) : FilledAt(t, n, x)
    <3> TAKE x \in 0 .. (t.ino[n].filelength - 1)
    <3>1. x = e \/ x \in 0 .. (e - 1)
      BY <1>0, <1>11
    <3> QED
      BY <1>9, <1>10, <3>1
  <2>3. \A m \in Inum \ {n} : \A x \in 0 .. (t.ino[m].filelength - 1) : FilledAt(t, m, x)
    BY <1>8, <1>11
  <2> QED
    BY <2>2, <2>3, FilledIs
<1>13. Kept(u, t)
  <2>1. \A m \in Inum : u.ino[m].mode = "file" => m \in Inum \ {n} /\ t.ino[m].mode = "file"
    BY <1>6 DEF Put
  <2>2. Same(u, t)
    BY <1>8, <2>1 DEF Same
  <2> QED
    BY <1>8, <1>10, <2>2 DEF Kept
<1> QED
  BY <1>6, <1>8, <1>9, <1>11, <1>12, <1>13 DEF Put

\* dir_write appends the entry, or finds the disk full.
Written(s, n, entry, t) ==
  /\ Sound(t) /\ Filled(t) /\ Kept(s, t) /\ t.free_inodes = s.free_inodes /\ s.map \subseteq t.map
  /\ \A m \in Inum : t.ino[m].mode = s.ino[m].mode /\ t.ino[m].links = s.ino[m].links
  /\ \A m \in Inum \ {n} : t.ino[m].filelength = s.ino[m].filelength
  /\ \/ /\ t.stop = "no" /\ t.ino[n].filelength = s.ino[n].filelength + 1
        /\ Shown(t, n, s.ino[n].filelength) = entry
     \/ t.stop = "panic" /\ t.map = Blocks /\ t.ino[n].filelength = s.ino[n].filelength

\* dir_write adds one entry, or finds the disk full.
LEMMA DirWriteIs ==
  ASSUME NEW s, Sound(s), Filled(s), s.stop = "no", NEW n \in Inum, s.ino[n].mode # "file",
         s.ino[n].filelength < EPB * Capacity, NEW entry \in EntryType, entry.inum \in Inum
  PROVE  Written(s, n, entry, dir_write(s, n, entry))
<1> DEFINE e == s.ino[n].filelength
           i == e \div EPB
           r == iget_phys_block(s, n, i)
           t == PutEntry(r, n, entry)
<1>1. e \in Nat /\ s \in State
  BY AddressesOfInode DEF Sound, Inode
<1>2. i \in Nat /\ i < Capacity
  <2>1. Capacity \in Nat /\ EPB \in Nat \ {0}
    <3>1. NDIRECT \in Nat /\ BINS \in Nat /\ BINS * BINS \in Nat /\ EPB \in Nat \ {0}
      BY Numbers
    <3> QED
      BY <3>1 DEF Capacity
  <2>2. i \in Nat /\ e % EPB \in 0 .. (EPB - 1) /\ e = EPB * i + (e % EPB)
    BY <1>1, <2>1, Division
  <2> DEFINE m == e % EPB
  <2>3. i \in Nat /\ m \in 0 .. (EPB - 1) /\ EPB * i + m < EPB * Capacity
    BY <2>2
  <2> HIDE DEF i, m
  <2> QED
    BY <2>1, <2>3, ProductBelow
<1> HIDE DEF i
<1>3. Reached(s, n, i, r)
  BY <1>2, BlockReached
<1>4. dir_write(s, n, entry) = t
  BY DEF dir_write, i
<1> HIDE DEF r
<1>5. r.s \in State /\ Sound(r.s) /\ Grown(s, r.s) /\ Filled(r.s) /\ Kept(s, r.s)
  BY <1>1, <1>3, GrownFilled DEF Reached, Sound
<1>6. /\ r.s.free_inodes = s.free_inodes /\ s.map \subseteq r.s.map
      /\ \A m \in Inum : /\ r.s.ino[m].mode = s.ino[m].mode /\ r.s.ino[m].links = s.ino[m].links
                         /\ r.s.ino[m].filelength = s.ino[m].filelength
  BY <1>5 DEF Grown
<1>7. ~ (i > Capacity) /\ i # Capacity
  <2>1. NDIRECT \in Nat /\ BINS \in Nat /\ BINS * BINS \in Nat
    BY Numbers
  <2> QED
    BY <1>2, <2>1 DEF Capacity
<1>8. CASE r.s.stop = "no"
  <2>1. r.b \in Blocks /\ r.b = Phys(r.s, n, e \div EPB) /\ e = r.s.ino[n].filelength /\ r.s.ino[n].mode # "file"
    BY <1>3, <1>6, <1>8 DEF Reached, Phys, i
  <2> DEFINE p == r.b
             u == r.s
             v == PutEntry([s |-> u, b |-> p], n, entry)
  <2>2. t = v
    BY <1>8 DEF PutEntry
  <2> HIDE DEF v, t
  <2>3. /\ Sound(v) /\ Filled(v) /\ Kept(u, v) /\ Shown(v, n, e) = entry
        /\ v.stop = "no" /\ v.ino[n].filelength = e + 1 /\ v.free_inodes = u.free_inodes /\ u.map \subseteq v.map
        /\ \A m \in Inum : v.ino[m].mode = u.ino[m].mode /\ v.ino[m].links = u.ino[m].links
        /\ \A m \in Inum \ {n} : v.ino[m].filelength = u.ino[m].filelength
    <3> HIDE DEF e, p, u
    <3>1. Sound(u) /\ Filled(u) /\ u.stop = "no" /\ u.ino[n].mode # "file"
      BY <1>5, <1>8, <2>1 DEF u
    <3>2. p \in Blocks /\ p = Phys(u, n, e \div EPB) /\ e = u.ino[n].filelength
      BY <2>1 DEF u, p
    <3>3. v = PutEntry([s |-> u, b |-> p], n, entry)
      BY DEF v
    <3> QED
      BY <3>1, <3>2, <3>3, PutEntryIs
  <2>4. Kept(s, v)
    <3>1. s \in State /\ \A m \in Inum : s.ino[m].filelength \in Nat
      BY AddressesOfInode DEF Sound, Inode
    <3>2. \A m \in Inum : s.ino[m].filelength <= u.ino[m].filelength
      BY <1>6, <3>1
    <3> HIDE DEF e
    <3> QED
      BY <1>5, <2>3, <3>1, <3>2, KeptFurther
  <2>5. Written(s, n, entry, v)
    BY <1>6, <2>3, <2>4 DEF Written
  <2> QED
    BY <1>4, <2>2, <2>5
<1>9. CASE r.s.stop # "no"
  <2>1. t = r.s
    BY <1>9 DEF PutEntry
  <2>2. r.s.stop = "panic" /\ r.s.map = Blocks
    BY <1>3, <1>7, <1>9 DEF Reached
  <2> HIDE DEF t
  <2>3. Written(s, n, entry, r.s)
    BY <1>5, <1>6, <2>2 DEF Written
  <2> QED
    BY <1>4, <2>1, <2>3
<1> QED
  BY <1>8, <1>9

\* One block more of a file.
FileWritten(s, n, v, t) ==
  /\ Sound(t) /\ Filled(t) /\ Kept(s, t) /\ t.free_inodes = s.free_inodes /\ s.map \subseteq t.map
  /\ \A m \in Inum : t.ino[m].mode = s.ino[m].mode /\ t.ino[m].links = s.ino[m].links
  /\ \A m \in Inum \ {n} : t.ino[m].filelength = s.ino[m].filelength
  /\ \/ /\ t.stop = "no" /\ t.ino[n].filelength = s.ino[n].filelength + 1
        /\ t.blk[Phys(t, n, s.ino[n].filelength)] = Data(v)
     \/ /\ t.stop = "panic" \/ (t.stop = "overrun" /\ s.ino[n].filelength = Capacity)
        /\ t.ino[n].filelength = s.ino[n].filelength

\* iwrite of a block that was allocated.
LEMMA PutBlockIs ==
  ASSUME NEW u, Sound(u), Filled(u), u.stop = "no", NEW n \in Inum, u.ino[n].mode = "file",
         NEW e, e = u.ino[n].filelength, NEW p \in Blocks, p = Phys(u, n, e), NEW v \in Inum \X Nat,
         NEW t, t = PutBlock([s |-> u, b |-> p], n, v)
  PROVE  /\ Sound(t) /\ Filled(t) /\ Kept(u, t)
         /\ t.stop = "no" /\ t.ino[n].filelength = e + 1 /\ t.free_inodes = u.free_inodes /\ u.map \subseteq t.map
         /\ \A m \in Inum : t.ino[m].mode = u.ino[m].mode /\ t.ino[m].links = u.ino[m].links
         /\ \A m \in Inum \ {n} : t.ino[m].filelength = u.ino[m].filelength
         /\ t.blk[Phys(t, n, e)] = Data(v)
<1> DEFINE c == Data(v)
           node == [u.ino[n] EXCEPT !.filelength = u.ino[n].filelength + 1]
<1>0. u \in State /\ Owned(u) /\ p # 0 /\ u.ino \in [Inum -> Inode] /\ u.blk \in [Blocks -> Content] /\ e \in Nat
  <2>1. u \in State /\ Owned(u) /\ p # 0
    BY Numbers DEF Sound
  <2>2. u.ino \in [Inum -> Inode] /\ u.blk \in [Blocks -> Content]
    BY <2>1 DEF State
  <2> QED
    BY <2>1, <2>2 DEF Inode
<1>1. t = [u EXCEPT !.ino = [u.ino EXCEPT ![n] = node], !.blk = [u.blk EXCEPT ![p] = c]]
  BY <1>0 DEF PutBlock, State
<1>2. c \in Content /\ c.kind = "data"
  <2>1. c \in [kind : {"data"}, value : Inum \X Nat]
    BY DEF Data
  <2> QED
    BY <2>1 DEF Content, Data
<1> HIDE DEF c
<1>3. Put(u, n, p, c, t)
  BY <1>0, <1>1, <1>2, PutIs
<1> HIDE DEF node
<1>4. /\ Sound(t) /\ Way(u, t) /\ \A m \in Inum, j \in Nat : Phys(t, m, j) = Phys(u, m, j)
      /\ \A m \in Inum, j \in Nat : Phys(u, m, j) = p => m = n /\ j = e
      /\ \A m \in Inum \ {n} : \A x \in 0 .. (u.ino[m].filelength - 1) :
           /\ FilledAt(t, m, x) /\ Shown(t, m, x) = Shown(u, m, x)
           /\ u.ino[m].mode = "file" => t.blk[Phys(t, m, x)] = u.blk[Phys(u, m, x)]
  BY <1>0, <1>3, PutElsewhere
<1>5. t.ino[n].mode = "file"
  BY <1>3 DEF Put
<1>6. FilledAt(t, n, e) /\ t.blk[Phys(t, n, e)] = c
  <2>1. Phys(t, n, e) = p /\ t.blk[p] = c
    BY <1>0, <1>3, <1>4 DEF Put
  <2> QED
    BY <1>0, <1>2, <1>5, <2>1 DEF FilledAt
<1>7. ASSUME NEW x \in 0 .. (e - 1)
      PROVE  /\ FilledAt(t, n, x) /\ Shown(t, n, x) = Shown(u, n, x)
             /\ t.blk[Phys(t, n, x)] = u.blk[Phys(u, n, x)]
  <2> DEFINE q == Phys(u, n, x \div EPB)
  <2>1. /\ x \in Nat /\ x # e /\ x \div EPB \in Nat /\ q \in Blocks
        /\ u.blk[q].kind = "data" /\ Shown(u, n, x) = NoEntry
    <3>1. x \in Nat /\ x # e
      BY <1>0
    <3> QED
      BY <1>0, <3>1, EntryIs
  <2>2. t.blk[q].kind = "data" /\ Phys(t, n, x \div EPB) = q /\ q # 0
    BY <1>2, <1>3, <1>4, <2>1, Numbers DEF Put
  <2>3. Shown(t, n, x) = NoEntry
    BY <2>2 DEF Shown, EntryAt, Phys
  <2>4. Phys(u, n, x) # 0 /\ u.blk[Phys(u, n, x)].kind = "data"
    BY FilledIs DEF FilledAt
  <2>5. Phys(u, n, x) \in Blocks \ {p}
    BY <1>0, <1>4, <2>1, <2>4, LeafIs DEF Phys
  <2>6. Phys(t, n, x) = Phys(u, n, x) /\ t.blk[Phys(u, n, x)] = u.blk[Phys(u, n, x)]
    BY <1>3, <1>4, <2>1, <2>5 DEF Put
  <2> QED
    BY <1>5, <2>1, <2>3, <2>4, <2>6 DEF FilledAt
<1>8. t.ino[n].filelength = e + 1 /\ \A m \in Inum \ {n} : t.ino[m].filelength = u.ino[m].filelength
  BY <1>3 DEF Put
<1>9. Filled(t)
  <2>1. ASSUME NEW x \in 0 .. (t.ino[n].filelength - 1) PROVE FilledAt(t, n, x)
    <3>1. x = e \/ x \in 0 .. (e - 1)
      BY <1>0, <1>8
    <3> QED
      BY <1>6, <1>7, <3>1
  <2>2. \A m \in Inum \ {n} : \A x \in 0 .. (t.ino[m].filelength - 1) : FilledAt(t, m, x)
    BY <1>4, <1>8
  <2> QED
    BY <2>1, <2>2, FilledIs
<1>10. Kept(u, t)
  <2>1. Same(u, t)
    BY <1>3, <1>4, <1>7 DEF Same, Put
  <2> QED
    BY <1>4, <1>7, <2>1 DEF Kept
<1>11. t.blk[Phys(t, n, e)] = Data(v)
  BY <1>6 DEF c
<1> QED
  BY <1>3, <1>4, <1>8, <1>9, <1>10, <1>11 DEF Put

\* iwrite of one block of a file: it is added, or the disk is full, or the file is
\* as long as an inode can address.
LEMMA WriteBlockIs ==
  ASSUME NEW s, Sound(s), Filled(s), s.stop = "no", NEW n \in Inum, s.ino[n].mode = "file",
         NEW v \in Inum \X Nat
  PROVE  FileWritten(s, n, v, write_block(s, n, v))
<1> DEFINE e == s.ino[n].filelength
           r == iget_phys_block(s, n, e)
           t == PutBlock(r, n, v)
<1>1. e \in Nat /\ s \in State
  BY AddressesOfInode DEF Sound, Inode
<1>2. Reached(s, n, e, r)
  BY <1>1, BlockReached
<1>3. write_block(s, n, v) = t
  BY DEF write_block
<1> HIDE DEF r
<1>4. r.s \in State /\ Sound(r.s) /\ Grown(s, r.s) /\ Filled(r.s) /\ Kept(s, r.s)
  BY <1>1, <1>2, GrownFilled DEF Reached, Sound
<1>5. /\ r.s.free_inodes = s.free_inodes /\ s.map \subseteq r.s.map
      /\ \A m \in Inum : /\ r.s.ino[m].mode = s.ino[m].mode /\ r.s.ino[m].links = s.ino[m].links
                         /\ r.s.ino[m].filelength = s.ino[m].filelength
  BY <1>4 DEF Grown
<1>6. CASE r.s.stop = "no"
  <2> DEFINE p == r.b
             u == r.s
             w == PutBlock([s |-> u, b |-> p], n, v)
  <2>1. p \in Blocks /\ p = Phys(u, n, e) /\ e = u.ino[n].filelength /\ u.ino[n].mode = "file"
    BY <1>2, <1>5, <1>6 DEF Reached, Phys
  <2>2. t = w
    BY <1>6 DEF PutBlock
  <2>3. Sound(u) /\ Filled(u) /\ u.stop = "no"
    BY <1>4, <1>6
  <2>4. w = PutBlock([s |-> u, b |-> p], n, v)
    OBVIOUS
  <2> HIDE DEF w, t, u, p, e
  <2>5. /\ Sound(w) /\ Filled(w) /\ Kept(u, w)
        /\ w.stop = "no" /\ w.ino[n].filelength = e + 1 /\ w.free_inodes = u.free_inodes /\ u.map \subseteq w.map
        /\ \A m \in Inum : w.ino[m].mode = u.ino[m].mode /\ w.ino[m].links = u.ino[m].links
        /\ \A m \in Inum \ {n} : w.ino[m].filelength = u.ino[m].filelength
        /\ w.blk[Phys(w, n, e)] = Data(v)
    BY <2>1, <2>3, <2>4, PutBlockIs
  <2>6. Kept(s, w)
    <3>1. \A m \in Inum : s.ino[m].filelength \in Nat
      BY <1>1, AddressesOfInode DEF Inode
    <3>2. \A m \in Inum : s.ino[m].filelength <= u.ino[m].filelength
      BY <1>5, <3>1 DEF u
    <3> QED
      BY <1>1, <1>4, <2>5, <3>2, KeptFurther DEF u
  <2>7. FileWritten(s, n, v, w)
    BY <1>5, <2>5, <2>6 DEF FileWritten, u, e
  <2> QED
    BY <1>3, <2>2, <2>7
<1>7. CASE r.s.stop # "no"
  <2>1. t = r.s
    BY <1>7 DEF PutBlock
  <2>2. r.s.stop = "panic" \/ (r.s.stop = "overrun" /\ e = Capacity)
    BY <1>2, <1>7 DEF Reached
  <2> HIDE DEF t
  <2>3. FileWritten(s, n, v, r.s)
    BY <1>4, <1>5, <2>2 DEF FileWritten
  <2> QED
    BY <1>3, <2>1, <2>3
<1> QED
  BY <1>6, <1>7

-----------------------------------------------------------------------------
(* Names *)

Lookup(s, n, name) == ilookup(s.ino, s.blk, n, name)

\* The first entry of a name, if there is one.
LEMMA LookupIs ==
  ASSUME NEW s \in State, NEW n \in Inum, NEW name
  PROVE  /\ (\A x \in 0 .. (s.ino[n].filelength - 1) : Shown(s, n, x).name # name) => Lookup(s, n, name) = {}
         /\ \A x \in 0 .. (s.ino[n].filelength - 1) :
              /\ Shown(s, n, x).name = name
              /\ \A y \in 0 .. (s.ino[n].filelength - 1) : Shown(s, n, y).name = name => x <= y
              => Lookup(s, n, name) = {Shown(s, n, x).inum}
         /\ Lookup(s, n, name) # {} =>
              \E x \in 0 .. (s.ino[n].filelength - 1) :
                /\ Shown(s, n, x).name = name
                /\ \A y \in 0 .. (s.ino[n].filelength - 1) : Shown(s, n, y).name = name => x <= y
<1> DEFINE len  == s.ino[n].filelength
           hits == { e \in 0 .. (len - 1) : Shown(s, n, e).name = name }
           best == { x \in hits : \A y \in hits : x <= y }
<1>1. Lookup(s, n, name) = { Shown(s, n, e).inum : e \in best }
  BY DEF Lookup, ilookup, Shown
<1>2. len \in Nat
  BY AddressesOfInode DEF Inode
<1> HIDE DEF len
<1>3. \A x \in 0 .. (len - 1) : x \in Nat
  BY <1>2
<1>4. ASSUME \A x \in 0 .. (len - 1) : Shown(s, n, x).name # name
      PROVE  Lookup(s, n, name) = {}
  BY <1>1, <1>4
<1>5. ASSUME NEW x \in 0 .. (len - 1), Shown(s, n, x).name = name,
             \A y \in 0 .. (len - 1) : Shown(s, n, y).name = name => x <= y
      PROVE  Lookup(s, n, name) = {Shown(s, n, x).inum}
  <2>1. x \in best
    BY <1>5
  <2>2. ASSUME NEW z \in best PROVE z = x
    <3>1. z \in Nat /\ x \in Nat /\ z <= x /\ x <= z
      BY <1>3, <1>5, <2>1, <2>2
    <3> QED
      BY <3>1
  <2>3. best = {x}
    BY <2>1, <2>2
  <2> HIDE DEF best
  <2> QED
    BY <1>1, <2>3
<1>6. ASSUME Lookup(s, n, name) # {}
      PROVE  \E x \in 0 .. (len - 1) :
               /\ Shown(s, n, x).name = name
               /\ \A y \in 0 .. (len - 1) : Shown(s, n, y).name = name => x <= y
  <2>1. PICK x \in best : TRUE
    BY <1>1, <1>6
  <2> QED
    BY <2>1
<1> QED
  BY <1>4, <1>5, <1>6 DEF len

\* An entry with a name is one of a directory.
LEMMA NameInDirectory ==
  ASSUME NEW s \in State, Filled(s), NEW n \in Inum, NEW x \in 0 .. (s.ino[n].filelength - 1),
         Shown(s, n, x).name \in TreeNames
  PROVE  s.ino[n].mode # "file" /\ Shown(s, n, x).inum \in Inum
<1>1. s.ino[n].mode # "file"
  <2> SUFFICES ASSUME s.ino[n].mode = "file" PROVE FALSE
    OBVIOUS
  <2>1. Shown(s, n, x) = NoEntry
    BY EntryIs
  <2>2. NoName \in Names
    BY <2>1 DEF NoEntry, TreeNames
  <2> QED
    BY <2>2, Numbers
<1> QED
  BY <1>1, EntryIs

\* A name that is there leads where it led, and to one inode.
LEMMA LookupKept ==
  ASSUME NEW s \in State, NEW t \in State, Filled(s), Kept(s, t), NEW n \in Inum, NEW name \in Names,
         s.ino[n].filelength <= t.ino[n].filelength, Lookup(s, n, name) # {}
  PROVE  /\ s.ino[n].mode # "file"
         /\ \E y \in Inum : Lookup(s, n, name) = {y} /\ Lookup(t, n, name) = {y}
<1> DEFINE len == s.ino[n].filelength
           wid == t.ino[n].filelength
<1>1. len \in Nat /\ wid \in Nat /\ len <= wid
  BY AddressesOfInode DEF Inode
<1>2. PICK x \in 0 .. (len - 1) :
        /\ Shown(s, n, x).name = name
        /\ \A y \in 0 .. (len - 1) : Shown(s, n, y).name = name => x <= y
  BY LookupIs
<1>3. Lookup(s, n, name) = {Shown(s, n, x).inum}
  BY <1>2, LookupIs
<1>4. s.ino[n].mode # "file"
  <2> SUFFICES ASSUME s.ino[n].mode = "file" PROVE FALSE
    OBVIOUS
  <2>1. Shown(s, n, x) = NoEntry
    BY EntryIs
  <2>2. name = NoName
    BY <1>2, <2>1 DEF NoEntry
  <2> QED
    BY <2>2, Numbers
<1>5. Shown(s, n, x).inum \in Inum
  BY <1>4, EntryIs
<1>6. \A y \in 0 .. (len - 1) : Shown(t, n, y) = Shown(s, n, y)
  BY DEF Kept
<1>7. ASSUME NEW y \in 0 .. (wid - 1), Shown(t, n, y).name = name
      PROVE  x <= y
  <2>1. y \in 0 .. (len - 1) \/ y >= len
    BY <1>1
  <2>2. CASE y \in 0 .. (len - 1)
    BY <1>2, <1>6, <1>7, <2>2
  <2>3. CASE y >= len
    BY <1>1, <2>3
  <2> QED
    BY <2>1, <2>2, <2>3
<1>8. x \in 0 .. (wid - 1) /\ Shown(t, n, x) = Shown(s, n, x)
  BY <1>1, <1>6
<1>9. Lookup(t, n, name) = {Shown(t, n, x).inum}
  BY <1>2, <1>7, <1>8, LookupIs
<1> QED
  BY <1>3, <1>4, <1>5, <1>8, <1>9

\* A new name leads to what its entry says.
LEMMA LookupNew ==
  ASSUME NEW s \in State, NEW t \in State, Kept(s, t), NEW n \in Inum, NEW name,
         t.ino[n].filelength = s.ino[n].filelength + 1, Lookup(s, n, name) = {},
         Shown(t, n, s.ino[n].filelength).name = name
  PROVE  Lookup(t, n, name) = {Shown(t, n, s.ino[n].filelength).inum}
<1> DEFINE len == s.ino[n].filelength
<1>1. len \in Nat
  BY AddressesOfInode DEF Inode
<1>2. \A y \in 0 .. (len - 1) : Shown(s, n, y).name # name
  <2> SUFFICES ASSUME NEW y0 \in 0 .. (len - 1), Shown(s, n, y0).name = name PROVE FALSE
    OBVIOUS
  <2> DEFINE T == { y \in 0 .. (len - 1) : Shown(s, n, y).name = name }
  <2>1. T \subseteq Nat /\ T # {}
    BY <1>1
  <2>2. PICK x \in T : \A y \in T : x <= y
    BY <2>1, LeastNat
  <2>3. Lookup(s, n, name) = {Shown(s, n, x).inum}
    BY <2>2, LookupIs
  <2> QED
    BY <2>3
<1>3. \A y \in 0 .. (len - 1) : Shown(t, n, y).name # name
  BY <1>2 DEF Kept
<1>4. len \in 0 .. (t.ino[n].filelength - 1)
  BY <1>1
<1>5. ASSUME NEW y \in 0 .. (t.ino[n].filelength - 1), Shown(t, n, y).name = name
      PROVE  len <= y
  <2>1. y \notin 0 .. (len - 1)
    BY <1>3, <1>5
  <2> QED
    BY <1>1, <2>1
<1> QED
  BY <1>4, <1>5, LookupIs

\* Nothing but names outside of the tree.
Bare(s, n) == \A x \in 0 .. (s.ino[n].filelength - 1) : Shown(s, n, x).name \notin TreeNames

\* What has no names keeps having none.
LEMMA BareKept ==
  ASSUME NEW s, NEW t, Kept(s, t), NEW n \in Inum, Bare(s, n), t.ino[n].filelength = s.ino[n].filelength
  PROVE  Bare(t, n)
BY DEF Kept, Bare

\* Sole, in the words of Shown.
LEMMA SoleIs ==
  ASSUME NEW s
  PROVE  Sole(s) <=>
           \A n, m \in Inum : \A e \in 0 .. (s.ino[n].filelength - 1), f \in 0 .. (s.ino[m].filelength - 1) :
             Shown(s, n, e).name \in TreeNames =>
               /\ Shown(s, n, e).inum # ROOT_INODE /\ s.ino[Shown(s, n, e).inum].mode # "none"
               /\ Shown(s, m, f).name \in TreeNames /\ Shown(s, m, f).inum = Shown(s, n, e).inum => n = m /\ e = f
BY DEF Sole, Shown

\* No name more, and no inode that is not finished any more.
LEMMA SoleKept ==
  ASSUME NEW s \in State, Filled(s), Sole(s), NEW t,
         \A n \in Inum : s.ino[n].mode # "none" => t.ino[n].mode # "none",
         \A n \in Inum : \A e \in 0 .. (t.ino[n].filelength - 1) :
           Shown(t, n, e).name \in TreeNames =>
             e \in 0 .. (s.ino[n].filelength - 1) /\ Shown(t, n, e) = Shown(s, n, e)
  PROVE  Sole(t)
<1>1. ASSUME NEW n \in Inum, NEW m \in Inum,
             NEW e \in 0 .. (t.ino[n].filelength - 1), NEW f \in 0 .. (t.ino[m].filelength - 1),
             Shown(t, n, e).name \in TreeNames
      PROVE  /\ Shown(t, n, e).inum # ROOT_INODE /\ t.ino[Shown(t, n, e).inum].mode # "none"
             /\ Shown(t, m, f).name \in TreeNames /\ Shown(t, m, f).inum = Shown(t, n, e).inum => n = m /\ e = f
  <2>1. /\ e \in 0 .. (s.ino[n].filelength - 1) /\ Shown(t, n, e) = Shown(s, n, e)
        /\ Shown(t, m, f).name \in TreeNames =>
             f \in 0 .. (s.ino[m].filelength - 1) /\ Shown(t, m, f) = Shown(s, m, f)
    BY <1>1
  <2>2. Shown(s, n, e).inum \in Inum
    BY <1>1, <2>1, NameInDirectory
  <2>3. Shown(s, n, e).inum # ROOT_INODE /\ s.ino[Shown(s, n, e).inum].mode # "none"
    BY <1>1, <2>1, SoleIs
  <2>4. Shown(t, m, f).name \in TreeNames /\ Shown(t, m, f).inum = Shown(t, n, e).inum => n = m /\ e = f
    BY <1>1, <2>1, SoleIs
  <2> QED
    BY <2>1, <2>2, <2>3, <2>4
<1> QED
  BY <1>1, SoleIs

\* The same length and the same entries, the same names ...
LEMMA LookupSame ==
  ASSUME NEW s, NEW t, NEW n, NEW name, t.ino[n].filelength = s.ino[n].filelength,
         \A x \in 0 .. (s.ino[n].filelength - 1) : Shown(t, n, x) = Shown(s, n, x)
  PROVE  Lookup(t, n, name) = Lookup(s, n, name)
<1> DEFINE hits == { e \in 0 .. (s.ino[n].filelength - 1) : Shown(s, n, e).name = name }
<1>1. hits = { e \in 0 .. (t.ino[n].filelength - 1) : Shown(t, n, e).name = name }
  OBVIOUS
<1>2. /\ Lookup(s, n, name) = { Shown(s, n, e).inum : e \in { x \in hits : \A y \in hits : x <= y } }
      /\ Lookup(t, n, name) = { Shown(t, n, e).inum : e \in { x \in hits : \A y \in hits : x <= y } }
  BY <1>1 DEF Lookup, ilookup, Shown
<1> QED
  BY <1>2

\* ... also with one entry more, of another name.
LEMMA LookupOther ==
  ASSUME NEW s \in State, NEW t, NEW n \in Inum, NEW name,
         t.ino[n].filelength = s.ino[n].filelength + 1,
         Shown(t, n, s.ino[n].filelength).name # name,
         \A x \in 0 .. (s.ino[n].filelength - 1) : Shown(t, n, x) = Shown(s, n, x)
  PROVE  Lookup(t, n, name) = Lookup(s, n, name)
<1> DEFINE len  == s.ino[n].filelength
           hits == { e \in 0 .. (len - 1) : Shown(s, n, e).name = name }
<1>1. len \in Nat
  BY AddressesOfInode DEF Inode
<1> DEFINE wid == t.ino[n].filelength
           seen == { e \in 0 .. (wid - 1) : Shown(t, n, e).name = name }
<1>2. \A e : e \in 0 .. (wid - 1) <=> e \in 0 .. (len - 1) \/ e = len
  BY <1>1
<1>3. hits = seen
  <2>1. \A e \in 0 .. (len - 1) : Shown(t, n, e) = Shown(s, n, e)
    OBVIOUS
  <2>2. Shown(t, n, len).name # name
    OBVIOUS
  <2> HIDE DEF len, wid
  <2>3. ASSUME NEW e PROVE e \in hits <=> e \in seen
    BY <1>2, <2>1, <2>2
  <2> QED
    BY <2>3
<1>4. /\ Lookup(s, n, name) = { Shown(s, n, e).inum : e \in { x \in hits : \A y \in hits : x <= y } }
      /\ Lookup(t, n, name) = { Shown(t, n, e).inum : e \in { x \in hits : \A y \in hits : x <= y } }
  BY <1>3 DEF Lookup, ilookup, Shown
<1> QED
  BY <1>4

\* The inodes on the way down a path: iname, without its recursion.
Walk(s, path, k, g) ==
  /\ g[0] = {ROOT_INODE}
  /\ \A i \in 1 .. k : g[i] = UNION { Lookup(s, n, path[i]) : n \in g[i - 1] }

WalkTo(s, path, k, f) ==
  f = [i \in 0 .. k |-> IF i = 0 THEN {ROOT_INODE}
                        ELSE UNION { ilookup(s.ino, s.blk, n, path[i]) : n \in f[i - 1] }]

\* The recursion of iname over a path defines a function.
LEMMA WalkExists ==
  ASSUME NEW s, NEW path, NEW k \in Nat
  PROVE  \E f : WalkTo(s, path, k, f)
<1> DEFINE T == { j \in Nat : ~ \E f : WalkTo(s, path, j, f) }
<1> SUFFICES ASSUME T # {} PROVE FALSE
  OBVIOUS
<1>1. PICK j \in T : \A m \in T : j <= m
  BY LeastNat
<1>2. CASE j = 0
  <2> DEFINE f == [i \in 0 .. 0 |-> {ROOT_INODE}]
  <2>1. WalkTo(s, path, 0, f)
    BY DEF WalkTo
  <2> QED
    BY <1>1, <1>2, <2>1
<1>3. CASE j # 0
  <2>1. j - 1 \in Nat /\ j \in Nat /\ j - 1 \notin T
    BY <1>1, <1>3
  <2>2. PICK f : WalkTo(s, path, j - 1, f)
    BY <2>1
  <2> DEFINE up(h, i) == UNION { ilookup(s.ino, s.blk, n, path[i]) : n \in h[i - 1] }
             g == [i \in 0 .. j |-> IF i = 0 THEN {ROOT_INODE} ELSE up(f, i)]
  <2>3. \A i \in 0 .. (j - 1) : f[i] = IF i = 0 THEN {ROOT_INODE} ELSE up(f, i)
    BY <2>1, <2>2 DEF WalkTo
  <2> HIDE DEF up
  <2>4. ASSUME NEW i \in 0 .. (j - 1) PROVE g[i] = f[i]
    <3>1. i \in 0 .. j
      BY <2>1
    <3> QED
      BY <2>3, <3>1
  <2> HIDE DEF g
  <2>5. ASSUME NEW i \in 0 .. j, i # 0 PROVE g[i - 1] = f[i - 1]
    <3>1. i - 1 \in 0 .. (j - 1)
      BY <2>1, <2>5
    <3> QED
      BY <2>4, <3>1
  <2>6. \A i \in 0 .. j : i # 0 => up(g, i) = up(f, i)
    BY <2>5 DEF up
  <2>7. g = [i \in 0 .. j |-> IF i = 0 THEN {ROOT_INODE} ELSE up(g, i)]
    BY <2>6 DEF g
  <2>8. WalkTo(s, path, j, g)
    BY <2>7 DEF WalkTo, up
  <2> QED
    BY <1>1, <2>8
<1> QED
  BY <1>2, <1>3

\* iname is where the walk ends.
LEMMA InameIs ==
  ASSUME NEW s, NEW path, Len(path) \in Nat
  PROVE  \E g : Walk(s, path, Len(path), g) /\ iname(s.ino, s.blk, path) = g[Len(path)]
<1> DEFINE g == CHOOSE h : WalkTo(s, path, Len(path), h)
<1>1. \E h : WalkTo(s, path, Len(path), h)
  BY WalkExists
<1>2. WalkTo(s, path, Len(path), g)
  BY <1>1, Zenon
<1>3. iname(s.ino, s.blk, path) = g[Len(path)]
  BY Zenon DEF iname, WalkTo
<1> HIDE DEF g
<1>4. g[0] = {ROOT_INODE}
  BY <1>2 DEF WalkTo
<1>5. \A i \in 1 .. Len(path) : g[i] = UNION { Lookup(s, n, path[i]) : n \in g[i - 1] }
  <2> TAKE i \in 1 .. Len(path)
  <2>1. i \in 0 .. Len(path) /\ i # 0
    OBVIOUS
  <2>2. g[i] = UNION { ilookup(s.ino, s.blk, n, path[i]) : n \in g[i - 1] }
    BY <1>2, <2>1 DEF WalkTo
  <2> QED
    BY <2>2 DEF Lookup
<1> QED
  BY <1>3, <1>4, <1>5 DEF Walk

\* Entries were added, or nothing.
Later(s, t) ==
  /\ s \in State /\ t \in State /\ Filled(s) /\ Kept(s, t)
  /\ \A n \in Inum : s.ino[n].filelength <= t.ino[n].filelength

NamedPath(path, k) == k \in Nat /\ \A i \in 1 .. k : path[i] \in Names

\* What was a way stays one.
LEMMA WalkKept ==
  ASSUME NEW s, NEW t, Later(s, t), NEW path, NEW k, NamedPath(path, k),
         NEW g, Walk(s, path, k, g), NEW h, Walk(t, path, k, h), g[k] # {}
  PROVE  \E x \in Inum : g[k] = {x} /\ h[k] = {x}
<1> USE DEF Later, NamedPath
<1> DEFINE Good(i) == g[i] # {} => \E x \in Inum : g[i] = {x} /\ h[i] = {x}
           T == { i \in 0 .. k : ~ Good(i) }
<1> SUFFICES ASSUME T # {} PROVE FALSE
  <2>1. k \in 0 .. k
    OBVIOUS
  <2> QED
    BY <2>1
<1>1. PICK i \in T : \A j \in T : i <= j
  <2>1. T \subseteq Nat
    OBVIOUS
  <2> HIDE DEF T
  <2> QED
    BY <2>1, LeastNat
<1>2. Good(0)
  BY Numbers DEF Walk
<1>3. i \in 1 .. k /\ i - 1 \in 0 .. k /\ i - 1 \notin T /\ ~ Good(i)
  <2>1. i \in 0 .. k /\ i # 0
    BY <1>1, <1>2
  <2>2. i - 1 \notin T
    <3> SUFFICES ASSUME i - 1 \in T PROVE FALSE
      OBVIOUS
    <3>1. i <= i - 1
      BY <1>1
    <3> QED
      BY <2>1, <3>1
  <2> HIDE DEF Good
  <2> QED
    BY <1>1, <2>1, <2>2
<1>4. Good(i - 1) /\ g[i] # {}
  BY <1>3
<1>5. /\ g[i] = UNION { Lookup(s, n, path[i]) : n \in g[i - 1] }
      /\ h[i] = UNION { Lookup(t, n, path[i]) : n \in h[i - 1] }
  BY <1>3 DEF Walk
<1>6. g[i - 1] # {}
  BY <1>4, <1>5
<1>7. PICK x \in Inum : g[i - 1] = {x} /\ h[i - 1] = {x}
  BY <1>4, <1>6
<1>8. g[i] = Lookup(s, x, path[i]) /\ h[i] = Lookup(t, x, path[i])
  BY <1>5, <1>7
<1>9. \E y \in Inum : g[i] = {y} /\ h[i] = {y}
  BY <1>3, <1>4, <1>8, LookupKept
<1> QED
  BY <1>3, <1>9

\* The parent of a new name, and what the name leads to afterwards.
LEMMA InameKept ==
  ASSUME NEW s, NEW t, Later(s, t), NEW path \in Paths, iname(s.ino, s.blk, Front(path)) # {}
  PROVE  \E x \in Inum : /\ iname(s.ino, s.blk, Front(path)) = {x}
                         /\ iname(t.ino, t.blk, path) = Lookup(t, x, Last(path))
<1>1. PICK l \in 1 .. MaxDepth : path \in [1 .. l -> Names]
  BY DEF Paths
<1>2. l \in Nat /\ l >= 1 /\ Len(path) = l /\ path \in Seq(Names)
  <2>1. l \in Nat /\ l >= 1
    BY UxlFsAssumption DEF UxlFsAssumption
  <2>2. path \in Seq(Names)
    BY <1>1, <2>1
  <2>3. Len(path) = l
    BY <1>1, <2>1, <2>2
  <2> QED
    BY <2>1, <2>2, <2>3
<1>3. Len(Front(path)) = l - 1 /\ \A i \in 1 .. (l - 1) : Front(path)[i] = path[i]
  BY <1>2 DEF Front
<1>4. \A i \in 1 .. (l - 1) : path[i] \in Names
  BY <1>1, <1>2
<1>5. PICK g : Walk(s, Front(path), l - 1, g) /\ iname(s.ino, s.blk, Front(path)) = g[l - 1]
  <2>1. Len(Front(path)) \in Nat
    BY <1>2, <1>3
  <2> QED
    BY <1>3, <2>1, InameIs
<1>6. PICK h : Walk(t, path, l, h) /\ iname(t.ino, t.blk, path) = h[l]
  BY <1>2, InameIs
<1>7. Walk(s, path, l - 1, g)
  <2>1. g[0] = {ROOT_INODE}
    BY <1>5 DEF Walk
  <2>2. ASSUME NEW i \in 1 .. (l - 1)
        PROVE  g[i] = UNION { Lookup(s, n, path[i]) : n \in g[i - 1] }
    <3>1. g[i] = UNION { Lookup(s, n, Front(path)[i]) : n \in g[i - 1] }
      BY <1>5 DEF Walk
    <3>2. Front(path)[i] = path[i]
      BY <1>3
    <3> QED
      BY <3>1, <3>2
  <2> QED
    BY <2>1, <2>2 DEF Walk
<1>8. Walk(t, path, l - 1, h)
  BY <1>2, <1>6 DEF Walk
<1>9. PICK x \in Inum : g[l - 1] = {x} /\ h[l - 1] = {x}
  <2>1. NamedPath(path, l - 1)
    BY <1>2, <1>4 DEF NamedPath
  <2>2. g[l - 1] # {}
    BY <1>5
  <2> QED
    BY <1>7, <1>8, <2>1, <2>2, WalkKept
<1>10. h[l] = UNION { Lookup(t, n, path[l]) : n \in h[l - 1] }
  BY <1>2, <1>6 DEF Walk
<1>11. h[l] = Lookup(t, x, path[l])
  BY <1>9, <1>10
<1>12. Last(path) = path[l]
  BY <1>2 DEF Last
<1> QED
  BY <1>5, <1>6, <1>9, <1>11, <1>12

-----------------------------------------------------------------------------
(* dir_create_entity *)

\* Links, and the mode of an inode that is empty, are not looked at.
LEMMA SameContents ==
  ASSUME NEW s, Sound(s), Filled(s), NEW t \in State, t.blk = s.blk, t.map = s.map, t.free_data = s.free_data,
         \A m \in Inum : /\ \A k \in Key : t.ino[m].addr[k] = s.ino[m].addr[k]
                         /\ t.ino[m].filelength = s.ino[m].filelength
                         /\ (t.ino[m].mode = "file" <=> s.ino[m].mode = "file") \/ s.ino[m].filelength = 0
                         /\ s.ino[m].mode = "file" => t.ino[m].mode = "file"
  PROVE  Sound(t) /\ Filled(t) /\ Kept(s, t)
<1>0. /\ s \in State /\ Owned(s) /\ Clean(s) /\ NDIRECT \in Key /\ NDIRECT + 1 \in Key
      /\ NDIRECT \in Nat /\ BINS \in Nat
  BY Numbers DEF Sound
<1>1. Tables(t) = Tables(s)
  <2>1. Tables(t) \subseteq Blocks /\ Tables(s) \subseteq Blocks
    BY <1>0, AddressesOfInode, Numbers DEF Tables
  <2>2. ASSUME NEW q \in Blocks PROVE q \in Tables(t) <=> q \in Tables(s)
    BY <1>0, AddressBlockIs DEF Tables
  <2> QED
    BY <2>1, <2>2
<1>2. Refs(t) = Refs(s)
  BY <1>1 DEF Refs, References, Tables
<1>3. ASSUME NEW r \in Refs(s) PROVE Val(t, r) = Val(s, r)
  <2>1. CASE \E m \in Inum, k \in Key : r = <<"inode", m, k>>
    <3>1. PICK m \in Inum, k \in Key : r = <<"inode", m, k>>
      BY <2>1
    <3>2. Val(t, r) = t.ino[m].addr[k] /\ Val(s, r) = s.ino[m].addr[k]
      BY <1>0, <3>1, InodeReference DEF Val
    <3> QED
      BY <3>2
  <2>2. CASE \E q \in Tables(s), k \in Sub : r = <<"block", q, k>>
    BY <1>0, <1>1, <2>2, BlockReference DEF Val, Tables
  <2> QED
    BY <1>0, <2>1, <2>2, ReferenceIs DEF Refs, Tables
<1>4. Owned(t)
  BY <1>0, <1>2, <1>3, OwnedIs
<1>5. Sound(t)
  BY <1>0, <1>1, <1>4 DEF Sound, Clean, Tables
<1>6. ASSUME NEW m \in Inum, NEW j \in Nat
      PROVE  Phys(t, m, j) = Phys(s, m, j)
  <2>1. CASE j < NDIRECT
    <3>1. j \in Key
      BY <1>0, <2>1 DEF Key
    <3> QED
      BY <1>0, <2>1, <3>1, PhysBlockIs DEF Phys
  <2>2. CASE j >= NDIRECT /\ j < NDIRECT + BINS
    BY <1>0, <2>2, PhysBlockIs DEF Phys
  <2>3. CASE j >= NDIRECT + BINS
    BY <1>0, <2>3, PhysBlockIs DEF Phys
  <2> QED
    BY <1>0, <2>1, <2>2, <2>3
<1>7. ASSUME NEW m \in Inum, NEW x \in 0 .. (s.ino[m].filelength - 1)
      PROVE  FilledAt(t, m, x) /\ Shown(t, m, x) = Shown(s, m, x)
  <2>1. x \in Nat /\ x \div EPB \in Nat
    BY <1>0, EntryIs
  <2>2. Phys(t, m, x) = Phys(s, m, x) /\ Phys(t, m, x \div EPB) = Phys(s, m, x \div EPB)
    BY <1>6, <2>1
  <2>3. Shown(t, m, x) = Shown(s, m, x)
    BY <2>2 DEF Shown, EntryAt, Phys
  <2>4. s.ino[m].filelength # 0
    BY <2>1
  <2>5. FilledAt(s, m, x) /\ (t.ino[m].mode = "file" <=> s.ino[m].mode = "file")
    BY <2>4, FilledIs
  <2> QED
    BY <2>2, <2>3, <2>5 DEF FilledAt
<1>8. Same(s, t)
  <2>1. ASSUME NEW m \in Inum, NEW x \in 0 .. (s.ino[m].filelength - 1)
        PROVE  t.blk[Phys(t, m, x)] = s.blk[Phys(s, m, x)]
    <3>1. x \in Nat
      BY <1>0, EntryIs
    <3> QED
      BY <1>6, <3>1
  <2> QED
    BY <2>1 DEF Same
<1>9. Way(s, t)
  BY DEF Way
<1>10. Filled(t) /\ Kept(s, t)
  BY <1>7, <1>8, <1>9, FilledIs DEF Kept
<1> QED
  BY <1>5, <1>10

\* A full disk ends all that is left to write.
LEMMA StoppedWrite ==
  ASSUME NEW s \in State, s.stop = "panic", NEW n, NEW entry
  PROVE  dir_write(s, n, entry) = s
<1> DEFINE i == s.ino[n].filelength \div EPB
           r == iget_phys_block(s, n, i)
<1>1. Stop(s, "panic").s = s
  BY StopIs
<1>2. \A k : inode_addr(s, n, k) = Stop(s, "panic")
  BY DEF inode_addr
<1>3. \A k : block_addr(Stop(s, "panic"), k) = Stop(s, "panic")
  BY <1>1 DEF block_addr
<1>4. r = Stop(s, "panic")
  <2>1. i < NDIRECT => r = Stop(s, "panic")
    BY <1>2 DEF iget_phys_block
  <2>2. ~ (i < NDIRECT) /\ i < NDIRECT + BINS => r = Stop(s, "panic")
    BY <1>2, <1>3 DEF iget_phys_block
  <2>3. ~ (i < NDIRECT) /\ ~ (i < NDIRECT + BINS) => r = Stop(s, "panic")
    BY <1>2, <1>3 DEF iget_phys_block
  <2> QED
    BY <2>1, <2>2, <2>3
<1> HIDE DEF r
<1>5. PutEntry(r, n, entry) = s
  BY <1>1, <1>4 DEF PutEntry
<1> QED
  BY <1>5 DEF dir_write, r

\* ialloc takes an inode, of those that are counted as free.
LEMMA FreeIs ==
  ASSUME NEW s \in State
  PROVE  /\ FreeInodes(s) \subseteq Inum \ {ROOT_INODE} /\ FreeInodes(s) \subseteq Nat /\ IsFiniteSet(FreeInodes(s))
         /\ Cardinality(FreeInodes(s)) \in Nat /\ Cardinality(FreeInodes(s)) <= TOTAL_INODES - 2
         /\ \A n \in FreeInodes(s) : Cardinality(FreeInodes(s) \ {n}) = Cardinality(FreeInodes(s)) - 1
<1>1. FreeInodes(s) \subseteq 2 .. (TOTAL_INODES - 1)
  BY DEF FreeInodes
<1>2. IsFiniteSet(2 .. (TOTAL_INODES - 1)) /\ Cardinality(2 .. (TOTAL_INODES - 1)) = TOTAL_INODES - 2
  <2>1. 2 \in Int /\ TOTAL_INODES - 1 \in Int /\ ~ (2 > TOTAL_INODES - 1) /\ (TOTAL_INODES - 1) - 2 + 1 = TOTAL_INODES - 2
    BY Numbers
  <2> QED
    BY <2>1, FS_Interval
<1>3. /\ IsFiniteSet(FreeInodes(s)) /\ Cardinality(FreeInodes(s)) <= TOTAL_INODES - 2
  BY <1>1, <1>2, FS_Subset
<1>4. Cardinality(FreeInodes(s)) \in Nat
  BY <1>3, FS_CardinalityType
<1>5. \A n \in FreeInodes(s) : Cardinality(FreeInodes(s) \ {n}) = Cardinality(FreeInodes(s)) - 1
  BY <1>3, FS_RemoveElement
<1>6. FreeInodes(s) \subseteq Inum \ {ROOT_INODE} /\ FreeInodes(s) \subseteq Nat
  BY <1>1, Numbers DEF Inum, ROOT_INODE
<1> QED
  BY <1>3, <1>4, <1>5, <1>6

\* The state of a run between two steps.
Whole(s) == s \in State /\ SInv(s) /\ s.stop = "no"

\* ialloc counts and marks one free inode, and changes no contents.
LEMMA IallocIs ==
  ASSUME NEW s, Whole(s), NEW num \in FreeInodes(s), NEW t, t = ialloc(s, num)
  PROVE  /\ Sound(t) /\ Filled(t) /\ Kept(s, t) /\ t.stop = "no" /\ t.map = s.map /\ t.blk = s.blk
         /\ s.free_inodes \in Nat \ {0} /\ t.free_inodes = s.free_inodes - 1 /\ t.ino[num].links = 1
         /\ \A m \in Inum \ {num} : t.ino[m].links = s.ino[m].links
         /\ \A m \in Inum : t.ino[m].mode = s.ino[m].mode /\ t.ino[m].filelength = s.ino[m].filelength
<1> DEFINE node == [s.ino[num] EXCEPT !.links = s.ino[num].links + 1]
<1>0. /\ s \in State /\ Sound(s) /\ Filled(s) /\ num \in Inum /\ s.ino[num].links = 0
      /\ s.ino \in [Inum -> Inode]
  BY FreeIs DEF Whole, SInv, Sound, Counted, FreeInodes, State
<1>1. s.free_inodes \in Nat \ {0}
  <2>1. s.free_inodes = Cardinality(FreeInodes(s))
    BY DEF Whole, SInv, Counted
  <2>2. Cardinality(FreeInodes(s) \ {num}) \in Nat
    <3>1. IsFiniteSet(FreeInodes(s) \ {num})
      BY <1>0, FreeIs, FS_Subset
    <3> QED
      BY <3>1, FS_CardinalityType
  <2> QED
    BY <1>0, <2>1, <2>2, FreeIs
<1>2. t = [s EXCEPT !.ino = [s.ino EXCEPT ![num] = node], !.free_inodes = s.free_inodes - 1]
  BY <1>0 DEF ialloc, State
<1>3. /\ node \in Inode /\ node.links = 1 /\ node.mode = s.ino[num].mode
      /\ node.addr = s.ino[num].addr /\ node.filelength = s.ino[num].filelength
  <2>1. s.ino[num] \in Inode
    BY <1>0
  <2> QED
    BY <1>0, <2>1 DEF Inode
<1> HIDE DEF node
<1>4. /\ t \in State /\ t.stop = "no" /\ t.map = s.map /\ t.blk = s.blk /\ t.free_data = s.free_data
      /\ t.free_inodes = s.free_inodes - 1 /\ t.ino = [s.ino EXCEPT ![num] = node]
  <2> DEFINE ino == [s.ino EXCEPT ![num] = node]
             rest == s.free_inodes - 1
  <2>1. ino \in [Inum -> Inode] /\ rest \in Nat
    BY <1>0, <1>1, <1>3
  <2>2. t = [s EXCEPT !.ino = ino, !.free_inodes = rest] /\ s.stop = "no"
    BY <1>2 DEF Whole
  <2> HIDE DEF ino, rest
  <2>3. /\ t \in State /\ t.stop = "no" /\ t.map = s.map /\ t.blk = s.blk /\ t.free_data = s.free_data
        /\ t.free_inodes = rest /\ t.ino = ino
    BY <1>0, <2>1, <2>2 DEF State
  <2> QED
    BY <2>3 DEF ino, rest
<1>5. t.ino[num] = node /\ \A m \in Inum \ {num} : t.ino[m] = s.ino[m]
  BY <1>0, <1>4
<1>6. \A m \in Inum : /\ \A k \in Key : t.ino[m].addr[k] = s.ino[m].addr[k]
                      /\ t.ino[m].filelength = s.ino[m].filelength
                      /\ t.ino[m].mode = s.ino[m].mode
  BY <1>3, <1>5
<1>7. Sound(t) /\ Filled(t) /\ Kept(s, t)
  BY <1>0, <1>4, <1>6, SameContents
<1> QED
  BY <1>1, <1>3, <1>4, <1>5, <1>6, <1>7

\* The two entries that a directory begins with are in its first block.
LEMMA DotsIs ==
  ASSUME NEW s, Sound(s), Filled(s), s.stop = "no", NEW num \in Inum, s.ino[num].mode = "none",
         s.ino[num].filelength = 0, NEW dir \in Inum, NEW t, t = Dots(s, num, dir)
  PROVE  /\ Sound(t) /\ Filled(t) /\ Kept(s, t) /\ t.free_inodes = s.free_inodes /\ s.map \subseteq t.map
         /\ \A m \in Inum : t.ino[m].mode = s.ino[m].mode /\ t.ino[m].links = s.ino[m].links
         /\ \A m \in Inum \ {num} : t.ino[m].filelength = s.ino[m].filelength
         /\ t.ino[num].filelength \in 0 .. 2 /\ Bare(t, num)
         /\ t.stop = "no" \/ (t.stop = "panic" /\ t.map = Blocks)
<1> DEFINE e1 == [inum |-> num, name |-> Dot]
           e2 == [inum |-> dir, name |-> DotDot]
           u  == dir_write(s, num, e1)
           v  == dir_write(u, num, e2)
<1>0. 0 < EPB * Capacity /\ 1 < EPB * Capacity
  <2>1. NDIRECT \in Nat \ {0} /\ BINS \in Nat \ {0} /\ EPB \in Nat \ {0, 1} /\ BINS * BINS \in Nat
    BY Numbers
  <2>2. Capacity \in Nat /\ Capacity >= 1
    BY <2>1 DEF Capacity
  <2>3. EPB * Capacity >= EPB
    BY <2>1, <2>2
  <2>4. EPB * Capacity \in Nat
    BY <2>1, <2>2
  <2> QED
    BY <2>1, <2>3, <2>4
<1>1. e1 \in EntryType /\ e1.inum \in Inum /\ e2 \in EntryType /\ e2.inum \in Inum
  BY DEF EntryType
<1>7. e1.name \notin TreeNames /\ e2.name \notin TreeNames
  BY DEF TreeNames
<1>2. t = v
  BY DEF Dots
<1> HIDE DEF e1, e2
<1>3. Written(s, num, e1, u)
  BY <1>0, <1>1, DirWriteIs
<1> HIDE DEF u
<1>4. /\ Sound(u) /\ u \in State /\ Filled(u) /\ Kept(s, u) /\ u.free_inodes = s.free_inodes /\ s.map \subseteq u.map
      /\ \A m \in Inum : u.ino[m].mode = s.ino[m].mode /\ u.ino[m].links = s.ino[m].links
      /\ \A m \in Inum \ {num} : u.ino[m].filelength = s.ino[m].filelength
  BY <1>3 DEF Written, Sound
<1>5. CASE u.stop = "panic"
  <2>1. u.map = Blocks /\ u.ino[num].filelength = 0
    BY <1>3, <1>5 DEF Written
  <2>2. v = u
    BY <1>4, <1>5, StoppedWrite
  <2>3. Bare(u, num)
    BY <2>1 DEF Bare
  <2> HIDE DEF v
  <2> QED
    BY <1>2, <1>4, <1>5, <2>1, <2>2, <2>3
<1>6. CASE u.stop = "no"
  <2>1. u.ino[num].filelength = 1 /\ u.ino[num].mode # "file"
    BY <1>3, <1>4, <1>6 DEF Written
  <2>2. Written(u, num, e2, v)
    BY <1>0, <1>1, <1>4, <1>6, <2>1, DirWriteIs
  <2> HIDE DEF v
  <2>3. Kept(s, v)
    <3>1. s \in State /\ \A n \in Inum : s.ino[n].filelength <= u.ino[n].filelength
      <4>1. s \in State
        BY DEF Sound
      <4>2. \A n \in Inum : s.ino[n].filelength \in Nat
        BY <4>1, AddressesOfInode DEF Inode
      <4> QED
        BY <1>4, <2>1, <4>1, <4>2
    <3> QED
      BY <1>4, <2>2, <3>1, KeptFurther DEF Written
  <2>4. v.ino[num].filelength \in 0 .. 2
    BY <2>1, <2>2 DEF Written
  <2>5. Shown(u, num, 0) = e1
    BY <1>3, <1>6 DEF Written
  <2>6. Shown(v, num, 0) = e1
    <3>1. 0 \in 0 .. (u.ino[num].filelength - 1)
      BY <2>1
    <3> QED
      BY <2>2, <2>5, <3>1 DEF Written, Kept
  <2>7. v.ino[num].filelength = 1 \/ (v.ino[num].filelength = 2 /\ Shown(v, num, 1) = e2)
    BY <2>1, <2>2 DEF Written
  <2>8. \A x \in 0 .. (v.ino[num].filelength - 1) : x = 0 \/ (x = 1 /\ v.ino[num].filelength = 2)
    BY <2>7
  <2>9. Bare(v, num)
    BY <1>7, <2>6, <2>7, <2>8 DEF Bare
  <2> QED
    BY <1>2, <1>4, <2>2, <2>3, <2>4, <2>9 DEF Written
<1> QED
  BY <1>3, <1>5, <1>6 DEF Written

\* A new inode, before its name is written.
Made(s, num, type, w) ==
  /\ Sound(w) /\ Filled(w) /\ Kept(s, w) /\ w.free_inodes = s.free_inodes - 1 /\ s.map \subseteq w.map
  /\ w.ino[num].links = 1 /\ w.ino[num].filelength \in 0 .. 2 /\ Bare(w, num)
  /\ type = "file" => w.ino[num].filelength = 0
  /\ \A m \in Inum \ {num} : /\ w.ino[m].mode = s.ino[m].mode /\ w.ino[m].links = s.ino[m].links
                             /\ w.ino[m].filelength = s.ino[m].filelength
  /\ \/ w.stop = "no" /\ w.ino[num].mode = type
     \/ w.stop = "panic" /\ w.map = Blocks /\ w.ino[num].mode = "none"

\* dir_create_entity up to its last dir_write.
LEMMA MadeIs ==
  ASSUME NEW s, Whole(s), NEW num \in FreeInodes(s), NEW dir \in Inum, NEW type \in {"dir", "file"},
         NEW w, w = WithMode(IF type = "dir" THEN Dots(ialloc(s, num), num, dir) ELSE ialloc(s, num), num, type)
  PROVE  Made(s, num, type, w)
<1> DEFINE t == ialloc(s, num)
           u == IF type = "dir" THEN Dots(t, num, dir) ELSE t
<1>0. /\ s \in State /\ num \in Inum /\ s.ino[num].mode = "none" /\ s.ino[num].filelength = 0
      /\ \A n \in Inum : s.ino[n].filelength \in Nat
  <2>1. s \in State /\ num \in Inum
    BY FreeIs DEF Whole
  <2>2. s.ino[num].mode = "none" /\ s.ino[num].filelength = 0
    BY DEF Whole, SInv, Unused
  <2> QED
    BY <2>1, <2>2, AddressesOfInode DEF Inode
<1>1. /\ Sound(t) /\ t \in State /\ Filled(t) /\ Kept(s, t) /\ t.stop = "no" /\ t.map = s.map
      /\ t.free_inodes = s.free_inodes - 1 /\ t.ino[num].links = 1
      /\ \A m \in Inum \ {num} : t.ino[m].links = s.ino[m].links
      /\ \A m \in Inum : t.ino[m].mode = s.ino[m].mode /\ t.ino[m].filelength = s.ino[m].filelength
  BY IallocIs DEF Sound
<1>2. w = WithMode(u, num, type)
  OBVIOUS
<1> HIDE DEF t
<1>3. /\ Sound(u) /\ u \in State /\ Filled(u) /\ Kept(t, u) /\ u.free_inodes = t.free_inodes /\ t.map \subseteq u.map
      /\ \A m \in Inum : u.ino[m].mode = t.ino[m].mode /\ u.ino[m].links = t.ino[m].links
      /\ \A m \in Inum \ {num} : u.ino[m].filelength = t.ino[m].filelength
      /\ u.ino[num].filelength \in 0 .. 2 /\ (type = "file" => u.ino[num].filelength = 0) /\ Bare(u, num)
      /\ u.stop = "no" \/ (u.stop = "panic" /\ u.map = Blocks)
  <2>1. CASE type = "dir"
    <3>1. u = Dots(t, num, dir) /\ t.ino[num].mode = "none" /\ t.ino[num].filelength = 0 /\ type # "file"
      BY <1>0, <1>1, <2>1
    <3> HIDE DEF u
    <3> QED
      BY <1>0, <1>1, <3>1, DotsIs DEF Sound
  <2>2. CASE type = "file"
    <3>1. u = t /\ t.ino[num].filelength = 0
      BY <1>0, <1>1, <2>2
    <3> HIDE DEF u
    <3>2. Kept(t, t)
      BY KeptSame
    <3>3. Bare(u, num)
      BY <3>1 DEF Bare
    <3> QED
      BY <1>1, <3>1, <3>2, <3>3
  <2> QED
    BY <2>1, <2>2
<1> HIDE DEF u
<1>4. Kept(s, u)
  BY <1>0, <1>1, <1>3, KeptFurther
<1>5. CASE u.stop = "panic"
  <2>1. w = u
    BY <1>2, <1>5 DEF WithMode
  <2> QED
    BY <1>0, <1>1, <1>3, <1>4, <1>5, <2>1 DEF Made
<1>6. CASE u.stop = "no"
  <2> DEFINE node == [u.ino[num] EXCEPT !.mode = type]
             ino  == [u.ino EXCEPT ![num] = node]
  <2>0. u.ino \in [Inum -> Inode] /\ u.ino[num] \in Inode
    BY <1>0, <1>3 DEF State
  <2>1. w = [u EXCEPT !.ino = ino]
    BY <1>0, <1>2, <1>3, <1>6 DEF WithMode, State
  <2>2. /\ node \in Inode /\ node.mode = type /\ node.links = u.ino[num].links
        /\ node.addr = u.ino[num].addr /\ node.filelength = u.ino[num].filelength
    BY <2>0 DEF Inode
  <2> HIDE DEF node
  <2>3. ino \in [Inum -> Inode] /\ ino[num] = node /\ \A m \in Inum \ {num} : ino[m] = u.ino[m]
    BY <1>0, <2>0, <2>2
  <2> HIDE DEF ino
  <2>4. /\ w \in State /\ w.ino = ino /\ w.stop = "no" /\ w.blk = u.blk /\ w.map = u.map
        /\ w.free_data = u.free_data /\ w.free_inodes = u.free_inodes
    BY <1>3, <1>6, <2>1, <2>3 DEF State
  <2>5. /\ w.ino[num].mode = type /\ w.ino[num].links = 1 /\ w.ino[num].filelength = u.ino[num].filelength
        /\ \A m \in Inum \ {num} : /\ w.ino[m].mode = s.ino[m].mode /\ w.ino[m].links = s.ino[m].links
                                   /\ w.ino[m].filelength = s.ino[m].filelength
    BY <1>0, <1>1, <1>3, <2>2, <2>3, <2>4
  <2>6. \A m \in Inum : /\ \A k \in Key : w.ino[m].addr[k] = u.ino[m].addr[k]
                        /\ w.ino[m].filelength = u.ino[m].filelength
                        /\ (w.ino[m].mode = "file" <=> u.ino[m].mode = "file") \/ u.ino[m].filelength = 0
                        /\ u.ino[m].mode = "file" => w.ino[m].mode = "file"
    <3> TAKE m \in Inum
    <3>1. CASE m # num
      BY <2>3, <2>4, <3>1
    <3>2. CASE m = num
      <4>1. u.ino[num].mode = "none"
        BY <1>0, <1>1, <1>3
      <4>2. w.ino[num] = node
        BY <2>3, <2>4
      <4>3. (type = "file" <=> u.ino[num].mode = "file") \/ u.ino[num].filelength = 0
        BY <1>3, <4>1
      <4> QED
        BY <2>2, <3>2, <4>1, <4>2, <4>3
    <3> QED
      BY <3>1, <3>2
  <2>7. Sound(w) /\ Filled(w) /\ Kept(u, w)
    BY <1>3, <2>4, <2>6, SameContents
  <2>8. Kept(s, w)
    <3>1. \A n \in Inum : s.ino[n].filelength <= u.ino[n].filelength
      BY <1>0, <1>1, <1>3
    <3> QED
      BY <1>0, <1>3, <1>4, <2>7, <3>1, KeptFurther
  <2>9. Bare(w, num) /\ (type = "file" => w.ino[num].filelength = 0)
    BY <1>0, <1>3, <2>5, <2>7, BareKept
  <2> QED
    BY <1>1, <1>3, <2>4, <2>5, <2>7, <2>8, <2>9 DEF Made
<1> QED
  BY <1>3, <1>5, <1>6

\* ... and after it, or after the disk was full.
Entered(s, num, dir, name, type, r) ==
  /\ Sound(r) /\ Filled(r) /\ Kept(s, r) /\ r.free_inodes = s.free_inodes - 1 /\ s.map \subseteq r.map
  /\ r.ino[num].links = 1 /\ r.ino[num].filelength \in 0 .. 2 /\ Bare(r, num)
  /\ type = "file" => r.ino[num].filelength = 0
  /\ \A m \in Inum \ {num} : r.ino[m].mode = s.ino[m].mode /\ r.ino[m].links = s.ino[m].links
  /\ \A m \in Inum \ {num, dir} : r.ino[m].filelength = s.ino[m].filelength
  /\ \/ /\ r.stop = "no" /\ r.ino[num].mode = type
        /\ r.ino[dir].filelength = s.ino[dir].filelength + 1
        /\ Shown(r, dir, s.ino[dir].filelength) = [inum |-> num, name |-> name]
     \/ r.stop = "panic" /\ r.map = Blocks /\ r.ino[dir].filelength = s.ino[dir].filelength

\* dir_create_entity, its last dir_write.
LEMMA EnteredIs ==
  ASSUME NEW s, Whole(s), NEW num \in FreeInodes(s), NEW dir \in Inum, s.ino[dir].mode = "dir",
         NEW name \in Names, NEW type \in {"dir", "file"}, NEW w, Made(s, num, type, w),
         NEW r, r = dir_write(w, dir, [inum |-> num, name |-> name])
  PROVE  Entered(s, num, dir, name, type, r)
<1> DEFINE entry == [inum |-> num, name |-> name]
<1>0. /\ s \in State /\ num \in Inum /\ dir # num /\ w \in State
      /\ \A n \in Inum : s.ino[n].filelength \in Nat
  <2>1. s \in State /\ num \in Inum
    BY FreeIs DEF Whole
  <2>2. s.ino[num].mode = "none"
    BY DEF Whole, SInv, Unused
  <2>3. w \in State
    BY DEF Made, Sound
  <2> QED
    BY <2>1, <2>2, <2>3, AddressesOfInode DEF Inode
<1>1. CASE w.stop = "panic"
  <2>1. r = w
    BY <1>0, <1>1, StoppedWrite
  <2> QED
    BY <1>0, <1>1, <2>1 DEF Made, Entered
<1>2. CASE w.stop = "no"
  <2>1. w.ino[dir].mode # "file" /\ w.ino[dir].filelength = s.ino[dir].filelength
    BY <1>0 DEF Made
  <2>2. s.ino[dir].filelength < EPB * Capacity
    <3>1. s.ino[dir].filelength + s.free_inodes <= TOTAL_INODES
      BY DEF Whole, SInv, Unused
    <3>2. s.free_inodes \in Nat \ {0}
      BY IallocIs
    <3>3. TOTAL_INODES <= EPB * Capacity
      BY CapacityAssumption DEF CapacityAssumption, Capacity
    <3>4. TOTAL_INODES \in Nat /\ EPB * Capacity \in Nat
      <4>1. NDIRECT \in Nat /\ BINS \in Nat /\ EPB \in Nat /\ BINS * BINS \in Nat /\ TOTAL_INODES \in Nat
        BY Numbers
      <4>2. Capacity \in Nat
        BY <4>1 DEF Capacity
      <4> QED
        BY <4>1, <4>2
    <3> QED
      BY <1>0, <3>1, <3>2, <3>3, <3>4
  <2>3. entry \in EntryType /\ entry.inum \in Inum
    BY <1>0 DEF EntryType
  <2> HIDE DEF entry
  <2>4. Written(w, dir, entry, dir_write(w, dir, entry))
    BY <1>2, <2>1, <2>2, <2>3, DirWriteIs DEF Made
  <2>5. Written(w, dir, entry, r)
    BY <2>4 DEF entry
  <2>6. Kept(s, r)
    <3>1. \A n \in Inum : s.ino[n].filelength <= w.ino[n].filelength
      <4>1. s.ino[num].filelength = 0
        BY DEF Whole, SInv, Unused
      <4> QED
        BY <1>0, <4>1 DEF Made
    <3> QED
      BY <1>0, <2>5, <3>1, KeptFurther DEF Made, Written
  <2>7. /\ Sound(r) /\ Filled(r) /\ r.free_inodes = s.free_inodes - 1 /\ s.map \subseteq r.map
    BY <2>5 DEF Made, Written
  <2>8. /\ r.ino[num].links = 1 /\ r.ino[num].filelength \in 0 .. 2 /\ r.ino[num].mode = type
        /\ \A m \in Inum \ {num} : r.ino[m].mode = s.ino[m].mode /\ r.ino[m].links = s.ino[m].links
        /\ \A m \in Inum \ {num, dir} : r.ino[m].filelength = s.ino[m].filelength
    BY <1>0, <1>2, <2>5 DEF Made, Written
  <2>10. Bare(r, num) /\ (type = "file" => r.ino[num].filelength = 0)
    <3>1. r.ino[num].filelength = w.ino[num].filelength /\ Kept(w, r)
      BY <1>0, <2>5 DEF Written
    <3> QED
      BY <1>0, <3>1, BareKept DEF Made
  <2>9. \/ /\ r.stop = "no" /\ r.ino[dir].filelength = s.ino[dir].filelength + 1
           /\ Shown(r, dir, s.ino[dir].filelength) = entry
        \/ r.stop = "panic" /\ r.map = Blocks /\ r.ino[dir].filelength = s.ino[dir].filelength
    BY <2>1, <2>5 DEF Written
  <2> QED
    BY <2>6, <2>7, <2>8, <2>9, <2>10 DEF Entered, entry
<1> QED
  BY <1>1, <1>2 DEF Made

\* What was a file or a directory is the same.
Beside(s, r) ==
  \A m \in Inum : s.ino[m].mode # "none" =>
    /\ r.ino[m].mode = s.ino[m].mode
    /\ s.ino[m].mode = "file" => r.ino[m].filelength = s.ino[m].filelength

SameNames(s, r) == \A n \in Inum, x \in TreeNames : Lookup(r, n, x) = Lookup(s, n, x)

\* A call that made an inode, named it or found the disk full.
Extended(s, r) ==
  /\ r \in State /\ SInv(r) /\ Later(s, r) /\ r.stop \in {"no", "panic"}
  /\ FreeInodes(r) \subseteq FreeInodes(s) /\ Beside(s, r)
  /\ r.stop = "panic" => SameNames(s, r)

\* There is one name more.
Added(s, r, dir, name, num, type) ==
  /\ num \in FreeInodes(s) /\ Lookup(s, dir, name) = {} /\ Lookup(r, dir, name) = {num}
  /\ \A n \in Inum, x \in TreeNames : n # dir \/ x # name => Lookup(r, n, x) = Lookup(s, n, x)
  /\ \A x \in TreeNames : Lookup(r, num, x) = {}
  /\ r.ino[num].links > 0 /\ r.ino[num].mode = type /\ (type = "file" => r.ino[num].filelength = 0)

\* ... leaves everything in order, and the name leads to the inode.
LEMMA ExtendedIs ==
  ASSUME NEW s, Whole(s), NEW num \in FreeInodes(s), NEW dir \in Inum, s.ino[dir].mode = "dir",
         NEW name \in Names, NEW type \in {"dir", "file"}, Lookup(s, dir, name) = {},
         NEW r, Entered(s, num, dir, name, type, r)
  PROVE  Extended(s, r) /\ (r.stop = "no" => Added(s, r, dir, name, num, type))
<1>0. /\ s \in State /\ num \in Inum /\ num # ROOT_INODE /\ dir # num /\ r \in State /\ s.ino[num].links = 0
      /\ \A n \in Inum : s.ino[n].filelength \in Nat /\ r.ino[n].filelength \in Nat
      /\ s.ino[num].mode = "none" /\ s.ino[num].filelength = 0
  <2>1. s \in State /\ num \in Inum /\ num # ROOT_INODE
    BY FreeIs DEF Whole
  <2>2. s.ino[num].mode = "none" /\ s.ino[num].filelength = 0
    BY DEF Whole, SInv, Unused
  <2>3. r \in State
    BY DEF Entered, Sound
  <2>4. s.ino[num].links = 0
    BY DEF FreeInodes
  <2> QED
    BY <2>1, <2>2, <2>3, <2>4, AddressesOfInode DEF Inode
<1>1. FreeInodes(r) = FreeInodes(s) \ {num}
  <2>1. \A m \in 2 .. (TOTAL_INODES - 1) : m \in Inum
    BY Numbers DEF Inum
  <2> QED
    BY <1>0, <2>1 DEF Entered, FreeInodes
<1>2. /\ s.free_inodes = Cardinality(FreeInodes(s)) /\ s.free_inodes \in Nat \ {0}
      /\ s.free_inodes <= TOTAL_INODES - 2 /\ r.free_inodes = s.free_inodes - 1
  <2>1. s.free_inodes = Cardinality(FreeInodes(s))
    BY DEF Whole, SInv, Counted
  <2> QED
    BY <1>0, <2>1, FreeIs, IallocIs DEF Entered
<1>3. Counted(r)
  <2>1. Cardinality(FreeInodes(r)) = Cardinality(FreeInodes(s)) - 1
    BY <1>0, <1>1, FreeIs
  <2> QED
    BY <1>2, <2>1 DEF Counted, Entered, Sound
<1>4. Later(s, r)
  <2>1. \A n \in Inum : s.ino[n].filelength <= r.ino[n].filelength
    BY <1>0 DEF Entered
  <2> QED
    BY <1>0, <2>1 DEF Later, Entered, Whole, SInv
<1>5. r.stop = "no" => Lookup(r, dir, name) = {num}
  <2> SUFFICES ASSUME r.stop = "no" PROVE Lookup(r, dir, name) = {num}
    OBVIOUS
  <2>1. /\ r.ino[dir].filelength = s.ino[dir].filelength + 1 /\ Kept(s, r)
        /\ Shown(r, dir, s.ino[dir].filelength) = [inum |-> num, name |-> name]
    BY DEF Entered
  <2>2. Lookup(r, dir, name) = {Shown(r, dir, s.ino[dir].filelength).inum}
    BY <1>0, <2>1, LookupNew
  <2> QED
    BY <2>1, <2>2
<1>6. Unused(r)
  <2>1. ASSUME NEW n \in FreeInodes(r)
        PROVE  r.ino[n].mode = "none" /\ r.ino[n].filelength = 0
    <3>1. n \in FreeInodes(s) /\ n \in Inum \ {num}
      BY <1>0, <1>1, FreeIs
    <3>2. s.ino[n].mode = "none" /\ s.ino[n].filelength = 0
      BY <3>1 DEF Whole, SInv, Unused
    <3>3. n # dir
      BY <3>2
    <3> QED
      BY <3>1, <3>2, <3>3 DEF Entered
  <2>2. ASSUME NEW n \in Inum, r.ino[n].mode # "file"
        PROVE  r.ino[n].filelength + r.free_inodes <= TOTAL_INODES
    <3>1. CASE n = num
      <4>1. r.ino[num].filelength \in 0 .. 2
        BY DEF Entered
      <4> QED
        BY <1>2, <3>1, <4>1, Numbers
    <3>2. CASE n # num
      <4>1. s.ino[n].filelength + s.free_inodes <= TOTAL_INODES
        BY <2>2, <3>2 DEF Entered, Whole, SInv, Unused
      <4>2. r.ino[n].filelength <= s.ino[n].filelength + 1
        BY <1>0, <3>2 DEF Entered
      <4> QED
        BY <1>0, <1>2, <4>1, <4>2, Numbers
    <3> QED
      BY <3>1, <3>2
  <2> QED
    BY <2>1, <2>2 DEF Unused
<1>7. AllNamed(r)
  <2> SUFFICES ASSUME r.map # Blocks, NEW n \in 2 .. (TOTAL_INODES - 1), r.ino[n].links > 0
               PROVE  n \in Named(r.ino, r.blk)
    BY DEF AllNamed
  <2>0. r.stop = "no" /\ s.map # Blocks /\ n \in Inum
    <3>1. r.stop = "no" /\ s.map \subseteq r.map
      BY DEF Entered
    <3>2. s.map # Blocks
      BY <1>0, <3>1 DEF State
    <3> QED
      BY <3>1, <3>2, Numbers DEF Inum
  <2>1. CASE n = num
    <3>1. r.ino[dir].mode = "dir" /\ n \in ilookup(r.ino, r.blk, dir, name)
      BY <1>0, <1>5, <2>0, <2>1 DEF Entered, Lookup
    <3> QED
      BY <3>1 DEF Named
  <2>2. CASE n # num
    <3>1. s.ino[n].links > 0
      BY <2>0, <2>2 DEF Entered
    <3>2. n \in Named(s.ino, s.blk)
      BY <2>0, <3>1 DEF Whole, SInv, AllNamed
    <3>3. PICK m \in Inum, x \in Names : s.ino[m].mode = "dir" /\ n \in Lookup(s, m, x)
      BY <3>2 DEF Named, Lookup
    <3>4. Lookup(r, m, x) = Lookup(s, m, x)
      <4>1. s \in State /\ r \in State /\ Filled(s) /\ Kept(s, r) /\ s.ino[m].filelength <= r.ino[m].filelength
        BY <1>4 DEF Later
      <4>2. Lookup(s, m, x) # {}
        BY <3>3
      <4>3. \E y \in Inum : Lookup(s, m, x) = {y} /\ Lookup(r, m, x) = {y}
        BY <4>1, <4>2, LookupKept
      <4> QED
        BY <4>3
    <3>5. r.ino[m].mode = "dir"
      BY <1>0, <3>3 DEF Entered
    <3> QED
      BY <3>3, <3>4, <3>5 DEF Named, Lookup
  <2> QED
    BY <2>1, <2>2
<1>8. Sole(s) /\ Filled(s) /\ Kept(s, r) /\ Bare(r, num)
  BY DEF Whole, SInv, Entered
<1>9. Beside(s, r)
  <2> SUFFICES ASSUME NEW m \in Inum, s.ino[m].mode # "none"
               PROVE  /\ r.ino[m].mode = s.ino[m].mode
                      /\ s.ino[m].mode = "file" => r.ino[m].filelength = s.ino[m].filelength
    BY DEF Beside
  <2>1. m # num /\ (s.ino[m].mode = "file" => m # dir)
    BY <1>0
  <2> QED
    BY <2>1 DEF Entered
<1>10. \A n \in Inum : \A e \in 0 .. (r.ino[n].filelength - 1) :
         Shown(r, n, e).name \in TreeNames =>
           \/ e \in 0 .. (s.ino[n].filelength - 1) /\ Shown(r, n, e) = Shown(s, n, e)
           \/ r.stop = "no" /\ n = dir /\ e = s.ino[dir].filelength /\ Shown(r, n, e) = [inum |-> num, name |-> name]
  <2> SUFFICES ASSUME NEW n \in Inum, NEW e \in 0 .. (r.ino[n].filelength - 1), Shown(r, n, e).name \in TreeNames,
                      ~ (r.stop = "no" /\ n = dir /\ e = s.ino[dir].filelength
                         /\ Shown(r, n, e) = [inum |-> num, name |-> name])
               PROVE  e \in 0 .. (s.ino[n].filelength - 1) /\ Shown(r, n, e) = Shown(s, n, e)
    OBVIOUS
  <2>1. n # num
    BY <1>8 DEF Bare
  <2>2. n # dir => r.ino[n].filelength = s.ino[n].filelength
    BY <2>1 DEF Entered
  <2>3. n = dir => \/ r.ino[n].filelength = s.ino[n].filelength
                   \/ r.ino[n].filelength = s.ino[n].filelength + 1 /\ e # s.ino[n].filelength
    BY DEF Entered
  <2>4. e \in 0 .. (s.ino[n].filelength - 1)
    BY <1>0, <2>2, <2>3
  <2> QED
    BY <1>8, <2>4 DEF Kept
<1>11. Sole(r)
  <2>1. CASE r.stop # "no"
    <3>1. \A m \in Inum : s.ino[m].mode # "none" => r.ino[m].mode # "none"
      BY <1>9 DEF Beside
    <3> QED
      BY <1>0, <1>8, <1>10, <2>1, <3>1, SoleKept
  <2>2. CASE r.stop = "no"
    <3>1. ASSUME NEW n \in Inum, NEW e \in 0 .. (s.ino[n].filelength - 1), Shown(s, n, e).name \in TreeNames
          PROVE  /\ Shown(s, n, e).inum \in Inum /\ Shown(s, n, e).inum # ROOT_INODE
                 /\ Shown(s, n, e).inum # num /\ r.ino[Shown(s, n, e).inum].mode # "none"
      <4>1. Shown(s, n, e).inum # ROOT_INODE /\ s.ino[Shown(s, n, e).inum].mode # "none"
        BY <1>8, <3>1, SoleIs
      <4>2. Shown(s, n, e).inum \in Inum
        BY <1>0, <1>8, <3>1, NameInDirectory
      <4> QED
        BY <1>0, <1>9, <4>1, <4>2 DEF Beside
    <3>2. r.ino[num].mode # "none"
      BY <2>2 DEF Entered
    <3>3. ASSUME NEW n \in Inum, NEW m \in Inum,
                 NEW e \in 0 .. (r.ino[n].filelength - 1), NEW f \in 0 .. (r.ino[m].filelength - 1),
                 Shown(r, n, e).name \in TreeNames
          PROVE  /\ Shown(r, n, e).inum # ROOT_INODE /\ r.ino[Shown(r, n, e).inum].mode # "none"
                 /\ Shown(r, m, f).name \in TreeNames /\ Shown(r, m, f).inum = Shown(r, n, e).inum => n = m /\ e = f
      <4> DEFINE Old(k, x) == x \in 0 .. (s.ino[k].filelength - 1) /\ Shown(r, k, x) = Shown(s, k, x)
                 New(k, x) == k = dir /\ x = s.ino[dir].filelength /\ Shown(r, k, x) = [inum |-> num, name |-> name]
      <4>1. Old(n, e) \/ New(n, e)
        BY <1>10, <3>3
      <4>2. Shown(r, m, f).name \in TreeNames => Old(m, f) \/ New(m, f)
        BY <1>10
      <4>3. CASE Old(n, e)
        <5>1. /\ Shown(r, n, e).inum \in Inum /\ Shown(r, n, e).inum # ROOT_INODE
              /\ Shown(r, n, e).inum # num /\ r.ino[Shown(r, n, e).inum].mode # "none"
          BY <3>1, <3>3, <4>3
        <5>2. New(m, f) => Shown(r, m, f).inum = num
          OBVIOUS
        <5>3. Shown(r, m, f).name \in TreeNames /\ Old(m, f) /\ Shown(r, m, f).inum = Shown(r, n, e).inum => n = m /\ e = f
          BY <1>8, <3>3, <4>3, SoleIs
        <5> HIDE DEF Old, New
        <5> QED
          BY <4>2, <5>1, <5>2, <5>3
      <4>4. CASE New(n, e)
        <5>1. Shown(r, n, e).inum = num
          BY <4>4
        <5>2. Shown(r, m, f).name \in TreeNames /\ Old(m, f) => Shown(r, m, f).inum # num
          BY <3>1
        <5>3. New(m, f) => n = m /\ e = f
          BY <4>4
        <5> HIDE DEF Old, New
        <5> QED
          BY <1>0, <3>2, <4>2, <5>1, <5>2, <5>3
      <4> QED
        BY <4>1, <4>3, <4>4
    <3> QED
      BY <3>3, SoleIs
  <2> QED
    BY <2>1, <2>2
<1>12. SInv(r)
  BY <1>3, <1>6, <1>7, <1>11 DEF SInv, Entered, Sound
<1>13. \A x \in TreeNames : Lookup(r, num, x) = {} /\ Lookup(s, num, x) = {}
  <2> TAKE x \in TreeNames
  <2>1. Lookup(r, num, x) = {}
    BY <1>0, <1>8, LookupIs DEF Bare
  <2>2. \A e \in 0 .. (s.ino[num].filelength - 1) : FALSE
    BY <1>0
  <2>3. Lookup(s, num, x) = {}
    BY <1>0, <2>2, LookupIs
  <2> QED
    BY <2>1, <2>3
<1>14. \A n \in Inum, x \in TreeNames : n # dir \/ x # name \/ r.stop # "no" => Lookup(r, n, x) = Lookup(s, n, x)
  <2> SUFFICES ASSUME NEW n \in Inum, NEW x \in TreeNames, n # dir \/ x # name \/ r.stop # "no"
               PROVE  Lookup(r, n, x) = Lookup(s, n, x)
    OBVIOUS
  <2>1. CASE n = num
    BY <1>13, <2>1
  <2>2. CASE n # num /\ r.ino[n].filelength = s.ino[n].filelength
    BY <1>8, <2>2, LookupSame DEF Kept
  <2>3. CASE n # num /\ r.ino[n].filelength # s.ino[n].filelength
    <3>1. n = dir /\ r.stop = "no"
      BY <2>3 DEF Entered
    <3>2. /\ r.ino[dir].filelength = s.ino[dir].filelength + 1
          /\ Shown(r, dir, s.ino[dir].filelength) = [inum |-> num, name |-> name]
      BY <3>1 DEF Entered
    <3>3. Shown(r, dir, s.ino[dir].filelength).name # x
      BY <3>1, <3>2
    <3> QED
      BY <1>0, <1>8, <3>1, <3>2, <3>3, LookupOther DEF Kept
  <2> QED
    BY <2>1, <2>2, <2>3
<1>15. r.stop = "panic" => SameNames(s, r)
  BY <1>14 DEF SameNames
<1>16. r.stop = "no" => Added(s, r, dir, name, num, type)
  <2> SUFFICES ASSUME r.stop = "no" PROVE Added(s, r, dir, name, num, type)
    OBVIOUS
  <2>1. r.ino[num].links > 0 /\ r.ino[num].mode = type /\ (type = "file" => r.ino[num].filelength = 0)
    BY DEF Entered
  <2> QED
    BY <1>5, <1>13, <1>14, <2>1 DEF Added
<1>17. FreeInodes(r) \subseteq FreeInodes(s) /\ r.stop \in {"no", "panic"}
  BY <1>1 DEF Entered
<1> QED
  BY <1>0, <1>4, <1>9, <1>12, <1>15, <1>16, <1>17 DEF Extended

-----------------------------------------------------------------------------
(* The operations of a run *)

\* A call that ends the program before it wrote anything.
Refused(s, r) == r.blk = s.blk /\ r.stop = "exit"

\* No inode left: the program saves what there is.
LEMMA NoInodeLeft ==
  ASSUME NEW s, Whole(s), NEW r, r = [s EXCEPT !.stop = "panic"]
  PROVE  Extended(s, r)
<1>0. s \in State /\ SInv(s)
  BY DEF Whole
<1>1. /\ r \in State /\ r.stop = "panic" /\ r.ino = s.ino /\ r.blk = s.blk /\ r.map = s.map
      /\ r.free_inodes = s.free_inodes /\ r.free_data = s.free_data
  BY <1>0 DEF State
<1>2. FreeInodes(r) = FreeInodes(s)
  BY <1>1 DEF FreeInodes
<1>3. Owned(r) /\ Clean(r) /\ Filled(r)
  BY <1>0, <1>1 DEF SInv, Owned, Clean, Filled
<1>4. Counted(r) /\ Unused(r) /\ AllNamed(r)
  BY <1>0, <1>1, <1>2 DEF SInv, Counted, Unused, AllNamed
<1>5. Kept(s, r)
  BY <1>1, KeptSame
<1>6. \A n \in Inum : s.ino[n].filelength \in Nat
  BY <1>0, AddressesOfInode DEF Inode
<1>7. Later(s, r)
  BY <1>0, <1>1, <1>5, <1>6 DEF Later, SInv
<1>8. Sole(r) /\ Beside(s, r) /\ SameNames(s, r)
  BY <1>0, <1>1 DEF SInv, Sole, Beside, SameNames, Lookup
<1> QED
  BY <1>1, <1>2, <1>3, <1>4, <1>7, <1>8 DEF Extended, SInv

\* dir_create_entity
LEMMA EntityIs ==
  ASSUME NEW s, Whole(s), NEW dir \in Inum, s.ino[dir].mode = "dir", NEW name \in Names,
         NEW type \in {"dir", "file"}, NEW r, r = dir_create_entity(s, dir, name, type)
  PROVE  \/ Refused(s, r)
         \/ Extended(s, r) /\ r.stop = "panic"
         \/ /\ Extended(s, r) /\ r.stop = "no"
            /\ \E num \in FreeInodes(s) : Added(s, r, dir, name, num, type)
<1> DEFINE num == Min(FreeInodes(s))
           t   == ialloc(s, num)
           w   == WithMode(IF type = "dir" THEN Dots(t, num, dir) ELSE t, num, type)
           u   == dir_write(w, dir, [inum |-> num, name |-> name])
<1>1. CASE FreeInodes(s) = {}
  <2>1. r = [s EXCEPT !.stop = "panic"]
    BY <1>1 DEF dir_create_entity
  <2>2. r.stop = "panic"
    BY <2>1 DEF Whole, State
  <2> QED
    BY <2>1, <2>2, NoInodeLeft
<1>2. CASE FreeInodes(s) # {} /\ Lookup(s, dir, name) # {}
  <2>1. r = [t EXCEPT !.stop = "exit"]
    BY <1>2 DEF dir_create_entity, Lookup
  <2>2. num \in FreeInodes(s)
    BY <1>2, FreeIs, MinIs DEF Whole
  <2> HIDE DEF num
  <2>3. t \in State /\ t.blk = s.blk
    BY <2>2, IallocIs DEF Sound
  <2> HIDE DEF t
  <2>4. r.blk = s.blk /\ r.stop = "exit"
    BY <2>1, <2>3 DEF State
  <2> QED
    BY <2>4 DEF Refused
<1>3. CASE FreeInodes(s) # {} /\ Lookup(s, dir, name) = {}
  <2>1. r = u
    BY <1>3 DEF dir_create_entity, Lookup
  <2>2. num \in FreeInodes(s)
    BY <1>3, FreeIs, MinIs DEF Whole
  <2> HIDE DEF num
  <2>3. Made(s, num, type, w)
    BY <2>2, MadeIs
  <2> HIDE DEF w
  <2>4. Entered(s, num, dir, name, type, u)
    BY <2>2, <2>3, EnteredIs
  <2> HIDE DEF u
  <2>5. Extended(s, u) /\ (u.stop = "no" => Added(s, u, dir, name, num, type))
    BY <1>3, <2>2, <2>4, ExtendedIs
  <2>6. u.stop \in {"no", "panic"}
    BY <2>5 DEF Extended
  <2> QED
    BY <2>1, <2>2, <2>5, <2>6
<1> QED
  BY <1>1, <1>2, <1>3

\* cli_mkdir and cli_touch: what was made is found under its path.
Created(s, path, type, r) ==
  \/ Refused(s, r)
  \/ Extended(s, r) /\ r.stop = "panic"
  \/ /\ Extended(s, r) /\ r.stop = "no"
     /\ \E num \in FreeInodes(s) : /\ iname(r.ino, r.blk, path) = {num}
                                   /\ r.ino[num].links > 0 /\ r.ino[num].mode = type
                                   /\ \E dir \in Inum : /\ iname(s.ino, s.blk, Front(path)) = {dir}
                                                        /\ s.ino[dir].mode = "dir"
                                                        /\ Added(s, r, dir, Last(path), num, type)

\* A command that makes an inode refuses, or stops at a full disk, or makes it.
LEMMA CreateIs ==
  ASSUME NEW s, Whole(s), NEW path \in Paths, NEW type \in {"dir", "file"},
         \A dir \in iname(s.ino, s.blk, Front(path)) : s.ino[dir].mode = "dir",
         NEW r, r = create(s, path, type)
  PROVE  Created(s, path, type, r)
<1> DEFINE parents == iname(s.ino, s.blk, Front(path))
<1>0. s \in State
  BY DEF Whole
<1>1. CASE parents = {}
  <2>1. r = [s EXCEPT !.stop = "exit"]
    BY <1>1 DEF create
  <2>2. r.blk = s.blk /\ r.stop = "exit"
    BY <1>0, <2>1 DEF State
  <2> QED
    BY <2>2 DEF Created, Refused
<1>2. CASE parents # {}
  <2>1. Later(s, s)
    <3>1. \A n \in Inum : s.ino[n].filelength \in Nat
      BY <1>0, AddressesOfInode DEF Inode
    <3> QED
      BY <1>0, <3>1, KeptSame DEF Later, Whole, SInv
  <2>2. PICK dir \in Inum : parents = {dir}
    BY <1>2, <2>1, InameKept
  <2>3. s.ino[dir].mode = "dir" /\ The(parents) = dir
    BY <2>2 DEF The
  <2>4. Last(path) \in Names
    <3>1. PICK l \in 1 .. MaxDepth : path \in [1 .. l -> Names]
      BY DEF Paths
    <3>2. l \in Nat /\ l >= 1
      BY UxlFsAssumption DEF UxlFsAssumption
    <3>3. path \in Seq(Names) /\ Len(path) = l
      BY <3>1, <3>2
    <3> QED
      BY <3>1, <3>2, <3>3 DEF Last
  <2>5. r = dir_create_entity(s, dir, Last(path), type)
    BY <1>2, <2>3 DEF create
  <2>6. ASSUME Extended(s, r)
        PROVE  iname(r.ino, r.blk, path) = Lookup(r, dir, Last(path))
    <3>1. Later(s, r)
      BY <2>6 DEF Extended
    <3>2. PICK x \in Inum : parents = {x} /\ iname(r.ino, r.blk, path) = Lookup(r, x, Last(path))
      BY <1>2, <3>1, InameKept
    <3> QED
      BY <2>2, <3>2
  <2>8. iname(s.ino, s.blk, Front(path)) = {dir}
    BY <2>2
  <2> HIDE DEF parents
  <2>7. \/ Refused(s, r)
        \/ Extended(s, r) /\ r.stop = "panic"
        \/ /\ Extended(s, r) /\ r.stop = "no"
           /\ \E num \in FreeInodes(s) : Added(s, r, dir, Last(path), num, type)
    BY <2>3, <2>4, <2>5, EntityIs
  <2>9. \A num : Added(s, r, dir, Last(path), num, type) =>
          Lookup(r, dir, Last(path)) = {num} /\ r.ino[num].links > 0 /\ r.ino[num].mode = type
    BY DEF Added
  <2> QED
    BY <2>3, <2>6, <2>7, <2>8, <2>9 DEF Created
<1> QED
  BY <1>1, <1>2

\* A turn of cpin's loop.
LEMMA WrittenFile ==
  ASSUME NEW s, Whole(s), NEW n \in Inum, s.ino[n].mode = "file", NEW v \in Inum \X Nat,
         NEW t, t = write_block(s, n, v)
  PROVE  /\ t \in State /\ FreeInodes(t) = FreeInodes(s)
         /\ t.ino[n].links = s.ino[n].links /\ t.ino[n].mode = "file"
         /\ Kept(s, t) /\ SameNames(s, t)
         /\ \A m \in Inum : t.ino[m].mode = s.ino[m].mode
         /\ \A m \in Inum \ {n} : t.ino[m].filelength = s.ino[m].filelength
         /\ (t.stop = "no" => /\ t.ino[n].filelength = s.ino[n].filelength + 1
                             /\ t.blk[Phys(t, n, s.ino[n].filelength)] = Data(v))
         /\ (t.stop # "no" => t.ino[n].filelength = s.ino[n].filelength)
         /\ \/ t.stop \in {"no", "panic"} /\ SInv(t)
            \/ t.stop = "overrun" /\ s.ino[n].filelength = Capacity
<1>0. /\ s \in State /\ Sound(s) /\ Filled(s) /\ SInv(s)
      /\ \A m \in Inum : s.ino[m].filelength \in Nat
  <2>1. s \in State /\ Sound(s) /\ Filled(s) /\ SInv(s)
    BY DEF Whole, SInv, Sound, Counted
  <2> QED
    BY <2>1, AddressesOfInode DEF Inode
<1>1. FileWritten(s, n, v, t)
  BY <1>0, WriteBlockIs DEF Whole
<1>2. /\ t \in State /\ Owned(t) /\ Clean(t) /\ Filled(t) /\ Kept(s, t) /\ s.map \subseteq t.map
      /\ t.free_data = TOTAL_DATA - Cardinality(t.map) /\ t.free_inodes = s.free_inodes
      /\ \A m \in Inum : t.ino[m].mode = s.ino[m].mode /\ t.ino[m].links = s.ino[m].links
      /\ \A m \in Inum \ {n} : t.ino[m].filelength = s.ino[m].filelength
  BY <1>1 DEF FileWritten, Sound
<1>3. FreeInodes(t) = FreeInodes(s)
  <2>1. \A m \in 2 .. (TOTAL_INODES - 1) : m \in Inum
    BY Numbers DEF Inum
  <2> QED
    BY <1>2, <2>1 DEF FreeInodes
<1>4. Counted(t)
  BY <1>0, <1>2, <1>3 DEF Counted, SInv
<1>5. Unused(t)
  <2>1. \A m \in FreeInodes(t) : m \in Inum \ {n} /\ s.ino[m].mode = "none" /\ s.ino[m].filelength = 0
    BY <1>0, <1>3, FreeIs DEF SInv, Unused
  <2>2. \A m \in FreeInodes(t) : t.ino[m].mode = "none" /\ t.ino[m].filelength = 0
    BY <1>2, <2>1
  <2>3. ASSUME NEW m \in Inum, t.ino[m].mode # "file"
        PROVE  t.ino[m].filelength + t.free_inodes <= TOTAL_INODES
    <3>1. m # n /\ s.ino[m].mode # "file"
      BY <1>2, <2>3
    <3>2. s.ino[m].filelength + s.free_inodes <= TOTAL_INODES
      BY <1>0, <3>1 DEF SInv, Unused
    <3> QED
      BY <1>2, <3>1, <3>2
  <2> QED
    BY <2>2, <2>3 DEF Unused
<1>6. ASSUME t.stop # "overrun" PROVE AllNamed(t)
  <2> SUFFICES ASSUME t.map # Blocks, NEW m \in 2 .. (TOTAL_INODES - 1), t.ino[m].links > 0
               PROVE  m \in Named(t.ino, t.blk)
    BY DEF AllNamed
  <2>1. s.map # Blocks /\ m \in Inum
    <3>1. t.map \subseteq Blocks
      BY <1>2 DEF State
    <3>2. m \in Inum
      BY Numbers DEF Inum
    <3> QED
      BY <1>2, <3>1, <3>2
  <2>2. m \in Named(s.ino, s.blk)
    BY <1>0, <1>2, <2>1 DEF SInv, AllNamed
  <2>3. PICK d \in Inum, x \in Names : s.ino[d].mode = "dir" /\ m \in Lookup(s, d, x)
    BY <2>2 DEF Named, Lookup
  <2>4. Lookup(t, d, x) = Lookup(s, d, x)
    <3>1. d # n /\ s.ino[d].filelength <= t.ino[d].filelength
      BY <1>0, <1>2, <2>3
    <3>2. \E y \in Inum : Lookup(s, d, x) = {y} /\ Lookup(t, d, x) = {y}
      BY <1>0, <1>2, <2>3, <3>1, LookupKept
    <3> QED
      BY <3>2
  <2>5. t.ino[d].mode = "dir"
    BY <1>2, <2>3
  <2> QED
    BY <2>3, <2>4, <2>5 DEF Named, Lookup
<1>9. Sole(t)
  <2>1. \A m \in Inum : s.ino[m].mode # "none" => t.ino[m].mode # "none"
    BY <1>2
  <2>2. ASSUME NEW m \in Inum, NEW e \in 0 .. (t.ino[m].filelength - 1), Shown(t, m, e).name \in TreeNames
        PROVE  e \in 0 .. (s.ino[m].filelength - 1) /\ Shown(t, m, e) = Shown(s, m, e)
    <3>1. m # n
      BY <1>2, <2>2, NameInDirectory
    <3>2. e \in 0 .. (s.ino[m].filelength - 1)
      BY <1>2, <3>1
    <3> QED
      BY <1>2, <3>2 DEF Kept
  <2> QED
    BY <1>0, <2>1, <2>2, SoleKept DEF SInv
<1>7. t.stop \in {"no", "panic"} => SInv(t)
  BY <1>2, <1>4, <1>5, <1>6, <1>9 DEF SInv
<1>8. t.stop \in {"no", "panic"} \/ (t.stop = "overrun" /\ s.ino[n].filelength = Capacity)
  BY <1>1 DEF FileWritten
<1>10. ASSUME NEW m \in Inum, NEW x \in TreeNames
       PROVE  Lookup(t, m, x) = Lookup(s, m, x)
  <2>1. CASE m = n
    <3>1. \A e \in 0 .. (s.ino[n].filelength - 1) : Shown(s, n, e).name # x
      BY <1>0, NameInDirectory
    <3>2. \A e \in 0 .. (t.ino[n].filelength - 1) : Shown(t, n, e).name # x
      BY <1>2, NameInDirectory
    <3>3. Lookup(s, n, x) = {} /\ Lookup(t, n, x) = {}
      BY <1>0, <1>2, <3>1, <3>2, LookupIs
    <3> QED
      BY <2>1, <3>3
  <2>2. CASE m # n
    BY <1>2, <2>2, LookupSame DEF Kept
  <2> QED
    BY <2>1, <2>2
<1>11. SameNames(s, t)
  BY <1>10 DEF SameNames
<1>12. /\ (t.stop = "no" => /\ t.ino[n].filelength = s.ino[n].filelength + 1
                           /\ t.blk[Phys(t, n, s.ino[n].filelength)] = Data(v))
       /\ (t.stop # "no" => t.ino[n].filelength = s.ino[n].filelength)
  BY <1>1 DEF FileWritten
<1> QED
  BY <1>2, <1>3, <1>7, <1>8, <1>11, <1>12

-----------------------------------------------------------------------------
(* Steps *)

\* What a run has in memory, as a state of the functions.
LEMMA CurrentIs ==
  ASSUME TypeOK
  PROVE  /\ Current \in State /\ Current.stop = "no" /\ Current.ino = meta.ino /\ Current.blk = blk
         /\ FreeInodes(Current) = FreeInodes(meta)
         /\ \A s \in State : /\ MetaOf(s) \in Meta /\ MetaOf(s).ino = s.ino /\ MetaOf(s).map = s.map
                             /\ MetaOf(s).free_inodes = s.free_inodes /\ MetaOf(s).free_data = s.free_data
                             /\ FreeInodes(MetaOf(s)) = FreeInodes(s)
<1>1. /\ meta.ino \in [Inum -> Inode] /\ meta.map \in SUBSET Blocks
      /\ meta.free_inodes \in Nat /\ meta.free_data \in Nat /\ blk \in [Blocks -> Content]
  BY DEF TypeOK, Meta
<1>2. Current \in State /\ Current.stop = "no" /\ Current.ino = meta.ino /\ Current.blk = blk
  BY <1>1 DEF Current, State
<1>3. ASSUME NEW s \in State
      PROVE  /\ MetaOf(s) \in Meta /\ MetaOf(s).ino = s.ino /\ MetaOf(s).map = s.map
             /\ MetaOf(s).free_inodes = s.free_inodes /\ MetaOf(s).free_data = s.free_data
             /\ FreeInodes(MetaOf(s)) = FreeInodes(s)
  BY DEF MetaOf, Meta, State, FreeInodes
<1> QED
  BY <1>2, <1>3 DEF FreeInodes

\* The same of everything but what says whether the program stopped.
Alike(s, t) ==
  /\ s.ino = t.ino /\ s.blk = t.blk /\ s.map = t.map
  /\ s.free_inodes = t.free_inodes /\ s.free_data = t.free_data

\* SInv does not look at what stopped.
LEMMA AlikeInv ==
  ASSUME NEW s, NEW t, Alike(s, t), SInv(s)
  PROVE  SInv(t)
<1>1. FreeInodes(t) = FreeInodes(s)
  BY DEF Alike, FreeInodes
<1>2. Owned(t) /\ Clean(t) /\ Filled(t)
  BY DEF Alike, SInv, Owned, Clean, Filled
<1>3. Counted(t) /\ Unused(t) /\ AllNamed(t)
  BY <1>1 DEF Alike, SInv, Counted, Unused, AllNamed
<1>4. Sole(t)
  BY DEF Alike, SInv, Sole
<1> QED
  BY <1>2, <1>3, <1>4 DEF SInv

\* What is left of a run that goes on, or saves, after a function.
LEMMA GoesOn ==
  ASSUME TypeOK, NEW s \in State, s.stop \in {"no", "panic"}, SInv(s), NEW next, Continue(s, next)
  PROVE  /\ meta' \in Meta /\ blk' \in [Blocks -> Content] /\ SInv(Current') /\ aborted' = aborted
         /\ pc' = IF s.stop = "no" THEN next ELSE "super"
         /\ image' = image /\ FreeInodes(meta') = FreeInodes(s)
<1>1. meta' = MetaOf(s) /\ blk' = s.blk /\ image' = image /\ aborted' = (aborted \/ FALSE)
  BY DEF Continue
<1>2. meta' \in Meta /\ blk' \in [Blocks -> Content] /\ FreeInodes(meta') = FreeInodes(s)
  BY <1>1, CurrentIs DEF State
<1>3. Alike(s, Current')
  BY <1>1, CurrentIs DEF Alike, Current
<1>4. pc' = IF s.stop = "no" THEN next ELSE "super"
  BY DEF Continue
<1> QED
  BY <1>1, <1>2, <1>3, <1>4, AlikeInv DEF TypeOK

\* exit, before anything was written.
LEMMA GivesUp ==
  ASSUME TypeOK, NEW r, Refused(Current, r), NEW next, Continue(r, next)
  PROVE  /\ meta' = meta /\ image' = image /\ blk' = blk /\ pc' = "off" /\ Current' = Current
         /\ aborted' = (aborted \/ meta # image)
<1>1. meta' = meta /\ image' = image /\ blk' = blk
  BY CurrentIs DEF Refused, Continue
<1>2. pc' = "off" /\ aborted' = (aborted \/ meta # image)
  BY DEF Refused, Continue
<1> QED
  BY <1>1, <1>2 DEF Current

\* A run between two calls.
LEMMA ReadyIs ==
  ASSUME IInv, WriteAfterAbort = FALSE, NEW path \in Paths, MayWrite(path)
  PROVE  /\ ~ aborted /\ pc = "ready" /\ TypeOK /\ Whole(Current)
         /\ FreeInodes(Current) \subseteq FreeInodes(image)
         /\ \A dir \in iname(Current.ino, Current.blk, Front(path)) : Current.ino[dir].mode = "dir"
<1>1. pc = "ready" /\ ~ aborted /\ TypeOK
  BY DEF MayWrite, IInv
<1>2. SInv(Current) /\ FreeInodes(meta) \subseteq FreeInodes(image)
  BY <1>1 DEF IInv, RunInv
<1>3. Whole(Current)
  BY <1>1, <1>2, CurrentIs DEF Whole
<1> QED
  BY <1>1, <1>2, <1>3, CurrentIs DEF MayWrite

\* The end of a call without a block of a file to write.
LEMMA RefusedStep ==
  ASSUME IInv, pc = "ready", ~ aborted, NEW r, Refused(Current, r), NEW next, Continue(r, next), copy' = copy
  PROVE  IInv'
<1>0. TypeOK /\ SInv(Current)
  BY DEF IInv, RunInv
<1>1. /\ meta' = meta /\ image' = image /\ blk' = blk /\ pc' = "off" /\ Current' = Current
      /\ aborted' = (aborted \/ meta # image)
  BY <1>0, GivesUp
<1>2. TypeOK'
  BY <1>0, <1>1 DEF TypeOK
<1>3. RunInv'
  <2>1. CASE aborted'
    BY <1>1, <2>1 DEF RunInv
  <2>2. CASE ~ aborted'
    <3>1. meta' = image'
      BY <1>1, <2>2
    <3>2. SInv(Current')
      BY <1>0, <1>1
    <3> QED
      BY <1>1, <2>2, <3>1, <3>2 DEF RunInv, Synced
  <2> QED
    BY <2>1, <2>2
<1> QED
  BY <1>1, <1>2, <1>3 DEF IInv, IndexFaultsAtEnd, NdirectHoldsAddresses

\* A call that made an inode keeps the invariant.
LEMMA ExtendedStep ==
  ASSUME IInv, pc = "ready", ~ aborted, NEW r, Extended(Current, r), NEW next \in {"ready", "copy"}, Continue(r, next),
         copy' \in [inum : Inum \cup {0}, left : Nat],
         r.stop = "no" /\ next = "copy" =>
           /\ copy'.inum \in FreeInodes(Current) /\ copy'.left > 0
           /\ r.ino[copy'.inum].links > 0 /\ r.ino[copy'.inum].mode = "file"
  PROVE  IInv'
<1>0. TypeOK /\ FreeInodes(Current) \subseteq FreeInodes(image)
  BY CurrentIs DEF IInv, RunInv
<1>1. /\ r \in State /\ r.stop \in {"no", "panic"} /\ SInv(r) /\ FreeInodes(r) \subseteq FreeInodes(Current)
  BY DEF Extended
<1>2. /\ meta' \in Meta /\ blk' \in [Blocks -> Content] /\ SInv(Current') /\ aborted' = aborted
      /\ pc' = IF r.stop = "no" THEN next ELSE "super"
      /\ image' = image /\ FreeInodes(meta') = FreeInodes(r)
  BY <1>0, <1>1, GoesOn
<1>3. pc' \in {"ready", "copy", "super"}
  BY <1>2
<1>4. TypeOK'
  BY <1>0, <1>2, <1>3 DEF TypeOK
<1>5. FreeInodes(meta') \subseteq FreeInodes(image')
  BY <1>0, <1>1, <1>2
<1>6. ASSUME pc' = "copy" PROVE Copying'
  <2>1. r.stop = "no" /\ next = "copy"
    BY <1>2, <1>6
  <2>2. meta'.ino = r.ino
    BY <1>0, <1>1, CurrentIs DEF Continue
  <2> QED
    BY <1>0, <1>2, <2>1, <2>2 DEF Copying
<1>7. Synced'
  BY <1>3 DEF Synced
<1>8. RunInv'
  BY <1>2, <1>3, <1>5, <1>6, <1>7 DEF RunInv
<1> QED
  BY <1>3, <1>4, <1>8 DEF IInv, IndexFaultsAtEnd, NdirectHoldsAddresses

\* cli_mkdir keeps the invariant.
LEMMA MkdirStep ==
  ASSUME IInv, WriteAfterAbort = FALSE, NEW path \in Paths, cli_mkdir(path)
  PROVE  IInv'
<1>1. PICK r \in {create(Current, path, "dir")} : Continue(r, "ready")
  BY DEF cli_mkdir
<1>2. /\ ~ aborted /\ pc = "ready" /\ TypeOK /\ Whole(Current)
      /\ \A dir \in iname(Current.ino, Current.blk, Front(path)) : Current.ino[dir].mode = "dir"
  BY ReadyIs DEF cli_mkdir
<1>3. Created(Current, path, "dir", r)
  BY <1>1, <1>2, CreateIs
<1>4. copy' = copy
  BY DEF cli_mkdir
<1>5. CASE Refused(Current, r)
  BY <1>1, <1>2, <1>4, <1>5, RefusedStep
<1>6. CASE Extended(Current, r)
  <2>1. copy' \in [inum : Inum \cup {0}, left : Nat]
    BY <1>2, <1>4 DEF TypeOK
  <2> QED
    BY <1>1, <1>2, <1>6, <2>1, ExtendedStep
<1> QED
  BY <1>3, <1>5, <1>6 DEF Created

\* cpin up to its loop keeps the invariant.
LEMMA CpinStep ==
  ASSUME IInv, WriteAfterAbort = FALSE, NEW path \in Paths, NEW n \in FileBlocks, cpin(path, n)
  PROVE  IInv'
<1> DEFINE r    == create(Current, path, "file")
           next == IF n = 0 THEN "ready" ELSE "copy"
           at   == iname(r.ino, r.blk, path)
<1>1. /\ ~ aborted /\ pc = "ready" /\ TypeOK /\ Whole(Current)
      /\ \A dir \in iname(Current.ino, Current.blk, Front(path)) : Current.ino[dir].mode = "dir"
  BY ReadyIs DEF cpin
<1>2. Created(Current, path, "file", r)
  BY <1>1, CreateIs
<1>3. touched(path) = IF r.stop = "no" /\ at = {} THEN [r EXCEPT !.stop = "exit"] ELSE r
  BY DEF touched
<1>4. /\ Continue(touched(path), next)
      /\ copy' = IF touched(path).stop = "no"
                 THEN [inum |-> The(iname(touched(path).ino, touched(path).blk, path)), left |-> n] ELSE copy
  BY DEF cpin
<1>5. n \in Nat
  BY UxlFsAssumption DEF UxlFsAssumption
<1> HIDE DEF r
<1>6. CASE r.stop # "no"
  <2>1. touched(path) = r
    BY <1>3, <1>6
  <2>2. Continue(r, next) /\ copy' = copy
    BY <1>4, <1>6, <2>1
  <2>3. CASE Refused(Current, r)
    BY <1>1, <2>2, <2>3, RefusedStep
  <2>4. CASE Extended(Current, r)
    <3>1. copy' \in [inum : Inum \cup {0}, left : Nat]
      BY <1>1, <2>2 DEF TypeOK
    <3>2. next \in {"ready", "copy"}
      OBVIOUS
    <3> HIDE DEF next
    <3> QED
      BY <1>1, <1>6, <2>2, <2>4, <3>1, <3>2, ExtendedStep
  <2> QED
    BY <1>2, <2>3, <2>4 DEF Created
<1>7. CASE r.stop = "no"
  <2>1. Extended(Current, r)
    BY <1>2, <1>7 DEF Created, Refused
  <2>2. PICK num \in FreeInodes(Current) : at = {num} /\ r.ino[num].links > 0 /\ r.ino[num].mode = "file"
    BY <1>2, <1>7 DEF Created, Refused
  <2>3. touched(path) = r
    BY <1>3, <2>2
  <2>4. copy' = [inum |-> num, left |-> n]
    <3>1. The(at) = num
      BY <2>2 DEF The
    <3> QED
      BY <1>4, <1>7, <2>3, <3>1
  <2>5. num \in Inum
    BY <1>1, CurrentIs, FreeIs
  <2>6. copy' \in [inum : Inum \cup {0}, left : Nat] /\ copy'.inum = num /\ copy'.left = n
    BY <1>5, <2>4, <2>5
  <2>7. next \in {"ready", "copy"} /\ (next = "copy" => n > 0)
    BY <1>5
  <2>8. Continue(r, next)
    BY <1>4, <2>3
  <2> HIDE DEF next
  <2> QED
    BY <1>1, <2>1, <2>2, <2>6, <2>7, <2>8, ExtendedStep
<1> QED
  BY <1>6, <1>7

\* A turn of the loop of cpin keeps the invariant.
LEMMA CopyStep ==
  ASSUME IInv, cpin_block
  PROVE  IInv'
<1> DEFINE n == copy.inum
           v == <<n, meta.ino[n].filelength>>
           next == IF copy.left = 1 THEN "ready" ELSE "copy"
<1>1. /\ pc = "copy" /\ ~ aborted /\ TypeOK /\ SInv(Current) /\ FreeInodes(meta) \subseteq FreeInodes(image)
      /\ n \in FreeInodes(image) /\ meta.ino[n].links > 0 /\ meta.ino[n].mode = "file"
      /\ copy.left \in Nat \ {0} /\ copy \in [inum : Inum \cup {0}, left : Nat]
  <2>1. pc = "copy" /\ ~ aborted /\ TypeOK
    BY DEF cpin_block, IInv, RunInv
  <2>2. SInv(Current) /\ FreeInodes(meta) \subseteq FreeInodes(image) /\ Copying
    BY <2>1 DEF IInv, RunInv
  <2>3. copy \in [inum : Inum \cup {0}, left : Nat]
    BY <2>1 DEF TypeOK
  <2>4. copy.left \in Nat \ {0}
    BY <2>1, <2>2, <2>3 DEF Copying
  <2> QED
    BY <2>1, <2>2, <2>3, <2>4 DEF Copying
<1>2. PICK t \in {NextBlock} : Continue(t, next)
  BY DEF cpin_block
<1>3. copy' = [copy EXCEPT !.left = copy.left - 1]
  BY DEF cpin_block
<1>4. copy' \in [inum : Inum \cup {0}, left : Nat] /\ copy'.inum = n /\ copy'.left = copy.left - 1
  BY <1>1, <1>3
<1>5. n \in Inum /\ v \in Inum \X Nat
  <2>1. n \in Inum
    BY <1>1 DEF FreeInodes, Inum
  <2>2. meta.ino[n].filelength \in Nat
    BY <1>1, <2>1 DEF TypeOK, Meta, Inode
  <2> QED
    BY <2>1, <2>2
<1>6. t = write_block(Current, n, v)
  BY <1>2 DEF NextBlock
<1>7. Whole(Current) /\ Current.ino = meta.ino /\ FreeInodes(Current) = FreeInodes(meta)
  BY <1>1, CurrentIs DEF Whole
<1> HIDE DEF v
<1>8. /\ t \in State /\ FreeInodes(t) = FreeInodes(meta)
      /\ t.ino[n].links > 0 /\ t.ino[n].mode = "file"
      /\ \/ t.stop \in {"no", "panic"} /\ SInv(t)
         \/ t.stop = "overrun" /\ meta.ino[n].filelength = Capacity
  BY <1>1, <1>5, <1>6, <1>7, WrittenFile
<1>9. CASE t.stop \in {"no", "panic"}
  <2>1. /\ meta' \in Meta /\ blk' \in [Blocks -> Content] /\ SInv(Current') /\ aborted' = aborted
        /\ pc' = IF t.stop = "no" THEN next ELSE "super"
        /\ image' = image /\ FreeInodes(meta') = FreeInodes(t) /\ SInv(t)
    BY <1>1, <1>2, <1>8, <1>9, GoesOn
  <2>2. pc' \in {"ready", "copy", "super"} /\ (pc' = "copy" => copy'.left > 0)
    BY <1>1, <1>4, <2>1
  <2>3. meta'.ino = t.ino
    BY <1>1, <1>2, <1>8, <1>9, CurrentIs DEF Continue
  <2>4. TypeOK'
    BY <1>1, <1>4, <2>1, <2>2 DEF TypeOK
  <2>5. Copying'
    BY <1>1, <1>4, <1>8, <2>1, <2>2, <2>3 DEF Copying
  <2>6. RunInv'
    BY <1>1, <1>8, <2>1, <2>2, <2>5 DEF RunInv, Synced
  <2> QED
    BY <2>2, <2>4, <2>6 DEF IInv, IndexFaultsAtEnd, NdirectHoldsAddresses
<1>10. CASE t.stop = "overrun"
  <2>1. meta' = meta /\ blk' = t.blk /\ image' = image /\ pc' = "overrun" /\ aborted' = (aborted \/ FALSE)
    BY <1>2, <1>10 DEF Continue
  <2>2. aborted' = aborted
    BY <1>1, <2>1 DEF TypeOK
  <2>3. TypeOK'
    BY <1>1, <1>4, <1>8, <2>1, <2>2 DEF TypeOK, State
  <2>4. Copying'
    BY <1>1, <1>4, <2>1 DEF Copying
  <2>5. RunInv'
    BY <1>1, <2>1, <2>2, <2>4 DEF RunInv, Synced
  <2>6. meta.ino[n].filelength = NDIRECT + BINS + BINS * BINS
    BY <1>8, <1>10 DEF Capacity
  <2> QED
    BY <1>1, <1>4, <2>1, <2>3, <2>5, <2>6 DEF IInv, IndexFaultsAtEnd, NdirectHoldsAddresses
<1> QED
  BY <1>8, <1>9, <1>10

\* What mkuxlfs makes: the root directory and nothing else.
LEMMA InitInv ==
  ASSUME Init
  PROVE  TypeOK /\ SInv(Current) /\ IInv /\ \A n \in Inum : Bare(Current, n)
<1> DEFINE none == [k \in 0 .. (NDIRECT + 1) |-> 0]
           s    == Current
<1>1. /\ s.ino = NewFs.ino /\ s.map = {1} /\ s.free_inodes = TOTAL_INODES - 2 /\ s.free_data = TOTAL_DATA - 1
      /\ s.blk = [b \in Blocks |-> IF b = 1 THEN RootBlock ELSE Zero]
  BY DEF Init, Current, NewFs
<1>2. /\ \A n \in Inum : /\ s.ino[n].links = 0
                         /\ n # ROOT_INODE => /\ s.ino[n].mode = "none" /\ s.ino[n].filelength = 0
                                              /\ \A k \in Key : s.ino[n].addr[k] = 0
      /\ s.ino[ROOT_INODE].mode = "dir" /\ s.ino[ROOT_INODE].filelength = 2
      /\ \A k \in Key : s.ino[ROOT_INODE].addr[k] = IF k = 0 THEN 1 ELSE 0
  <2> DEFINE empty == [mode |-> "none", links |-> 0, filelength |-> 0, addr |-> none]
             root  == [empty EXCEPT !.mode = "dir", !.filelength = 2, !.addr[0] = 1]
  <2>1. s.ino = [n \in Inum |-> IF n = ROOT_INODE THEN root ELSE empty]
    BY <1>1 DEF NewFs
  <2>2. /\ empty.links = 0 /\ empty.mode = "none" /\ empty.filelength = 0 /\ \A k \in Key : empty.addr[k] = 0
    BY DEF Key
  <2>3. /\ root.links = 0 /\ root.mode = "dir" /\ root.filelength = 2
        /\ \A k \in Key : root.addr[k] = IF k = 0 THEN 1 ELSE 0
    BY Numbers DEF Key
  <2> HIDE DEF empty, root
  <2>4. \A n \in Inum : s.ino[n] = IF n = ROOT_INODE THEN root ELSE empty
    BY <2>1
  <2> QED
    BY <2>2, <2>3, <2>4, Numbers
<1>3. NewFs \in Meta
  <2>1. 1 \in Blocks
    BY Numbers DEF Blocks
  <2>2. none \in [0 .. (NDIRECT + 1) -> Blocks \cup {0}]
    OBVIOUS
  <2> DEFINE empty == [mode |-> "none", links |-> 0, filelength |-> 0, addr |-> none]
             root  == [empty EXCEPT !.mode = "dir", !.filelength = 2, !.addr[0] = 1]
  <2>3. empty \in Inode
    BY <2>2 DEF Inode
  <2> HIDE DEF none, empty
  <2>4. empty.addr \in [0 .. (NDIRECT + 1) -> Blocks \cup {0}] /\ 0 \in 0 .. (NDIRECT + 1)
    BY <2>3, Numbers DEF Inode
  <2>5. [empty.addr EXCEPT ![0] = 1] \in [0 .. (NDIRECT + 1) -> Blocks \cup {0}]
    BY <2>1, <2>4
  <2>6. root \in Inode
    BY <2>3, <2>5 DEF Inode
  <2> HIDE DEF empty, root
  <2>7. [n \in Inum |-> IF n = ROOT_INODE THEN root ELSE empty] \in [Inum -> Inode]
    BY <2>3, <2>6
  <2>8. TOTAL_INODES - 2 \in Nat /\ TOTAL_DATA - 1 \in Nat
    BY Numbers
  <2>9. NewFs = [ino |-> [n \in Inum |-> IF n = ROOT_INODE THEN root ELSE empty], map |-> {1},
                 free_inodes |-> TOTAL_INODES - 2, free_data |-> TOTAL_DATA - 1]
    BY DEF NewFs, root, empty, none
  <2> QED
    BY <2>1, <2>7, <2>8, <2>9 DEF Meta
<1>4. /\ RootBlock.kind = "entries" /\ RootBlock \in Content /\ \A x \in 0 .. 1 : RootBlock.at[x].inum = ROOT_INODE /\ RootBlock.at[x].name \in {Dot, DotDot}
  <2> DEFINE Entry == [inum : Inum \cup {0}, name : Names \cup {NoName, Dot, DotDot}]
             f == [j \in 0 .. (EPB - 1) |-> IF j = 0 THEN [inum |-> ROOT_INODE, name |-> Dot]
                    ELSE IF j = 1 THEN [inum |-> ROOT_INODE, name |-> DotDot] ELSE NoEntry]
  <2>1. /\ [inum |-> ROOT_INODE, name |-> Dot] \in Entry /\ [inum |-> ROOT_INODE, name |-> DotDot] \in Entry
        /\ NoEntry \in Entry
    BY Numbers DEF NoEntry
  <2>2. RootBlock = [kind |-> "entries", at |-> f]
    BY DEF RootBlock, Entries
  <2>3. \A x \in 0 .. 1 : f[x].inum = ROOT_INODE /\ f[x].name \in {Dot, DotDot}
    BY Numbers
  <2> HIDE DEF Entry
  <2>4. f \in [0 .. (EPB - 1) -> Entry]
    BY <2>1
  <2> HIDE DEF f
  <2>5. RootBlock \in [kind : {"entries"}, at : [0 .. (EPB - 1) -> Entry]]
    BY <2>2, <2>4
  <2> QED
    BY <2>2, <2>3, <2>5 DEF Content, Entry
<1>5. TypeOK
  <2>1. blk \in [Blocks -> Content]
    BY <1>1, <1>4 DEF Init, Content
  <2>2. copy \in [inum : Inum \cup {0}, left : Nat]
    BY DEF Init
  <2> QED
    BY <1>3, <2>1, <2>2 DEF TypeOK, Init
<1> HIDE DEF none, s
<1>6. s \in State /\ 1 \in Blocks /\ s.blk[1] = RootBlock
  <2>1. 1 \in Blocks
    BY Numbers DEF Blocks
  <2> QED
    BY <1>1, <1>5, <2>1, CurrentIs DEF s
<1>7. Tables(s) = {}
  <2>1. \A n \in Inum : s.ino[n].addr[NDIRECT] = 0 /\ s.ino[n].addr[NDIRECT + 1] = 0
    BY <1>2, Numbers
  <2>2. \A k \in Sub : AddressAt(s.blk, 0, k) = 0
    BY DEF AddressAt
  <2>3. ASSUME NEW p \in Blocks PROVE p \notin Tables(s)
    BY <1>6, <2>1, <2>2, AddressBlockIs, Numbers DEF Tables
  <2> QED
    BY <1>6, <2>3, AddressesOfInode, Numbers DEF Tables
<1>8. Owned(s)
  <2>1. ASSUME NEW r \in Refs(s)
        PROVE  /\ Val(s, r) = IF r = <<"inode", ROOT_INODE, 0>> THEN 1 ELSE 0
    <3>1. PICK n \in Inum, k \in Key : r = <<"inode", n, k>>
      BY <1>6, <1>7, ReferenceIs DEF Refs, Tables
    <3>2. Val(s, r) = s.ino[n].addr[k]
      BY <1>6, <3>1, InodeReference DEF Val
    <3> QED
      BY <1>2, <3>1, <3>2
  <2>2. <<"inode", ROOT_INODE, 0>> \in Refs(s)
    BY <1>6, InodeReference, Numbers DEF Refs
  <2> QED
    BY <1>1, <1>6, <2>1, <2>2, OwnedIs
<1>9. FreeInodes(s) = 2 .. (TOTAL_INODES - 1)
  <2>1. \A n \in 2 .. (TOTAL_INODES - 1) : n \in Inum
    BY Numbers DEF Inum
  <2> QED
    BY <1>2, <2>1 DEF FreeInodes
<1>10. Counted(s)
  <2>1. Cardinality(2 .. (TOTAL_INODES - 1)) = TOTAL_INODES - 2
    <3>1. 2 \in Int /\ TOTAL_INODES - 1 \in Int /\ ~ (2 > TOTAL_INODES - 1) /\ (TOTAL_INODES - 1) - 2 + 1 = TOTAL_INODES - 2
      BY Numbers
    <3> QED
      BY <3>1, FS_Interval
  <2>2. Cardinality(s.map) = 1
    BY <1>1, FS_Singleton
  <2> QED
    BY <1>1, <1>9, <2>1, <2>2 DEF Counted
<1>11. Clean(s)
  BY <1>1, <1>7 DEF Clean, Tables
<1>12. Filled(s) /\ Bare(s, ROOT_INODE)
  <2>1. ASSUME NEW e \in 0 .. 1 PROVE FilledAt(s, ROOT_INODE, e) /\ Shown(s, ROOT_INODE, e).name \in {Dot, DotDot}
    <3>1. e \in Nat /\ e \div EPB = 0 /\ e % EPB = e
      BY Numbers
    <3>2. Phys(s, ROOT_INODE, 0) = 1
      BY <1>2, Numbers DEF Phys, PhysBlock
    <3>3. Shown(s, ROOT_INODE, e) = RootBlock.at[e]
      BY <1>4, <1>6, <3>1, <3>2 DEF Shown, EntryAt, Phys
    <3> QED
      BY <1>2, <1>4, <1>6, <3>1, <3>2, <3>3, Numbers DEF FilledAt
  <2>2. ASSUME NEW n \in Inum, NEW e \in 0 .. (s.ino[n].filelength - 1) PROVE FilledAt(s, n, e)
    <3>1. CASE n = ROOT_INODE
      BY <1>2, <2>1, <3>1
    <3>2. CASE n # ROOT_INODE
      BY <1>2, <3>2
    <3> QED
      BY <3>1, <3>2
  <2>3. Bare(s, ROOT_INODE)
    BY <1>2, <2>1 DEF Bare, TreeNames
  <2> QED
    BY <2>2, <2>3, FilledIs
<1>13. Unused(s)
  <2>1. \A n \in FreeInodes(s) : n \in Inum \ {ROOT_INODE}
    BY <1>6, FreeIs
  <2> QED
    BY <1>1, <1>2, <2>1, Numbers DEF Unused
<1>14. AllNamed(s)
  <2>1. \A n \in 2 .. (TOTAL_INODES - 1) : n \in Inum
    BY Numbers DEF Inum
  <2> QED
    BY <1>2, <2>1 DEF AllNamed
<1>17. Sole(s) /\ \A n \in Inum : Bare(s, n)
  <2>1. \A n \in Inum : Bare(s, n)
    <3> TAKE n \in Inum
    <3>1. CASE n # ROOT_INODE
      BY <1>2, <3>1 DEF Bare
    <3> QED
      BY <1>12, <3>1
  <2> QED
    BY <2>1, SoleIs DEF Bare
<1>15. SInv(s)
  BY <1>8, <1>10, <1>11, <1>12, <1>13, <1>14, <1>17 DEF SInv
<1>16. IInv
  BY <1>5, <1>15 DEF Init, IInv, RunInv, Synced, IndexFaultsAtEnd, NdirectHoldsAddresses, s
<1> QED
  BY <1>5, <1>15, <1>16, <1>17 DEF s

\* mount_fs, sync_fs and what it writes.
LEMMA MountStep ==
  ASSUME IInv, mount_fs
  PROVE  IInv'
<1>1. pc = "off" /\ pc' = "ready" /\ meta' = image /\ UNCHANGED <<image, blk, copy, aborted>> /\ TypeOK
  BY DEF mount_fs, IInv
<1>2. TypeOK'
  BY <1>1 DEF TypeOK
<1>3. RunInv'
  <2>1. CASE aborted
    BY <1>1, <2>1 DEF RunInv
  <2>2. CASE ~ aborted
    <3>1. meta = image /\ SInv(Current)
      BY <1>1, <2>2 DEF IInv, RunInv, Synced
    <3>2. meta' = meta /\ blk' = blk
      BY <1>1, <3>1
    <3>3. Current' = Current
      BY <3>2 DEF Current
    <3>4. FreeInodes(meta') = FreeInodes(image')
      BY <1>1
    <3> QED
      BY <1>1, <2>2, <3>1, <3>3, <3>4 DEF RunInv, Synced
  <2> QED
    BY <2>1, <2>2
<1> QED
  BY <1>1, <1>2, <1>3 DEF IInv, IndexFaultsAtEnd, NdirectHoldsAddresses

\* What sync_fs writes, one write after the other, keeps the invariant.
LEMMA SyncStep ==
  ASSUME IInv, sync_fs \/ sync_super \/ sync_inodes \/ sync_bitmap
  PROVE  IInv'
<1>1. UNCHANGED <<meta, blk, copy, aborted>> /\ pc \notin {"copy", "overrun"} /\ TypeOK
  BY DEF sync_fs, sync_super, sync_inodes, sync_bitmap, IInv
<1>2. pc' \in {"super", "inodes", "bitmap", "off"}
  BY DEF sync_fs, sync_super, sync_inodes, sync_bitmap
<1>3. image' \in Meta
  <2>1. meta \in Meta /\ image \in Meta
    BY <1>1 DEF TypeOK
  <2> QED
    BY <2>1 DEF sync_fs, sync_super, sync_inodes, sync_bitmap, Meta
<1>4. TypeOK'
  BY <1>1, <1>2, <1>3 DEF TypeOK
<1>5. RunInv'
  <2>1. CASE aborted
    BY <1>1, <1>2, <2>1 DEF RunInv
  <2>2. CASE ~ aborted
    <3>1. SInv(Current) /\ Current' = Current
      BY <1>1, <2>2 DEF IInv, RunInv, Current
    <3>2. Synced /\ meta \in Meta /\ image \in Meta
      BY <1>1, <2>2 DEF IInv, RunInv, TypeOK
    <3>3. ASSUME sync_fs PROVE Synced'
      BY <3>3 DEF sync_fs, Synced
    <3>4. ASSUME sync_super PROVE Synced'
      <4>1. pc' = "inodes" /\ image' = [image EXCEPT !.free_inodes = meta.free_inodes, !.free_data = meta.free_data]
        BY <3>4 DEF sync_super
      <4>2. image'.free_inodes = meta.free_inodes /\ image'.free_data = meta.free_data
        BY <3>2, <4>1 DEF Meta
      <4> QED
        BY <1>1, <4>1, <4>2 DEF Synced
    <3>5. ASSUME sync_inodes PROVE Synced'
      <4>1. pc = "inodes" /\ pc' = "bitmap" /\ image' = [image EXCEPT !.ino = meta.ino]
        BY <3>5 DEF sync_inodes
      <4>2. image'.ino = meta.ino /\ image'.free_inodes = image.free_inodes /\ image'.free_data = image.free_data
        BY <3>2, <4>1 DEF Meta
      <4> QED
        BY <1>1, <3>2, <4>1, <4>2 DEF Synced
    <3>6. ASSUME sync_bitmap PROVE Synced'
      <4>1. pc = "bitmap" /\ pc' = "off" /\ image' = [image EXCEPT !.map = meta.map]
        BY <3>6 DEF sync_bitmap
      <4>2. /\ image'.map = meta.map /\ image'.ino = image.ino
            /\ image'.free_inodes = image.free_inodes /\ image'.free_data = image.free_data
        BY <3>2, <4>1 DEF Meta
      <4>3. /\ image'.ino = meta.ino /\ image'.free_inodes = meta.free_inodes /\ image'.free_data = meta.free_data
        BY <3>2, <4>1, <4>2 DEF Synced
      <4>4. image' = meta
        BY <1>3, <3>2, <4>2, <4>3 DEF Meta
      <4> QED
        BY <1>1, <4>1, <4>4 DEF Synced
    <3>7. Synced'
      BY <3>3, <3>4, <3>5, <3>6, Zenon
    <3> QED
      BY <1>1, <1>2, <2>2, <3>1, <3>7 DEF RunInv
  <2> QED
    BY <2>1, <2>2
<1> QED
  BY <1>2, <1>4, <1>5 DEF IInv, IndexFaultsAtEnd, NdirectHoldsAddresses

\* Whatever a run had not written is lost: `aborted', if it had written any.
LEMMA KilledStep ==
  ASSUME IInv, killed
  PROVE  IInv'
<1>1. /\ pc' = "off" /\ meta' = image /\ aborted' = (aborted \/ meta # image)
      /\ UNCHANGED <<image, blk, copy>> /\ TypeOK
  BY DEF killed, IInv
<1>2. TypeOK'
  BY <1>1 DEF TypeOK
<1>3. RunInv'
  <2>1. CASE aborted'
    BY <1>1, <2>1 DEF RunInv
  <2>2. CASE ~ aborted'
    <3>1. ~ aborted /\ meta = image
      BY <1>1, <2>2
    <3>2. pc # "overrun"
      <4> SUFFICES ASSUME pc = "overrun" PROVE FALSE
        OBVIOUS
      <4>1. copy.inum \in FreeInodes(image) /\ meta.ino[copy.inum].links > 0
        BY <3>1 DEF IInv, RunInv, Copying
      <4>2. meta.ino[copy.inum].links = 0
        BY <3>1, <4>1 DEF FreeInodes
      <4> QED
        BY <4>1, <4>2
    <3>3. SInv(Current)
      BY <3>1, <3>2 DEF IInv, RunInv
    <3>4. Current' = Current
      BY <1>1, <3>1 DEF Current
    <3> QED
      BY <1>1, <2>2, <3>3, <3>4 DEF RunInv, Synced
  <2> QED
    BY <2>1, <2>2
<1> QED
  BY <1>1, <1>2, <1>3 DEF IInv, IndexFaultsAtEnd, NdirectHoldsAddresses

-----------------------------------------------------------------------------
(* The tree *)

\* Paths are of the names that are not . and .., which cpdir_in skips.
PlainNames == Dot \notin Names /\ DotDot \notin Names

Steady(s) == s \in State /\ Filled(s)

\* The first k names of the path lead from the root to x.
Reaches(s, path, k, x) == \E g : Walk(s, path, k, g) /\ g[k] = {x}

\* Nothing happened is a case of Later.
LEMMA LaterSame ==
  ASSUME NEW s, Steady(s)
  PROVE  Later(s, s)
<1>1. \A n \in Inum : s.ino[n].filelength \in Nat
  BY AddressesOfInode DEF Inode, Steady
<1> QED
  BY <1>1, KeptSame DEF Later, Steady

\* A walk ends nowhere, or at one inode, and any other walk ends there too.
LEMMA WalkEnds ==
  ASSUME NEW s, Steady(s), NEW path, NEW k, NamedPath(path, k),
         NEW g, Walk(s, path, k, g), g[k] # {}
  PROVE  /\ \E x \in Inum : g[k] = {x}
         /\ \A h : Walk(s, path, k, h) => h[k] = g[k]
<1>1. \A h : Walk(s, path, k, h) => \E x \in Inum : g[k] = {x} /\ h[k] = {x}
  BY LaterSame, WalkKept
<1> QED
  BY <1>1

\* No name leads to the root alone ...
LEMMA ReachesRoot ==
  ASSUME NEW s, NEW path, NEW x
  PROVE  Reaches(s, path, 0, x) <=> x = ROOT_INODE
<1>1. ASSUME Reaches(s, path, 0, x) PROVE x = ROOT_INODE
  BY <1>1 DEF Reaches, Walk
<1>2. ASSUME x = ROOT_INODE PROVE Reaches(s, path, 0, x)
  <2> DEFINE g == [i \in {0} |-> {ROOT_INODE}]
  <2>1. g[0] = {ROOT_INODE}
    OBVIOUS
  <2> HIDE DEF g
  <2>2. Walk(s, path, 0, g)
    BY <2>1 DEF Walk
  <2> QED
    BY <1>2, <2>1, <2>2 DEF Reaches
<1> QED
  BY <1>1, <1>2

\* ... and one more leads on by what the directory says of it.
LEMMA ReachesNext ==
  ASSUME NEW s, Steady(s), NEW path, NEW k, NamedPath(path, k), k # 0, NEW x
  PROVE  Reaches(s, path, k, x) <=> \E n \in Inum : Reaches(s, path, k - 1, n) /\ Lookup(s, n, path[k]) = {x}
<1>0. k \in Nat /\ k \in 1 .. k /\ NamedPath(path, k - 1)
  BY DEF NamedPath
<1>1. ASSUME Reaches(s, path, k, x)
      PROVE  \E n \in Inum : Reaches(s, path, k - 1, n) /\ Lookup(s, n, path[k]) = {x}
  <2>1. PICK g : Walk(s, path, k, g) /\ g[k] = {x}
    BY <1>1 DEF Reaches
  <2>2. Walk(s, path, k - 1, g)
    BY <1>0, <2>1 DEF Walk
  <2>3. g[k] = UNION { Lookup(s, n, path[k]) : n \in g[k - 1] }
    BY <1>0, <2>1 DEF Walk
  <2>4. g[k - 1] # {}
    BY <2>1, <2>3
  <2>5. PICK n \in Inum : g[k - 1] = {n}
    BY <1>0, <2>2, <2>4, WalkEnds
  <2>6. Lookup(s, n, path[k]) = {x}
    BY <2>1, <2>3, <2>5
  <2> QED
    BY <2>2, <2>5, <2>6 DEF Reaches
<1>2. ASSUME NEW n \in Inum, Reaches(s, path, k - 1, n), Lookup(s, n, path[k]) = {x}
      PROVE  Reaches(s, path, k, x)
  <2>1. PICK g : Walk(s, path, k - 1, g) /\ g[k - 1] = {n}
    BY <1>2 DEF Reaches
  <2> DEFINE h == [i \in 0 .. k |-> IF i = k THEN {x} ELSE g[i]]
  <2>2. h[k] = {x} /\ \A i \in 0 .. (k - 1) : h[i] = g[i]
    BY <1>0
  <2> HIDE DEF h
  <2>3. ASSUME NEW i \in 1 .. k
        PROVE  h[i] = UNION { Lookup(s, m, path[i]) : m \in h[i - 1] }
    <3>1. h[i - 1] = g[i - 1]
      BY <1>0, <2>2
    <3>2. CASE i = k
      BY <1>2, <2>1, <2>2, <3>1, <3>2
    <3>3. CASE i # k
      <4>1. i \in 1 .. (k - 1) /\ h[i] = g[i]
        BY <1>0, <2>2, <3>3
      <4> QED
        BY <2>1, <3>1, <4>1 DEF Walk
    <3> QED
      BY <3>2, <3>3
  <2>4. h[0] = {ROOT_INODE}
    <3>1. h[0] = g[0]
      BY <1>0, <2>2
    <3> QED
      BY <2>1, <3>1 DEF Walk
  <2>5. Walk(s, path, k, h)
    BY <2>3, <2>4 DEF Walk
  <2> QED
    BY <2>2, <2>5 DEF Reaches
<1> QED
  BY <1>1, <1>2

\* What is reached is an inode, and one only.
LEMMA ReachesOne ==
  ASSUME NEW s, Steady(s), NEW path, NEW k, NamedPath(path, k), NEW x, Reaches(s, path, k, x)
  PROVE  x \in Inum /\ \A y : Reaches(s, path, k, y) => y = x
<1>1. PICK g : Walk(s, path, k, g) /\ g[k] = {x}
  BY DEF Reaches
<1>2. /\ \E y \in Inum : g[k] = {y}
      /\ \A h : Walk(s, path, k, h) => h[k] = g[k]
  BY <1>1, WalkEnds
<1>3. ASSUME NEW y, Reaches(s, path, k, y) PROVE y = x
  <2>1. PICK h : Walk(s, path, k, h) /\ h[k] = {y}
    BY <1>3 DEF Reaches
  <2> QED
    BY <1>1, <1>2, <2>1
<1> QED
  BY <1>1, <1>2, <1>3

\* A path, by its names.
LEMMA PathIs ==
  ASSUME NEW path \in Paths
  PROVE  /\ Len(path) \in Nat /\ Len(path) # 0 /\ NamedPath(path, Len(path)) /\ path \in Seq(Names)
         /\ Last(path) = path[Len(path)] /\ Last(path) \in Names
         /\ Len(Front(path)) = Len(path) - 1 /\ Front(path) \in Seq(Names)
         /\ \A i \in 1 .. (Len(path) - 1) : Front(path)[i] = path[i]
         /\ Front(path) = <<>> \/ Front(path) \in Paths
<1>1. PICK l \in 1 .. MaxDepth : path \in [1 .. l -> Names]
  BY DEF Paths
<1>2. l \in Nat /\ l >= 1 /\ l <= MaxDepth /\ MaxDepth \in Nat /\ Len(path) = l /\ path \in Seq(Names)
  <2>1. l \in Nat /\ l >= 1 /\ MaxDepth \in Nat /\ l <= MaxDepth
    BY UxlFsAssumption DEF UxlFsAssumption
  <2>2. path \in Seq(Names)
    BY <1>1, <2>1
  <2>3. Len(path) = l
    BY <1>1, <2>1, <2>2
  <2> QED
    BY <2>1, <2>2, <2>3
<1>3. NamedPath(path, l) /\ Last(path) = path[l] /\ path[l] \in Names
  BY <1>1, <1>2 DEF NamedPath, Last
<1>4. /\ Len(Front(path)) = l - 1 /\ Front(path) \in Seq(Names)
      /\ \A i \in 1 .. (l - 1) : Front(path)[i] = path[i]
  BY <1>2 DEF Front
<1>5. Front(path) = <<>> \/ Front(path) \in Paths
  <2>1. CASE l = 1
    BY <1>4, <2>1
  <2>2. CASE l # 1
    <3>1. l - 1 \in 1 .. MaxDepth
      BY <1>2, <2>2
    <3>2. Front(path) \in [1 .. (l - 1) -> Names]
      BY <1>2, <1>4
    <3> QED
      BY <3>1, <3>2 DEF Paths
  <2> QED
    BY <2>1, <2>2
<1> QED
  BY <1>2, <1>3, <1>4, <1>5

\* iname, in the words of Reaches.
LEMMA InameReaches ==
  ASSUME NEW s, Steady(s), NEW path, Len(path) \in Nat, NamedPath(path, Len(path))
  PROVE  /\ iname(s.ino, s.blk, path) = {} \/ \E x \in Inum : iname(s.ino, s.blk, path) = {x}
         /\ \A x : iname(s.ino, s.blk, path) = {x} <=> Reaches(s, path, Len(path), x)
<1>1. PICK g : Walk(s, path, Len(path), g) /\ iname(s.ino, s.blk, path) = g[Len(path)]
  BY InameIs
<1>2. g[Len(path)] # {} => \E x \in Inum : g[Len(path)] = {x}
  BY <1>1, WalkEnds
<1>3. ASSUME NEW x, Reaches(s, path, Len(path), x) PROVE g[Len(path)] = {x}
  <2>1. PICK h : Walk(s, path, Len(path), h) /\ h[Len(path)] = {x}
    BY <1>3 DEF Reaches
  <2>2. h[Len(path)] # {}
    BY <2>1
  <2>3. g[Len(path)] = h[Len(path)]
    BY <1>1, <2>1, <2>2, WalkEnds
  <2> QED
    BY <2>1, <2>3
<1> QED
  BY <1>1, <1>2, <1>3 DEF Reaches

\* The last name of the way is an entry, of something finished.
LEMMA ReachesLast ==
  ASSUME PlainNames, NEW s, Steady(s), NEW path, NEW k, NamedPath(path, k), k # 0, NEW x, Reaches(s, path, k, x)
  PROVE  \E n \in Inum : \E e \in 0 .. (s.ino[n].filelength - 1) :
           /\ Reaches(s, path, k - 1, n) /\ Shown(s, n, e).name = path[k] /\ path[k] \in TreeNames
           /\ Shown(s, n, e).inum = x
<1>1. PICK n \in Inum : Reaches(s, path, k - 1, n) /\ Lookup(s, n, path[k]) = {x}
  BY ReachesNext
<1>2. s \in State
  BY DEF Steady
<1>3. Lookup(s, n, path[k]) # {}
  BY <1>1
<1>4. PICK e \in 0 .. (s.ino[n].filelength - 1) :
        /\ Shown(s, n, e).name = path[k]
        /\ \A y \in 0 .. (s.ino[n].filelength - 1) : Shown(s, n, y).name = path[k] => e <= y
  BY <1>2, <1>3, LookupIs
<1>5. Lookup(s, n, path[k]) = {Shown(s, n, e).inum}
  BY <1>2, <1>4, LookupIs
<1>6. path[k] \in TreeNames
  BY DEF NamedPath, PlainNames, TreeNames
<1> QED
  BY <1>1, <1>4, <1>5, <1>6

\* One way leads to an inode.
LEMMA OneWay ==
  ASSUME PlainNames, NEW s, Steady(s), Sole(s), NEW x,
         NEW path, NEW k, NamedPath(path, k), Reaches(s, path, k, x),
         NEW other, NEW l, NamedPath(other, l), Reaches(s, other, l, x)
  PROVE  k = l /\ \A i \in 1 .. k : path[i] = other[i]
<1> DEFINE Two(j, p, q, m, y) ==
             /\ NamedPath(p, j) /\ NamedPath(q, m) /\ Reaches(s, p, j, y) /\ Reaches(s, q, m, y)
             /\ ~ (j = m /\ \A i \in 1 .. j : p[i] = q[i])
           T == { j \in Nat : \E p, q, m, y : Two(j, p, q, m, y) }
<1>0. k \in Nat
  BY DEF NamedPath
<1> SUFFICES ASSUME T # {} PROVE FALSE
  BY <1>0
<1>1. PICK j \in T : \A m \in T : j <= m
  BY LeastNat
<1>2. PICK p, q, m, y : Two(j, p, q, m, y)
  BY <1>1
<1>3. j \in Nat /\ m \in Nat
  BY <1>1, <1>2 DEF NamedPath
<1>4. j # 0 => y # ROOT_INODE
  BY <1>2, ReachesLast, SoleIs
<1>5. m # 0 => y # ROOT_INODE
  BY <1>2, ReachesLast, SoleIs
<1>6. (j = 0 => y = ROOT_INODE) /\ (m = 0 => y = ROOT_INODE)
  BY <1>2, ReachesRoot
<1>7. j # 0 /\ m # 0
  BY <1>2, <1>3, <1>4, <1>5, <1>6
<1> DEFINE At(w, i, d, f) ==
      Reaches(s, w, i - 1, d) /\ Shown(s, d, f).name = w[i] /\ w[i] \in TreeNames /\ Shown(s, d, f).inum = y
<1>8a. PICK n \in Inum : \E e \in 0 .. (s.ino[n].filelength - 1) : At(p, j, n, e)
  BY <1>2, <1>7, ReachesLast
<1>8. PICK e \in 0 .. (s.ino[n].filelength - 1) : At(p, j, n, e)
  BY <1>8a
<1>9a. PICK d \in Inum : \E f \in 0 .. (s.ino[d].filelength - 1) : At(q, m, d, f)
  BY <1>2, <1>7, ReachesLast
<1>9. PICK f \in 0 .. (s.ino[d].filelength - 1) : At(q, m, d, f)
  BY <1>9a
<1>10. n = d /\ e = f
  BY <1>8, <1>9, SoleIs
<1>11. p[j] = q[m] /\ Reaches(s, q, m - 1, n)
  BY <1>8, <1>9, <1>10
<1>12. j - 1 \in Nat /\ j - 1 \notin T /\ NamedPath(p, j - 1) /\ NamedPath(q, m - 1)
  <2>1. j - 1 \in Nat /\ ~ (j <= j - 1) /\ m - 1 \in Nat
    BY <1>3, <1>7
  <2>2. j - 1 \notin T
    BY <1>1, <2>1
  <2>3. NamedPath(p, j - 1) /\ NamedPath(q, m - 1)
    BY <1>2, <1>3, <2>1 DEF NamedPath
  <2> QED
    BY <2>1, <2>2, <2>3
<1>13. ~ Two(j - 1, p, q, m - 1, n)
  BY <1>12
<1>14. j - 1 = m - 1 /\ \A i \in 1 .. (j - 1) : p[i] = q[i]
  BY <1>8, <1>11, <1>12, <1>13
<1>15. j = m /\ \A i \in 1 .. j : p[i] = q[i]
  BY <1>3, <1>11, <1>14
<1> QED
  BY <1>2, <1>15

\* The first names decide.
LEMMA ReachesPrefix ==
  ASSUME NEW s, NEW path, NEW other, NEW k \in Nat, \A i \in 1 .. k : path[i] = other[i], NEW x,
         Reaches(s, path, k, x)
  PROVE  Reaches(s, other, k, x)
<1>1. PICK g : Walk(s, path, k, g) /\ g[k] = {x}
  BY DEF Reaches
<1>2. Walk(s, other, k, g)
  BY <1>1 DEF Walk
<1> QED
  BY <1>1, <1>2 DEF Reaches

\* The same names, the same ways.
LEMMA ReachesSame ==
  ASSUME PlainNames, NEW s, Steady(s), NEW t, Steady(t), SameNames(s, t),
         NEW path, NEW k, NamedPath(path, k), NEW x
  PROVE  Reaches(s, path, k, x) <=> Reaches(t, path, k, x)
<1> DEFINE Differs(j, p, y) == NamedPath(p, j) /\ ~ (Reaches(s, p, j, y) <=> Reaches(t, p, j, y))
           T == { j \in Nat : \E p, y : Differs(j, p, y) }
<1>0. k \in Nat
  BY DEF NamedPath
<1> SUFFICES ASSUME T # {} PROVE FALSE
  BY <1>0
<1>1. PICK j \in T : \A m \in T : j <= m
  BY LeastNat
<1>2. PICK p, y : Differs(j, p, y)
  BY <1>1
<1>3. j # 0
  BY <1>2, ReachesRoot
<1>4. j - 1 \in Nat /\ j - 1 \notin T
  BY <1>1, <1>3
<1>5. NamedPath(p, j - 1)
  BY <1>2, <1>4 DEF NamedPath
<1>6. \A n : Reaches(s, p, j - 1, n) <=> Reaches(t, p, j - 1, n)
  BY <1>4, <1>5
<1>7. p[j] \in TreeNames
  <2>1. j \in 1 .. j
    BY <1>1, <1>3
  <2> QED
    BY <1>2, <2>1 DEF NamedPath, PlainNames, TreeNames
<1>8. \A n \in Inum : Lookup(t, n, p[j]) = Lookup(s, n, p[j])
  BY <1>7 DEF SameNames
<1>9. Reaches(s, p, j, y) <=> \E n \in Inum : Reaches(s, p, j - 1, n) /\ Lookup(s, n, p[j]) = {y}
  BY <1>2, <1>3, ReachesNext
<1>10. Reaches(t, p, j, y) <=> \E n \in Inum : Reaches(t, p, j - 1, n) /\ Lookup(t, n, p[j]) = {y}
  BY <1>2, <1>3, ReachesNext
<1> QED
  BY <1>2, <1>6, <1>8, <1>9, <1>10

\* One name more, one way more.
LEMMA ReachesMore ==
  ASSUME PlainNames, NEW s, Steady(s), NEW r, Steady(r), NEW dir \in Inum, NEW name \in TreeNames,
         NEW num, NEW type, Added(s, r, dir, name, num, type),
         NEW path, NEW k, NamedPath(path, k), NEW x
  PROVE  Reaches(r, path, k, x) <=>
           \/ Reaches(s, path, k, x)
           \/ k # 0 /\ path[k] = name /\ Reaches(s, path, k - 1, dir) /\ x = num
<1> DEFINE More(p, j, y) == j # 0 /\ p[j] = name /\ Reaches(s, p, j - 1, dir) /\ y = num
           Differs(j, p, y) == NamedPath(p, j) /\ ~ (Reaches(r, p, j, y) <=> Reaches(s, p, j, y) \/ More(p, j, y))
           T == { j \in Nat : \E p, y : Differs(j, p, y) }
<1>0. k \in Nat
  BY DEF NamedPath
<1> SUFFICES ASSUME T # {} PROVE FALSE
  BY <1>0
<1>1. PICK j \in T : \A m \in T : j <= m
  BY LeastNat
<1>2. PICK p, y : Differs(j, p, y)
  BY <1>1
<1>3. j # 0
  BY <1>2, ReachesRoot
<1>4. j - 1 \in Nat /\ j - 1 \notin T
  BY <1>1, <1>3
<1>5. NamedPath(p, j - 1)
  BY <1>2, <1>4 DEF NamedPath
<1>6. \A n : Reaches(r, p, j - 1, n) <=> Reaches(s, p, j - 1, n) \/ More(p, j - 1, n)
  BY <1>4, <1>5
<1>7. p[j] \in TreeNames
  <2>1. j \in 1 .. j
    BY <1>1, <1>3
  <2> QED
    BY <1>2, <2>1 DEF NamedPath, PlainNames, TreeNames
<1>8. /\ \A n \in Inum : n # dir \/ p[j] # name => Lookup(r, n, p[j]) = Lookup(s, n, p[j])
      /\ Lookup(r, num, p[j]) = {} /\ Lookup(s, dir, name) = {} /\ Lookup(r, dir, name) = {num}
  BY <1>7 DEF Added
<1>9. Reaches(s, p, j, y) <=> \E n \in Inum : Reaches(s, p, j - 1, n) /\ Lookup(s, n, p[j]) = {y}
  BY <1>2, <1>3, ReachesNext
<1>10. Reaches(r, p, j, y) <=> \E n \in Inum : Reaches(r, p, j - 1, n) /\ Lookup(r, n, p[j]) = {y}
  BY <1>2, <1>3, ReachesNext
<1>11. ASSUME Reaches(r, p, j, y) PROVE Reaches(s, p, j, y) \/ More(p, j, y)
  <2>1. PICK n \in Inum : Reaches(r, p, j - 1, n) /\ Lookup(r, n, p[j]) = {y}
    BY <1>10, <1>11
  <2>2. n # num
    BY <1>8, <2>1
  <2>3. Reaches(s, p, j - 1, n)
    BY <1>6, <2>1, <2>2
  <2>4. CASE n = dir /\ p[j] = name
    <3>1. {num} = {y}
      BY <1>8, <2>1, <2>4
    <3>2. y = num
      BY <3>1
    <3> QED
      BY <1>3, <2>3, <2>4, <3>2
  <2>5. CASE n # dir \/ p[j] # name
    BY <1>8, <1>9, <2>1, <2>3, <2>5
  <2> QED
    BY <2>4, <2>5
<1>12. ASSUME Reaches(s, p, j, y) PROVE Reaches(r, p, j, y)
  <2>1. PICK n \in Inum : Reaches(s, p, j - 1, n) /\ Lookup(s, n, p[j]) = {y}
    BY <1>9, <1>12
  <2>2. n # dir \/ p[j] # name
    BY <1>8, <2>1
  <2>3. Reaches(r, p, j - 1, n)
    BY <1>6, <2>1
  <2> QED
    BY <1>8, <1>10, <2>1, <2>2, <2>3
<1>13. ASSUME More(p, j, y) PROVE Reaches(r, p, j, y)
  <2>1. Reaches(r, p, j - 1, dir)
    BY <1>6, <1>13
  <2>2. Lookup(r, dir, p[j]) = {y}
    BY <1>8, <1>13
  <2> QED
    BY <1>10, <2>1, <2>2
<1> QED
  BY <1>2, <1>11, <1>12, <1>13


\* A block that an index led to is where it was.
LEMMA PhysKept ==
  ASSUME NEW s \in State, NEW t \in State, Way(s, t), NEW n \in Inum, NEW i \in Nat, Phys(s, n, i) # 0
  PROVE  Phys(t, n, i) = Phys(s, n, i)
<1>0. 0 \notin Tables(s) /\ NDIRECT \in Key /\ NDIRECT + 1 \in Key
  BY AddressesOfInode, Numbers DEF Tables
<1>1. PICK r \in Refs(s) : LeafAt(s, n, i, r)
  BY LeafIs DEF Phys
<1>2. CASE DirectAt(s, n, i, r)
  <2>1. Phys(s, n, i) = s.ino[n].addr[i] /\ Phys(t, n, i) = t.ino[n].addr[i] /\ i \in Key
    BY <1>2, PhysBlockIs DEF DirectAt, Phys
  <2> QED
    BY <2>1 DEF Way
<1>3. CASE SingleAt(s, n, i, r)
  <2> DEFINE p == s.ino[n].addr[NDIRECT]
             k == i - NDIRECT
  <2>1. p \in Tables(s) /\ p # 0 /\ k \in Sub
    BY <1>0, <1>3 DEF SingleAt
  <2>2. t.ino[n].addr[NDIRECT] = p
    BY <1>0, <2>1 DEF Way
  <2>3. Phys(s, n, i) = AddressAt(s.blk, p, k) /\ Phys(t, n, i) = AddressAt(t.blk, p, k)
    BY <1>3, <2>2, PhysBlockIs DEF SingleAt, Phys
  <2> HIDE DEF p, k
  <2> QED
    BY <2>1, <2>3 DEF Way
<1>4. CASE DoubledAt(s, n, i, r)
  <2> DEFINE top == s.ino[n].addr[NDIRECT + 1]
             a   == DoubleAt(i) \div BINS
             k   == DoubleAt(i) % BINS
             p   == MiddleOf(s, n, i)
  <2>1. /\ top \in Tables(s) /\ top # 0 /\ p \in Tables(s) /\ p # 0 /\ a \in Sub /\ k \in Sub
        /\ p = AddressAt(s.blk, top, a) /\ i >= NDIRECT + BINS
    BY <1>0, <1>4 DEF DoubledAt, MiddleOf
  <2>2. t.ino[n].addr[NDIRECT + 1] = top
    BY <1>0, <2>1 DEF Way
  <2>3. /\ Phys(t, n, i) = AddressAt(t.blk, AddressAt(t.blk, top, a), k)
        /\ Phys(s, n, i) = AddressAt(s.blk, AddressAt(s.blk, top, a), k)
    BY <2>1, <2>2, PhysBlockIs DEF Phys
  <2> HIDE DEF top, a, k, p
  <2>4. AddressAt(t.blk, top, a) = p
    BY <2>1 DEF Way
  <2> QED
    BY <2>1, <2>3, <2>4 DEF Way
<1> QED
  BY <1>1, <1>2, <1>3, <1>4 DEF LeafAt

\* What cpdir_out would copy of an inode, block by block ...
DataAt(s, n, i) ==
  LET p == Phys(s, n, i)
  IN IF p = 0 THEN <<0, 0>> ELSE IF s.blk[p].kind = "data" THEN s.blk[p].value ELSE <<0, 0>>

Node(s, n) == NodeOf(s.ino, s.blk, n)

LEMMA NodeIs ==
  ASSUME NEW s, NEW n
  PROVE  /\ (s.ino[n].mode = "dir" => Node(s, n) = [kind |-> "dir", data |-> <<>>])
         /\ (s.ino[n].mode # "dir" =>
               Node(s, n) = [kind |-> "file", data |-> [k \in 1 .. s.ino[n].filelength |-> DataAt(s, n, k - 1)]])
BY DEF Node, NodeOf, DataAt, Phys

\* ... is what it was, for what was there.
LEMMA DataKept ==
  ASSUME NEW s, Steady(s), NEW t \in State, Kept(s, t), NEW n \in Inum, s.ino[n].mode = "file",
         NEW i \in 0 .. (s.ino[n].filelength - 1)
  PROVE  DataAt(t, n, i) = DataAt(s, n, i)
<1>1. s \in State /\ Filled(s)
  BY DEF Steady
<1>2. i \in Nat
  BY <1>1, EntryIs
<1>3. Phys(s, n, i) # 0
  BY <1>1, FilledIs DEF FilledAt
<1>4. Phys(t, n, i) = Phys(s, n, i)
  BY <1>1, <1>2, <1>3, PhysKept DEF Kept
<1>5. t.blk[Phys(t, n, i)] = s.blk[Phys(s, n, i)]
  BY DEF Kept, Same
<1> QED
  BY <1>3, <1>4, <1>5 DEF DataAt

LEMMA NodeKept ==
  ASSUME NEW s, Steady(s), NEW t \in State, Kept(s, t), NEW n \in Inum, s.ino[n].mode # "none",
         t.ino[n].mode = s.ino[n].mode, s.ino[n].mode = "file" => t.ino[n].filelength = s.ino[n].filelength
  PROVE  Node(t, n) = Node(s, n)
<1>1. t.ino[n].mode = s.ino[n].mode /\ (s.ino[n].mode = "file" => t.ino[n].filelength = s.ino[n].filelength)
  OBVIOUS
<1>2. CASE s.ino[n].mode = "dir"
  BY <1>1, <1>2, NodeIs
<1>3. CASE s.ino[n].mode # "dir"
  <2>1. s.ino[n].mode = "file" /\ s.ino[n].filelength \in Nat
    BY <1>3, AddressesOfInode DEF Steady, Inode
  <2> DEFINE l == s.ino[n].filelength
  <2>2. ASSUME NEW k \in 1 .. l PROVE DataAt(t, n, k - 1) = DataAt(s, n, k - 1)
    <3>1. k - 1 \in 0 .. (l - 1)
      BY <2>1
    <3> QED
      BY <2>1, <3>1, DataKept
  <2>3. t.ino[n].filelength = l
    BY <1>1, <2>1
  <2>4. /\ Node(s, n) = [kind |-> "file", data |-> [k \in 1 .. l |-> DataAt(s, n, k - 1)]]
        /\ Node(t, n) = [kind |-> "file", data |-> [k \in 1 .. l |-> DataAt(t, n, k - 1)]]
    BY <1>1, <1>3, <2>3, NodeIs
  <2>5. [k \in 1 .. l |-> DataAt(s, n, k - 1)] = [k \in 1 .. l |-> DataAt(t, n, k - 1)]
    BY <2>2
  <2> QED
    BY <2>4, <2>5
<1> QED
  BY <1>2, <1>3

\* The tree of files of a state.
Tree(s, path) ==
  LET at == iname(s.ino, s.blk, path)
  IN IF at = {} THEN [kind |-> "none", data |-> <<>>] ELSE The({ Node(s, n) : n \in at })

TreeMap(s) == [path \in Paths |-> Tree(s, path)]

\* What a path leads to.
LEMMA TreeIs ==
  ASSUME NEW s, Steady(s), NEW path \in Paths
  PROVE  /\ \A x : Reaches(s, path, Len(path), x) => Tree(s, path) = Node(s, x)
         /\ (\A x \in Inum : ~ Reaches(s, path, Len(path), x)) => Tree(s, path) = [kind |-> "none", data |-> <<>>]
<1>1. Len(path) \in Nat /\ NamedPath(path, Len(path))
  BY PathIs
<1>2. ASSUME NEW x, Reaches(s, path, Len(path), x) PROVE Tree(s, path) = Node(s, x)
  <2>1. iname(s.ino, s.blk, path) = {x}
    BY <1>1, <1>2, InameReaches
  <2>2. Tree(s, path) = The({Node(s, x)})
    BY <2>1 DEF Tree
  <2>3. \A v : The({v}) = v
    BY DEF The
  <2> QED
    BY <2>2, <2>3
<1>3. ASSUME \A x \in Inum : ~ Reaches(s, path, Len(path), x)
      PROVE  Tree(s, path) = [kind |-> "none", data |-> <<>>]
  <2>1. iname(s.ino, s.blk, path) = {}
    BY <1>1, <1>3, InameReaches
  <2> QED
    BY <2>1 DEF Tree
<1> QED
  BY <1>2, <1>3

\* Names lead to what is finished.
Finished(s) ==
  \A n \in Inum : \A x \in 0 .. (s.ino[n].filelength - 1) :
    Shown(s, n, x).name \in TreeNames => s.ino[Shown(s, n, x).inum].mode # "none"

LEMMA ReachesFinished ==
  ASSUME PlainNames, NEW s, Steady(s), Finished(s), NEW path, NEW k, NamedPath(path, k), k # 0,
         NEW x, Reaches(s, path, k, x)
  PROVE  x \in Inum /\ s.ino[x].mode # "none"
<1> DEFINE Is(n, e) == /\ Reaches(s, path, k - 1, n) /\ Shown(s, n, e).name = path[k] /\ path[k] \in TreeNames
                       /\ Shown(s, n, e).inum = x
<1>1. PICK n \in Inum : \E e \in 0 .. (s.ino[n].filelength - 1) : Is(n, e)
  BY ReachesLast
<1>2. PICK e \in 0 .. (s.ino[n].filelength - 1) : Is(n, e)
  BY <1>1
<1> QED
  BY <1>2, ReachesOne DEF Finished

\* Where names and what they lead to are the same, so is the tree.
LEMMA TreeSame ==
  ASSUME PlainNames, NEW s, Steady(s), Finished(s), NEW t, Steady(t), SameNames(s, t), Kept(s, t), Beside(s, t)
  PROVE  TreeMap(t) = TreeMap(s)
<1>1. ASSUME NEW path \in Paths PROVE Tree(t, path) = Tree(s, path)
  <2>1. NamedPath(path, Len(path)) /\ Len(path) # 0
    BY PathIs
  <2>2. \A x : Reaches(s, path, Len(path), x) <=> Reaches(t, path, Len(path), x)
    BY <2>1, ReachesSame
  <2>3. CASE \E x \in Inum : Reaches(s, path, Len(path), x)
    <3>1. PICK x \in Inum : Reaches(s, path, Len(path), x)
      BY <2>3
    <3>2. s.ino[x].mode # "none"
      BY <2>1, <3>1, ReachesFinished
    <3>3. Node(t, x) = Node(s, x)
      BY <3>2, NodeKept DEF Steady, Beside
    <3>4. Tree(s, path) = Node(s, x) /\ Tree(t, path) = Node(t, x)
      BY <2>2, <3>1, TreeIs
    <3> QED
      BY <3>3, <3>4
  <2>4. CASE \A x \in Inum : ~ Reaches(s, path, Len(path), x)
    <3>1. Tree(s, path) = [kind |-> "none", data |-> <<>>] /\ Tree(t, path) = [kind |-> "none", data |-> <<>>]
      BY <2>2, <2>4, TreeIs
    <3> QED
      BY <3>1
  <2> QED
    BY <2>3, <2>4
<1> QED
  BY <1>1 DEF TreeMap


\* With one name more, the tree has one node more, in a directory of it.
LEMMA TreeMade ==
  ASSUME PlainNames, NEW s, Whole(s), NEW path \in Paths, NEW type \in {"dir", "file"}, NEW r, Extended(s, r),
         NEW num, NEW dir \in Inum, iname(s.ino, s.blk, Front(path)) = {dir}, s.ino[dir].mode = "dir",
         Added(s, r, dir, Last(path), num, type)
  PROVE  /\ \A q \in Paths \ {path} : TreeMap(r)[q] = TreeMap(s)[q]
         /\ TreeMap(s)[path] = [kind |-> "none", data |-> <<>>]
         /\ TreeMap(r)[path] = [kind |-> type, data |-> <<>>]
         /\ Front(path) # <<>> =>
              Front(path) \in Paths /\ TreeMap(s)[Front(path)] = [kind |-> "dir", data |-> <<>>]
<1> DEFINE l == Len(path)
           name == Last(path)
<1>1. /\ Steady(s) /\ Steady(r) /\ Sole(s) /\ Kept(s, r) /\ Beside(s, r) /\ s \in State /\ r \in State
      /\ num \in FreeInodes(s) /\ num \in Inum
  <2>1. Steady(s) /\ Steady(r) /\ Sole(s) /\ Kept(s, r) /\ Beside(s, r) /\ s \in State /\ r \in State
    BY DEF Whole, Extended, Steady, SInv, Later
  <2>2. num \in FreeInodes(s)
    BY DEF Added
  <2> QED
    BY <2>1, <2>2, FreeIs
<1>2. Finished(s)
  BY <1>1, SoleIs DEF Finished
<1>3. /\ l \in Nat /\ l # 0 /\ NamedPath(path, l) /\ name = path[l] /\ name \in TreeNames
      /\ Len(Front(path)) = l - 1 /\ l - 1 \in Nat /\ \A i \in 1 .. (l - 1) : Front(path)[i] = path[i]
      /\ Front(path) = <<>> \/ Front(path) \in Paths
  <2>1. l \in Nat /\ l # 0 /\ name \in Names
    BY PathIs
  <2>2. l - 1 \in Nat /\ name \in TreeNames
    BY <2>1 DEF PlainNames, TreeNames
  <2> QED
    BY <2>2, PathIs
<1>4. NamedPath(path, l - 1) /\ NamedPath(Front(path), Len(Front(path)))
  <2>1. \A i \in 1 .. (l - 1) : i \in 1 .. l
    BY <1>3
  <2> QED
    BY <1>3, <2>1 DEF NamedPath
<1>5. Reaches(s, Front(path), l - 1, dir)
  BY <1>1, <1>3, <1>4, InameReaches
<1>6. Reaches(s, path, l - 1, dir)
  BY <1>3, <1>5, ReachesPrefix
<1>7. \A q \in Paths : NamedPath(q, Len(q)) /\ Len(q) \in Nat /\ Len(q) # 0
  BY PathIs
<1>8. ASSUME NEW q \in Paths, NEW x
      PROVE  Reaches(r, q, Len(q), x) <=>
               \/ Reaches(s, q, Len(q), x)
               \/ q[Len(q)] = name /\ Reaches(s, q, Len(q) - 1, dir) /\ x = num
  BY <1>1, <1>3, <1>7, ReachesMore
<1> HIDE DEF l, name
<1>9. ASSUME NEW q \in Paths \ {path}, q[Len(q)] = name, Reaches(s, q, Len(q) - 1, dir)
      PROVE  FALSE
  <2>1. Len(q) - 1 \in Nat /\ NamedPath(q, Len(q) - 1) /\ Len(q) \in Nat /\ q \in Seq(Names) /\ path \in Seq(Names)
    <3>1. Len(q) - 1 \in Nat /\ \A i \in 1 .. (Len(q) - 1) : i \in 1 .. Len(q)
      BY <1>7
    <3> QED
      BY <1>7, <3>1, PathIs DEF NamedPath
  <2>2. Len(q) - 1 = l - 1 /\ \A i \in 1 .. (l - 1) : q[i] = path[i]
    BY <1>1, <1>4, <1>6, <1>9, <2>1, OneWay
  <2>3. Len(q) = l
    BY <1>3, <2>1, <2>2
  <2>4. \A i \in 1 .. l : q[i] = path[i]
    BY <1>3, <1>9, <2>2, <2>3
  <2>5. q = path
    BY <2>1, <2>3, <2>4 DEF l
  <2> QED
    BY <2>5
<1>10. ASSUME NEW q \in Paths \ {path} PROVE Tree(r, q) = Tree(s, q)
  <2>1. \A x : Reaches(r, q, Len(q), x) <=> Reaches(s, q, Len(q), x)
    BY <1>8, <1>9
  <2>2. CASE \E x \in Inum : Reaches(s, q, Len(q), x)
    <3>1. PICK x \in Inum : Reaches(s, q, Len(q), x)
      BY <2>2
    <3>2. s.ino[x].mode # "none"
      BY <1>1, <1>2, <1>7, <3>1, ReachesFinished
    <3>3. Node(r, x) = Node(s, x)
      BY <1>1, <3>2, NodeKept DEF Beside
    <3>4. Tree(s, q) = Node(s, x) /\ Tree(r, q) = Node(r, x)
      BY <1>1, <2>1, <3>1, TreeIs
    <3> QED
      BY <3>3, <3>4
  <2>3. CASE \A x \in Inum : ~ Reaches(s, q, Len(q), x)
    <3>1. Tree(s, q) = [kind |-> "none", data |-> <<>>] /\ Tree(r, q) = [kind |-> "none", data |-> <<>>]
      BY <1>1, <2>1, <2>3, TreeIs
    <3> QED
      BY <3>1
  <2> QED
    BY <2>2, <2>3
<1>11. Tree(s, path) = [kind |-> "none", data |-> <<>>]
  <2>1. ASSUME NEW x \in Inum, Reaches(s, path, l, x) PROVE FALSE
    <3>1. PICK n \in Inum : Reaches(s, path, l - 1, n) /\ Lookup(s, n, path[l]) = {x}
      <4>1. Steady(s) /\ NamedPath(path, l) /\ l # 0
        BY <1>1, <1>3
      <4> QED
        BY <2>1, <4>1, ReachesNext
    <3>2. n = dir
      BY <1>1, <1>4, <1>6, <3>1, ReachesOne
    <3>3. Lookup(s, dir, name) = {}
      BY DEF Added, name
    <3> QED
      BY <1>3, <3>1, <3>2, <3>3
  <2> QED
    BY <1>1, <2>1, TreeIs DEF l
<1>12. Tree(r, path) = [kind |-> type, data |-> <<>>]
  <2>1. Reaches(r, path, l, num)
    BY <1>3, <1>6, <1>8 DEF l
  <2>2. Tree(r, path) = Node(r, num)
    BY <1>1, <2>1, TreeIs DEF l
  <2>3. r.ino[num].mode = type /\ (type = "file" => r.ino[num].filelength = 0)
    BY DEF Added
  <2>4. CASE type = "dir"
    BY <2>2, <2>3, <2>4, NodeIs
  <2>5. CASE type = "file"
    <3> DEFINE d == [k \in 1 .. 0 |-> DataAt(r, num, k - 1)]
    <3>1. Node(r, num) = [kind |-> "file", data |-> d]
      BY <2>3, <2>5, NodeIs
    <3>2. d = <<>>
      OBVIOUS
    <3> QED
      BY <2>2, <2>5, <3>1, <3>2
  <2> QED
    BY <2>4, <2>5
<1>13. ASSUME Front(path) # <<>>
       PROVE  Front(path) \in Paths /\ Tree(s, Front(path)) = [kind |-> "dir", data |-> <<>>]
  <2>1. Front(path) \in Paths
    BY <1>3, <1>13
  <2>2. Tree(s, Front(path)) = Node(s, dir)
    BY <1>1, <1>3, <1>5, <2>1, TreeIs
  <2>3. Node(s, dir) = [kind |-> "dir", data |-> <<>>]
    BY NodeIs
  <2> QED
    BY <2>1, <2>2, <2>3
<1> QED
  BY <1>10, <1>11, <1>12, <1>13 DEF TreeMap

\* With one block more of a file, what a path leads to, if one does, is longer.
LEMMA TreeExtended ==
  ASSUME PlainNames, NEW s, Steady(s), Sole(s), NEW t, Steady(t), Kept(s, t), SameNames(s, t),
         NEW n \in Inum, s.ino[n].mode = "file", t.ino[n].filelength = s.ino[n].filelength + 1,
         \A m \in Inum : t.ino[m].mode = s.ino[m].mode,
         \A m \in Inum \ {n} : t.ino[m].filelength = s.ino[m].filelength
  PROVE  \/ TreeMap(t) = TreeMap(s)
         \/ \E q \in Paths :
              /\ \A p \in Paths \ {q} : TreeMap(t)[p] = TreeMap(s)[p]
              /\ TreeMap(s)[q].kind = "file" /\ TreeMap(t)[q].kind = "file" /\ TreeMap(t)[q] # TreeMap(s)[q]
              /\ TreeMap(t)[q].data # <<>> /\ Front(TreeMap(t)[q].data) = TreeMap(s)[q].data
<1>0. Finished(s) /\ s \in State /\ t \in State
  BY SoleIs DEF Finished, Steady
<1>1. \A q \in Paths : NamedPath(q, Len(q)) /\ Len(q) \in Nat /\ Len(q) # 0 /\ q \in Seq(Names)
  BY PathIs
<1>2. \A q \in Paths : \A x : Reaches(s, q, Len(q), x) <=> Reaches(t, q, Len(q), x)
  BY <1>1, ReachesSame
<1>3. ASSUME NEW q \in Paths, ~ Reaches(s, q, Len(q), n) PROVE Tree(t, q) = Tree(s, q)
  <2>1. CASE \E x \in Inum : Reaches(s, q, Len(q), x)
    <3>1. PICK x \in Inum : Reaches(s, q, Len(q), x)
      BY <2>1
    <3>2. s.ino[x].mode # "none"
      BY <1>0, <1>1, <3>1, ReachesFinished
    <3>3. x # n
      BY <1>3, <3>1
    <3>4. Node(t, x) = Node(s, x)
      BY <1>0, <3>2, <3>3, NodeKept
    <3>5. Tree(s, q) = Node(s, x) /\ Tree(t, q) = Node(t, x)
      BY <1>2, <3>1, TreeIs
    <3> QED
      BY <3>4, <3>5
  <2>2. CASE \A x \in Inum : ~ Reaches(s, q, Len(q), x)
    <3>1. Tree(s, q) = [kind |-> "none", data |-> <<>>] /\ Tree(t, q) = [kind |-> "none", data |-> <<>>]
      BY <1>2, <2>2, TreeIs
    <3> QED
      BY <3>1
  <2> QED
    BY <2>1, <2>2
<1>4. ASSUME NEW q \in Paths, Reaches(s, q, Len(q), n), NEW p \in Paths \ {q} PROVE ~ Reaches(s, p, Len(p), n)
  <2> SUFFICES ASSUME Reaches(s, p, Len(p), n) PROVE FALSE
    OBVIOUS
  <2>1. Len(q) = Len(p) /\ \A i \in 1 .. Len(q) : q[i] = p[i]
    BY <1>1, <1>4, OneWay
  <2>2. q = p
    BY <1>1, <2>1
  <2> QED
    BY <2>2
<1>5. ASSUME NEW q \in Paths, Reaches(s, q, Len(q), n)
      PROVE  /\ Tree(s, q).kind = "file" /\ Tree(t, q).kind = "file" /\ Tree(t, q) # Tree(s, q)
             /\ Tree(t, q).data # <<>> /\ Front(Tree(t, q).data) = Tree(s, q).data
  <2> DEFINE l == s.ino[n].filelength
             d == [k \in 1 .. l |-> DataAt(s, n, k - 1)]
             e == [k \in 1 .. (l + 1) |-> DataAt(t, n, k - 1)]
             D == { d[k] : k \in 1 .. l } \cup { e[k] : k \in 1 .. (l + 1) }
  <2>1. Tree(s, q) = Node(s, n) /\ Tree(t, q) = Node(t, n)
    BY <1>2, <1>5, TreeIs
  <2>2. Node(s, n) = [kind |-> "file", data |-> d] /\ Node(t, n) = [kind |-> "file", data |-> e]
    BY NodeIs
  <2>3. l \in Nat
    BY <1>0, AddressesOfInode DEF Inode
  <2>4. ASSUME NEW k \in 1 .. l PROVE e[k] = d[k]
    <3>1. k - 1 \in 0 .. (l - 1) /\ k \in 1 .. (l + 1)
      BY <2>3
    <3>2. DataAt(t, n, k - 1) = DataAt(s, n, k - 1)
      BY <1>0, <3>1, DataKept
    <3> QED
      BY <3>1, <3>2
  <2>5. d \in [1 .. l -> D] /\ e \in [1 .. (l + 1) -> D]
    OBVIOUS
  <2> HIDE DEF d, e, D, l
  <2>6. d \in Seq(D) /\ Len(d) = l /\ e \in Seq(D) /\ Len(e) = l + 1
    <3>1. d \in Seq(D) /\ e \in Seq(D)
      BY <2>3, <2>5
    <3> QED
      BY <2>3, <2>5, <3>1
  <2>7. e # <<>> /\ e # d
    BY <2>3, <2>6
  <2>8. Front(e) = d
    <3>1. Front(e) \in Seq(D) /\ Len(Front(e)) = l /\ \A k \in 1 .. l : Front(e)[k] = e[k]
      BY <2>3, <2>6 DEF Front
    <3> QED
      BY <2>3, <2>4, <2>6, <3>1
  <2> QED
    BY <2>1, <2>2, <2>7, <2>8
<1>6. CASE \E q \in Paths : Reaches(s, q, Len(q), n)
  <2>1. PICK q \in Paths : Reaches(s, q, Len(q), n)
    BY <1>6
  <2>2. \A p \in Paths \ {q} : TreeMap(t)[p] = TreeMap(s)[p]
    BY <1>3, <1>4, <2>1 DEF TreeMap
  <2> QED
    BY <1>5, <2>1, <2>2 DEF TreeMap
<1>7. CASE \A q \in Paths : ~ Reaches(s, q, Len(q), n)
  BY <1>3, <1>7 DEF TreeMap
<1> QED
  BY <1>6, <1>7


-----------------------------------------------------------------------------
(* What is saved *)

\* The inodes that were saved, over the blocks as they are.
Back(t, ino) == [t EXCEPT !.ino = ino]

Past(ino, t) == Later(Back(t, ino), t) /\ Finished(Back(t, ino))

\* Only inodes and blocks make a tree.
LEMMA TreeAlike ==
  ASSUME NEW s, NEW t, s.ino = t.ino, s.blk = t.blk
  PROVE  TreeMap(s) = TreeMap(t)
BY DEF TreeMap, Tree, Node

LEMMA BackIs ==
  ASSUME NEW t \in State, NEW ino
  PROVE  /\ Back(t, ino).ino = ino /\ Back(t, ino).blk = t.blk
         /\ (ino \in [Inum -> Inode] => Back(t, ino) \in State)
         /\ Back(t, t.ino) = t
BY DEF State, Back

LEMMA PastAlike ==
  ASSUME NEW ino, NEW t, Past(ino, t), NEW u \in State, Alike(t, u)
  PROVE  Past(ino, u)
<1> DEFINE s == Back(t, ino)
           r == Back(u, ino)
<1>1. t \in State /\ s \in State /\ Filled(s) /\ Kept(s, t) /\ Finished(s)
      /\ \A n \in Inum : s.ino[n].filelength <= t.ino[n].filelength
  BY DEF Past, Later
<1>2. s.ino = ino /\ r.ino = ino /\ s.blk = t.blk /\ r.blk = u.blk /\ u.ino = t.ino /\ u.blk = t.blk
  BY <1>1, BackIs DEF Alike
<1>3. ino \in [Inum -> Inode]
  BY <1>1, <1>2 DEF State
<1>4. r \in State
  BY <1>3, BackIs
<1> HIDE DEF s, r
<1>5. Filled(r) /\ Finished(r)
  BY <1>1, <1>2 DEF Filled, Finished, Shown
<1>6. Kept(r, u)
  BY <1>1, <1>2 DEF Kept, Way, Same, Shown, Phys, Tables
<1>7. Later(r, u)
  BY <1>1, <1>2, <1>4, <1>5, <1>6 DEF Later
<1> QED
  BY <1>5, <1>7 DEF Past, r

\* What a run begins with is saved.
LEMMA PastSelf ==
  ASSUME NEW s, Steady(s), Sole(s)
  PROVE  Past(s.ino, s)
<1>1. Back(s, s.ino) = s
  BY BackIs DEF Steady
<1>2. Finished(s)
  BY SoleIs DEF Finished
<1> QED
  BY <1>1, <1>2, LaterSame DEF Past

\* No call changes what was saved.
LEMMA PastStays ==
  ASSUME PlainNames, NEW ino, NEW s, Past(ino, s), NEW t, Later(s, t)
  PROVE  Past(ino, t) /\ TreeMap(Back(t, ino)) = TreeMap(Back(s, ino))
<1> DEFINE u == Back(s, ino)
           w == Back(t, ino)
<1>1. /\ s \in State /\ t \in State /\ u \in State /\ Filled(u) /\ Kept(u, s) /\ Kept(s, t) /\ Finished(u)
      /\ \A n \in Inum : u.ino[n].filelength <= s.ino[n].filelength /\ s.ino[n].filelength <= t.ino[n].filelength
  BY DEF Past, Later
<1>2. u.ino = ino /\ w.ino = ino /\ w.blk = t.blk /\ w \in State
  <2>1. u.ino = ino /\ w.ino = ino /\ w.blk = t.blk
    BY <1>1, BackIs
  <2>2. ino \in [Inum -> Inode]
    BY <1>1, <2>1 DEF State
  <2> QED
    BY <1>1, <2>1, <2>2, BackIs
<1> HIDE DEF u, w
<1>3. Kept(u, t)
  BY <1>1, KeptFurther
<1>4. Way(u, w) /\ Way(w, t)
  BY <1>2, <1>3 DEF Kept, Way
<1>5. ASSUME NEW n \in Inum, NEW i \in Nat, Phys(u, n, i) # 0
      PROVE  Phys(w, n, i) = Phys(u, n, i) /\ Phys(t, n, i) = Phys(u, n, i)
  BY <1>1, <1>2, <1>3, <1>4, <1>5, PhysKept DEF Kept
<1>6. ASSUME NEW n \in Inum, NEW x \in 0 .. (u.ino[n].filelength - 1)
      PROVE  /\ Shown(t, n, x) = Shown(u, n, x) /\ Shown(w, n, x) = Shown(u, n, x) /\ FilledAt(w, n, x)
             /\ u.ino[n].mode = "file" =>
                  /\ w.blk[Phys(w, n, x)] = u.blk[Phys(u, n, x)]
                  /\ t.ino[n].mode = "file" /\ t.blk[Phys(t, n, x)] = w.blk[Phys(w, n, x)]
  <2>1. x \in Nat /\ x \div EPB \in Nat /\ Phys(u, n, x \div EPB) # 0
    BY <1>1, EntryIs, Numbers
  <2>2. Phys(w, n, x \div EPB) = Phys(u, n, x \div EPB) /\ Phys(t, n, x \div EPB) = Phys(u, n, x \div EPB)
    BY <1>5, <2>1
  <2>3. Shown(w, n, x) = Shown(t, n, x)
    BY <1>2, <2>2 DEF Shown, EntryAt, Phys
  <2>4. Shown(t, n, x) = Shown(u, n, x)
    BY <1>3 DEF Kept
  <2>5. FilledAt(u, n, x)
    BY <1>1, FilledIs
  <2>6. CASE u.ino[n].mode = "file"
    <3>1. Phys(u, n, x) # 0 /\ u.blk[Phys(u, n, x)].kind = "data"
      BY <2>5, <2>6 DEF FilledAt
    <3>2. Phys(w, n, x) = Phys(u, n, x) /\ Phys(t, n, x) = Phys(u, n, x)
      BY <1>5, <2>1, <3>1
    <3>3. t.ino[n].mode = "file" /\ t.blk[Phys(t, n, x)] = u.blk[Phys(u, n, x)]
      BY <1>3, <2>6 DEF Kept, Same
    <3>4. FilledAt(w, n, x)
      BY <1>2, <2>6, <3>1, <3>2, <3>3 DEF FilledAt
    <3> QED
      BY <1>2, <2>3, <2>4, <3>2, <3>3, <3>4
  <2>7. CASE u.ino[n].mode # "file"
    <3>1. Shown(u, n, x).inum \in Inum
      BY <2>5, <2>7 DEF FilledAt
    <3>2. Shown(w, n, x).inum \in Inum
      BY <2>3, <2>4, <3>1
    <3>3. w.blk[Phys(w, n, x \div EPB)].kind = "entries"
      <4>1. ASSUME w.blk[Phys(w, n, x \div EPB)].kind # "entries" PROVE Shown(w, n, x) = NoEntry
        BY <4>1 DEF Shown, EntryAt, Phys
      <4>2. NoEntry.inum \notin Inum
        BY Numbers DEF NoEntry
      <4> QED
        BY <3>2, <4>1, <4>2
    <3>4. FilledAt(w, n, x)
      BY <1>2, <2>1, <2>2, <2>7, <3>2, <3>3 DEF FilledAt
    <3> QED
      BY <2>3, <2>4, <2>7, <3>4
  <2> QED
    BY <2>6, <2>7
<1>7. Filled(w) /\ Finished(w)
  <2>1. \A n \in Inum : \A x \in 0 .. (w.ino[n].filelength - 1) : FilledAt(w, n, x) /\ Shown(w, n, x) = Shown(u, n, x)
    BY <1>2, <1>6
  <2>2. Finished(w)
    BY <1>1, <1>2, <2>1 DEF Finished
  <2> QED
    BY <2>1, <2>2, FilledIs
<1>8. Kept(w, t)
  <2>2. \A n \in Inum : w.ino[n].mode = "file" => t.ino[n].mode = "file"
    BY <1>2, <1>3 DEF Kept, Same
  <2>1. Same(w, t)
    BY <1>2, <1>6, <2>2 DEF Same
  <2> QED
    BY <1>2, <1>4, <1>6, <2>1 DEF Kept
<1>9. Later(w, t)
  <2>1. ASSUME NEW n \in Inum PROVE w.ino[n].filelength <= t.ino[n].filelength
    <3>1. /\ u.ino[n].filelength \in Nat /\ s.ino[n].filelength \in Nat /\ t.ino[n].filelength \in Nat
      BY <1>1, AddressesOfInode DEF Inode
    <3> QED
      BY <1>1, <1>2, <3>1
  <2> QED
    BY <1>1, <1>2, <1>7, <1>8, <2>1 DEF Later
<1>10. Kept(u, w)
  <2>1. Same(u, w)
    BY <1>2, <1>6 DEF Same
  <2> QED
    BY <1>4, <1>6, <2>1 DEF Kept
<1>11. SameNames(u, w)
  <2>1. ASSUME NEW n \in Inum, NEW name PROVE Lookup(w, n, name) = Lookup(u, n, name)
    BY <1>2, <1>6, LookupSame
  <2> QED
    BY <2>1 DEF SameNames
<1>12. Beside(u, w)
  BY <1>2 DEF Beside
<1>13. TreeMap(w) = TreeMap(u)
  BY <1>1, <1>2, <1>7, <1>10, <1>11, <1>12, TreeSame DEF Steady
<1> QED
  BY <1>7, <1>9, <1>13 DEF Past, u, w


-----------------------------------------------------------------------------
(* Steps of the tree *)

\* What a run finds on disk is what was saved, as long as it goes on.
Saved == ~ aborted /\ pc \in {"ready", "copy"} => Past(image.ino, Current)

\* The tree in memory and the saved one, before a step and after it.
LEMMA TreesAre ==
  ASSUME TypeOK, TypeOK'
  PROVE  /\ TreeOf(meta.ino) = TreeMap(Current) /\ TreeOf(meta.ino)' = TreeMap(Current')
         /\ TreeOf(image.ino) = TreeMap(Back(Current, image.ino))
         /\ TreeOf(image.ino)' = TreeMap(Back(Current', image.ino'))
<1>1. Current \in State /\ Current.ino = meta.ino /\ Current.blk = blk
  BY CurrentIs
<1>2. Current' \in State /\ Current'.ino = meta.ino' /\ Current'.blk = blk'
  BY DEF TypeOK, Meta, Current, State
<1>3. /\ Back(Current, image.ino).ino = image.ino /\ Back(Current, image.ino).blk = blk
      /\ Back(Current', image.ino').ino = image.ino' /\ Back(Current', image.ino').blk = blk'
  BY <1>1, <1>2, BackIs
<1>4. ASSUME NEW s, s.ino = meta.ino, s.blk = blk PROVE TreeOf(meta.ino) = TreeMap(s)
  BY <1>4 DEF TreeOf, TreeMap, Tree, Node
<1>5. ASSUME NEW s, s.ino = image.ino, s.blk = blk PROVE TreeOf(image.ino) = TreeMap(s)
  BY <1>5 DEF TreeOf, TreeMap, Tree, Node
<1>6. ASSUME NEW s, s.ino = meta.ino', s.blk = blk' PROVE TreeOf(meta.ino)' = TreeMap(s)
  BY <1>6 DEF TreeOf, TreeMap, Tree, Node
<1>7. ASSUME NEW s, s.ino = image.ino', s.blk = blk' PROVE TreeOf(image.ino)' = TreeMap(s)
  BY <1>7 DEF TreeOf, TreeMap, Tree, Node
<1> HIDE DEF Current
<1> QED
  BY <1>1, <1>2, <1>3, <1>4, <1>5, <1>6, <1>7

\* The saved tree is left as it is by a call that goes on from what there was.
LEMMA SavedStays ==
  ASSUME PlainNames, TypeOK, TypeOK', Past(image.ino, Current), NEW t, Later(Current, t),
         image' = image, blk' = t.blk
  PROVE  TreeOf(image.ino)' = TreeOf(image.ino) /\ Past(image.ino, t)
<1>1. t \in State /\ Current' \in State /\ Current'.blk = blk'
  BY DEF Later, TypeOK, Meta, Current, State
<1>2. Past(image.ino, t) /\ TreeMap(Back(t, image.ino)) = TreeMap(Back(Current, image.ino))
  BY PastStays
<1>3. TreeMap(Back(Current', image.ino)) = TreeMap(Back(t, image.ino))
  <2>1. /\ Back(Current', image.ino).ino = Back(t, image.ino).ino
        /\ Back(Current', image.ino).blk = Back(t, image.ino).blk
    BY <1>1, BackIs
  <2> QED
    BY <2>1, TreeAlike
<1> QED
  BY <1>2, <1>3, TreesAre

\* A run begins with what was saved.
LEMMA TreeMount ==
  ASSUME IInv, IInv', mount_fs
  PROVE  UNCHANGED Abs!tvars /\ Saved'
<1>1. pc = "off" /\ pc' = "ready" /\ meta' = image /\ UNCHANGED <<image, blk, copy, aborted>>
  BY DEF mount_fs
<1>2. TreeOf(meta.ino)' = TreeOf(image.ino) /\ TreeOf(image.ino)' = TreeOf(image.ino)
  BY <1>1 DEF TreeOf
<1>3. ASSUME ~ aborted' PROVE Past(image.ino', Current')
  <2>1. SInv(Current') /\ Current' \in State /\ Current'.ino = meta.ino'
    BY <1>1, <1>3 DEF IInv, RunInv, TypeOK, Meta, Current, State
  <2>2. Current'.ino = image.ino'
    BY <1>1, <2>1
  <2> QED
    BY <2>1, <2>2, PastSelf DEF Steady, SInv
<1> QED
  BY <1>1, <1>2, <1>3 DEF Saved, Abs!tvars

\* Without sync_fs, a run leaves what was saved; after it, what it saved.
LEMMA TreeEnd ==
  ASSUME image'.ino = image.ino, blk' = blk, pc' = "off"
  PROVE  Abs!RollBack /\ Saved'
<1>1. TreeOf(image.ino)' = TreeOf(image.ino)
  BY DEF TreeOf
<1> QED
  BY <1>1 DEF Abs!RollBack, Saved

\* sync_fs saves when it writes the inodes.
LEMMA TreeSync ==
  ASSUME TypeOK, sync_fs \/ sync_super \/ sync_inodes
  PROVE  [Abs!TNext]_(Abs!tvars) /\ Saved'
<1>1. pc \in {"ready", "super", "inodes"} /\ pc' \in {"super", "inodes", "bitmap"} /\ meta' = meta /\ blk' = blk
  BY DEF sync_fs, sync_super, sync_inodes
<1>2. TreeOf(meta.ino)' = TreeOf(meta.ino)
  BY <1>1 DEF TreeOf
<1>3. Saved'
  BY <1>1 DEF Saved
<1>4. CASE sync_fs \/ sync_super
  <2>1. image'.ino = image.ino
    <3>1. image \in Meta
      BY DEF TypeOK
    <3> QED
      BY <1>4, <3>1 DEF sync_fs, sync_super, Meta
  <2>2. TreeOf(image.ino)' = TreeOf(image.ino)
    BY <1>1, <2>1 DEF TreeOf
  <2>3. UNCHANGED Abs!tvars
    BY <1>1, <1>2, <2>2 DEF Abs!tvars
  <2> QED
    BY <1>3, <2>3
<1>5. CASE sync_inodes
  <2>1. image'.ino = meta.ino
    <3>1. image \in Meta
      BY DEF TypeOK
    <3> QED
      BY <1>5, <3>1 DEF sync_inodes, Meta
  <2>2. TreeOf(image.ino)' = TreeOf(meta.ino)
    BY <1>1, <2>1 DEF TreeOf
  <2>3. Abs!Save
    BY <1>1, <1>2, <2>2 DEF Abs!Save
  <2> QED
    BY <1>3, <2>3 DEF Abs!TNext
<1> QED
  BY <1>4, <1>5


\* After a function that went on or found the disk full, memory and disk are
\* what it answered.
LEMMA TreeContinues ==
  ASSUME PlainNames, TypeOK, TypeOK', ~ aborted, pc \in {"ready", "copy"}, Saved,
         NEW r, Later(Current, r), r.stop \in {"no", "panic"},
         NEW next \in {"ready", "copy"}, Continue(r, next)
  PROVE  /\ Saved' /\ TreeOf(image.ino)' = TreeOf(image.ino)
         /\ TreeOf(meta.ino) = TreeMap(Current) /\ TreeOf(meta.ino)' = TreeMap(r)
         /\ pc # "off" /\ pc' # "off"
<1>1. r \in State
  BY DEF Later
<1>2. meta' = MetaOf(r) /\ blk' = r.blk /\ image' = image
  BY DEF Continue
<1>3. pc' \in {"ready", "copy", "super"}
  BY DEF Continue
<1>4. Alike(r, Current') /\ Current' \in State
  <2>1. Alike(r, Current')
    BY <1>1, <1>2, CurrentIs DEF Alike, Current
  <2>2. Current' \in State
    BY DEF TypeOK, Meta, Current, State
  <2> QED
    BY <2>1, <2>2
<1>5. Past(image.ino, Current)
  BY DEF Saved
<1>6. TreeOf(image.ino)' = TreeOf(image.ino) /\ Past(image.ino, r)
  BY <1>2, <1>5, SavedStays
<1>7. Past(image.ino', Current')
  BY <1>2, <1>4, <1>6, PastAlike
<1>8. TreeMap(Current') = TreeMap(r)
  BY <1>4, TreeAlike DEF Alike
<1> QED
  BY <1>3, <1>6, <1>7, <1>8, TreesAre DEF Saved

\* mkdir, touch and what cpin begins with add a node to the tree, or none.
LEMMA TreeCreate ==
  ASSUME PlainNames, IInv, IInv', Saved, pc = "ready", ~ aborted,
         NEW path \in Paths, NEW type \in {"dir", "file"}, NEW r, Created(Current, path, type, r),
         NEW next \in {"ready", "copy"}, Continue(r, next)
  PROVE  [Abs!TNext]_(Abs!tvars) /\ Saved'
<1>0. TypeOK /\ TypeOK' /\ Whole(Current) /\ Current \in State /\ Sole(Current) /\ Steady(Current)
  <2>1. TypeOK /\ TypeOK' /\ SInv(Current)
    BY DEF IInv, RunInv
  <2> QED
    BY <2>1, CurrentIs DEF Whole, Steady, SInv
<1>1. CASE Refused(Current, r)
  <2>1. blk' = blk /\ image' = image /\ pc' = "off"
    BY <1>0, <1>1, GivesUp
  <2> QED
    BY <2>1, TreeEnd DEF Abs!TNext
<1>2. ASSUME Extended(Current, r)
      PROVE  /\ Saved' /\ TreeOf(image.ino)' = TreeOf(image.ino)
             /\ TreeOf(meta.ino) = TreeMap(Current) /\ TreeOf(meta.ino)' = TreeMap(r)
             /\ pc # "off" /\ pc' # "off"
  BY <1>0, <1>2, TreeContinues DEF Extended
<1>3. CASE Extended(Current, r) /\ r.stop = "panic"
  <2>1. SameNames(Current, r) /\ Beside(Current, r) /\ Kept(Current, r) /\ Steady(r)
    BY <1>3 DEF Extended, Later, Steady, SInv
  <2>2. Finished(Current)
    BY <1>0, SoleIs DEF Finished
  <2>3. TreeMap(r) = TreeMap(Current)
    BY <1>0, <2>1, <2>2, TreeSame
  <2> QED
    BY <1>2, <1>3, <2>3 DEF Abs!tvars
<1>4. CASE Extended(Current, r) /\ r.stop = "no"
  <2>1. PICK num \in FreeInodes(Current), dir \in Inum :
          /\ iname(Current.ino, Current.blk, Front(path)) = {dir} /\ Current.ino[dir].mode = "dir"
          /\ Added(Current, r, dir, Last(path), num, type)
    BY <1>4 DEF Created, Refused
  <2> DEFINE W == TreeMap(Current)
             V == TreeMap(r)
  <2>2. /\ \A q \in Paths \ {path} : V[q] = W[q]
        /\ W[path] = [kind |-> "none", data |-> <<>>] /\ V[path] = [kind |-> type, data |-> <<>>]
        /\ Front(path) # <<>> => Front(path) \in Paths /\ W[Front(path)] = [kind |-> "dir", data |-> <<>>]
    BY <1>0, <1>4, <2>1, TreeMade
  <2>3. /\ Saved' /\ TreeOf(image.ino)' = TreeOf(image.ino)
        /\ TreeOf(meta.ino) = W /\ TreeOf(meta.ino)' = V /\ pc # "off" /\ pc' # "off"
    BY <1>2, <1>4
  <2> HIDE DEF W, V
  <2>4. Abs!Changed = {path}
    <3>1. V[path] # W[path]
      BY <2>2
    <3> QED
      BY <2>2, <2>3, <3>1 DEF Abs!Changed
  <2>5. W[path] = Abs!Nothing /\ V[path] \in {Abs!Directory, Abs!File(<<>>)}
    BY <2>2 DEF Abs!Nothing, Abs!Directory, Abs!File
  <2>6. Abs!IsDirectory(Front(path))
    BY <2>2, <2>3 DEF Abs!IsDirectory, Abs!Directory
  <2>7. Abs!Make
    <3>1. \A p : Abs!Front(p) = Front(p)
      BY DEF Abs!Front, Front
    <3> QED
      BY <2>3, <2>4, <2>5, <2>6, <3>1 DEF Abs!Make
  <2> QED
    BY <2>3, <2>7 DEF Abs!TNext
<1> QED
  BY <1>1, <1>3, <1>4 DEF Created

LEMMA TreeMkdir ==
  ASSUME PlainNames, WriteAfterAbort = FALSE, IInv, IInv', Saved, NEW path \in Paths, cli_mkdir(path)
  PROVE  [Abs!TNext]_(Abs!tvars) /\ Saved'
<1>1. PICK r \in {create(Current, path, "dir")} : Continue(r, "ready")
  BY DEF cli_mkdir
<1>2. /\ ~ aborted /\ pc = "ready" /\ Whole(Current)
      /\ \A dir \in iname(Current.ino, Current.blk, Front(path)) : Current.ino[dir].mode = "dir"
  BY ReadyIs DEF cli_mkdir
<1>3. Created(Current, path, "dir", r)
  BY <1>1, <1>2, CreateIs
<1> QED
  BY <1>1, <1>2, <1>3, TreeCreate

LEMMA TreeCpin ==
  ASSUME PlainNames, WriteAfterAbort = FALSE, IInv, IInv', Saved,
         NEW path \in Paths, NEW n \in FileBlocks, cpin(path, n)
  PROVE  [Abs!TNext]_(Abs!tvars) /\ Saved'
<1> DEFINE r    == create(Current, path, "file")
           next == IF n = 0 THEN "ready" ELSE "copy"
<1>1. /\ ~ aborted /\ pc = "ready" /\ Whole(Current)
      /\ \A dir \in iname(Current.ino, Current.blk, Front(path)) : Current.ino[dir].mode = "dir"
  BY ReadyIs DEF cpin
<1>2. Created(Current, path, "file", r)
  BY <1>1, CreateIs
<1>3. touched(path) = IF r.stop = "no" /\ iname(r.ino, r.blk, path) = {} THEN [r EXCEPT !.stop = "exit"] ELSE r
  BY DEF touched
<1> HIDE DEF r
<1>4. r.stop = "no" => iname(r.ino, r.blk, path) # {}
  BY <1>2 DEF Created, Refused
<1>5. touched(path) = r
  BY <1>3, <1>4
<1>6. Continue(r, next) /\ next \in {"ready", "copy"}
  BY <1>5 DEF cpin
<1> HIDE DEF next
<1> QED
  BY <1>1, <1>2, <1>6, TreeCreate

\* A turn of the loop of cpin is a block more of one file.
LEMMA TreeCopy ==
  ASSUME PlainNames, IInv, IInv', Saved, cpin_block
  PROVE  [Abs!TNext]_(Abs!tvars) /\ Saved'
<1> DEFINE n == copy.inum
           v == <<n, meta.ino[n].filelength>>
           next == IF copy.left = 1 THEN "ready" ELSE "copy"
<1>1. pc = "copy" /\ ~ aborted /\ TypeOK /\ TypeOK' /\ SInv(Current) /\ Copying
  BY DEF cpin_block, IInv, RunInv
<1>2. PICK t \in {NextBlock} : Continue(t, next)
  BY DEF cpin_block
<1>3. t = write_block(Current, n, v)
  BY <1>2 DEF NextBlock
<1>4. n \in Inum /\ v \in Inum \X Nat /\ Current.ino[n].mode = "file"
  <2>1. n \in Inum
    BY <1>1 DEF Copying, FreeInodes, Inum
  <2>2. meta.ino[n].filelength \in Nat
    BY <1>1, <2>1 DEF TypeOK, Meta, Inode
  <2> QED
    BY <1>1, <2>1, <2>2, CurrentIs DEF Copying
<1>5. Whole(Current) /\ Steady(Current) /\ Sole(Current) /\ Current \in State /\ Current.ino = meta.ino
  BY <1>1, CurrentIs DEF Whole, Steady, SInv
<1> HIDE DEF v, n
<1>6. /\ t \in State /\ Kept(Current, t) /\ SameNames(Current, t)
      /\ \A m \in Inum : t.ino[m].mode = Current.ino[m].mode
      /\ \A m \in Inum \ {n} : t.ino[m].filelength = Current.ino[m].filelength
      /\ (t.stop = "no" => t.ino[n].filelength = Current.ino[n].filelength + 1)
      /\ (t.stop # "no" => t.ino[n].filelength = Current.ino[n].filelength)
      /\ (t.stop \in {"no", "panic"} /\ SInv(t)) \/ t.stop = "overrun"
  BY <1>3, <1>4, <1>5, WrittenFile
<1>7. Later(Current, t)
  <2>1. ASSUME NEW m \in Inum PROVE Current.ino[m].filelength <= t.ino[m].filelength
    <3>1. Current.ino[m].filelength \in Nat
      BY <1>5, AddressesOfInode DEF Inode
    <3> QED
      BY <1>6, <3>1
  <2> QED
    BY <1>5, <1>6, <2>1 DEF Later, Steady
<1>8. next \in {"ready", "copy"}
  OBVIOUS
<1> HIDE DEF next
<1>9. CASE t.stop = "no"
  <2>1. /\ Saved' /\ TreeOf(image.ino)' = TreeOf(image.ino)
        /\ TreeOf(meta.ino) = TreeMap(Current) /\ TreeOf(meta.ino)' = TreeMap(t)
        /\ pc # "off" /\ pc' # "off"
    BY <1>1, <1>2, <1>7, <1>8, <1>9, TreeContinues
  <2>2. Steady(t)
    BY <1>6, <1>9 DEF Steady, SInv
  <2> DEFINE W == TreeMap(Current)
             V == TreeMap(t)
  <2>3. \/ V = W
        \/ \E q \in Paths :
             /\ \A p \in Paths \ {q} : V[p] = W[p]
             /\ W[q].kind = "file" /\ V[q].kind = "file" /\ V[q] # W[q]
             /\ V[q].data # <<>> /\ Front(V[q].data) = W[q].data
    BY <1>4, <1>5, <1>6, <1>9, <2>2, TreeExtended
  <2>4. TreeOf(meta.ino) = W /\ TreeOf(meta.ino)' = V
    BY <2>1
  <2> HIDE DEF W, V
  <2>5. CASE V = W
    BY <2>1, <2>4, <2>5 DEF Abs!tvars
  <2>6. ASSUME NEW q \in Paths, \A p \in Paths \ {q} : V[p] = W[p],
               W[q].kind = "file", V[q].kind = "file", V[q] # W[q],
               V[q].data # <<>>, Front(V[q].data) = W[q].data
        PROVE  Abs!Extend
    <3>1. Abs!Changed = {q}
      BY <2>1, <2>4, <2>6 DEF Abs!Changed
    <3>2. \A p : Abs!Front(p) = Front(p)
      BY DEF Abs!Front, Front
    <3> QED
      BY <2>1, <2>4, <2>6, <3>1, <3>2 DEF Abs!Extend
  <2> QED
    BY <2>1, <2>3, <2>5, <2>6 DEF Abs!TNext
<1>10. CASE t.stop = "panic"
  <2>1. /\ Saved' /\ TreeOf(image.ino)' = TreeOf(image.ino)
        /\ TreeOf(meta.ino) = TreeMap(Current) /\ TreeOf(meta.ino)' = TreeMap(t)
        /\ pc # "off" /\ pc' # "off"
    BY <1>1, <1>2, <1>7, <1>8, <1>10, TreeContinues
  <2>2. Steady(t) /\ Beside(Current, t)
    BY <1>6, <1>10 DEF Steady, SInv, Beside
  <2>3. Finished(Current)
    BY <1>5, SoleIs DEF Finished
  <2>4. TreeMap(t) = TreeMap(Current)
    BY <1>5, <1>6, <2>2, <2>3, TreeSame
  <2> QED
    BY <2>1, <2>4 DEF Abs!tvars
<1>11. CASE t.stop = "overrun"
  <2>1. meta' = meta /\ blk' = t.blk /\ image' = image /\ pc' = "overrun"
    BY <1>2, <1>11 DEF Continue
  <2>2. Past(image.ino, Current)
    BY <1>1 DEF Saved
  <2>3. TreeOf(image.ino)' = TreeOf(image.ino)
    BY <1>1, <1>7, <2>1, <2>2, SavedStays
  <2>4. Past(meta.ino, Current)
    BY <1>5, PastSelf
  <2>5. TreeMap(Back(t, meta.ino)) = TreeMap(Back(Current, meta.ino))
    BY <1>7, <2>4, PastStays
  <2>6. Back(Current, meta.ino) = Current
    BY <1>5, BackIs
  <2>7. TreeMap(Current') = TreeMap(Back(t, meta.ino))
    <3>1. Current'.ino = meta.ino /\ Current'.blk = t.blk
      BY <2>1 DEF Current
    <3>2. Back(t, meta.ino).ino = meta.ino /\ Back(t, meta.ino).blk = t.blk
      BY <1>6, BackIs
    <3> QED
      BY <3>1, <3>2, TreeAlike
  <2>8. TreeOf(meta.ino)' = TreeOf(meta.ino)
    BY <1>1, <2>5, <2>6, <2>7, TreesAre
  <2>9. UNCHANGED Abs!tvars
    BY <1>1, <2>1, <2>3, <2>8 DEF Abs!tvars
  <2> QED
    BY <2>1, <2>9 DEF Saved
<1> QED
  BY <1>6, <1>9, <1>10, <1>11

\* mkuxlfs makes a tree without a name.
LEMMA TreeInit ==
  ASSUME PlainNames, Init
  PROVE  Abs!TInit /\ Saved
<1>1. TypeOK /\ SInv(Current) /\ \A n \in Inum : Bare(Current, n)
  BY InitInv
<1>2. meta = image /\ pc = "off"
  BY DEF Init
<1>3. Steady(Current) /\ Current.ino = meta.ino /\ Current.blk = blk
  BY <1>1, CurrentIs DEF Steady, SInv
<1>4. ASSUME NEW path \in Paths PROVE Tree(Current, path) = [kind |-> "none", data |-> <<>>]
  <2>1. NamedPath(path, Len(path)) /\ Len(path) # 0
    BY PathIs
  <2>2. ASSUME NEW x \in Inum, Reaches(Current, path, Len(path), x) PROVE FALSE
    <3>1. PICK n \in Inum : \E e \in 0 .. (Current.ino[n].filelength - 1) :
                              Shown(Current, n, e).name = path[Len(path)] /\ path[Len(path)] \in TreeNames
      BY <1>3, <2>1, <2>2, ReachesLast
    <3> QED
      BY <1>1, <3>1 DEF Bare
  <2> QED
    BY <1>3, <2>2, TreeIs
<1>5. TreeOf(image.ino) = TreeMap(Current)
  BY <1>2, <1>3 DEF TreeOf, TreeMap, Tree, Node
<1>6. TreeMap(Current) = Abs!NoTree
  BY <1>4 DEF TreeMap, Abs!NoTree, Abs!Nothing
<1> QED
  BY <1>2, <1>5, <1>6 DEF Saved, Abs!TInit


-----------------------------------------------------------------------------
(* Theorems *)

\* What holds of inodes, blocks, bitmap, counts and names holds after every
\* step of every run, unless an image is written over that a run left
\* unsaved (dir_write and sync_fs, uxlfs.c).
THEOREM Invariance ==
  ASSUME WriteAfterAbort = FALSE
  PROVE  Spec => []IInv
<1>1. Init => IInv
  BY InitInv
<1>2. IInv /\ [Next]_vars => IInv'
  <2> SUFFICES ASSUME IInv, [Next]_vars PROVE IInv'
    OBVIOUS
  <2>1. CASE mount_fs
    BY <2>1, MountStep
  <2>2. ASSUME NEW path \in Paths, cli_mkdir(path) PROVE IInv'
    BY <2>2, MkdirStep
  <2>3. ASSUME NEW path \in Paths, NEW n \in FileBlocks, cpin(path, n) PROVE IInv'
    BY <2>3, CpinStep
  <2>4. CASE cpin_block
    BY <2>4, CopyStep
  <2>5. CASE sync_fs \/ sync_super \/ sync_inodes \/ sync_bitmap
    BY <2>5, SyncStep
  <2>6. CASE killed
    BY <2>6, KilledStep
  <2>7. CASE UNCHANGED vars
    <3>1. /\ meta' = meta /\ image' = image /\ blk' = blk /\ pc' = pc /\ copy' = copy /\ aborted' = aborted
      BY <2>7 DEF vars
    <3>2. TypeOK' /\ Current' = Current
      BY <3>1 DEF IInv, TypeOK, Current
    <3>3. RunInv'
      BY <3>1, <3>2 DEF IInv, RunInv, Synced, Copying
    <3> QED
      BY <3>1, <3>2, <3>3 DEF IInv, IndexFaultsAtEnd, NdirectHoldsAddresses
  <2> QED
    BY <2>1, <2>2, <2>3, <2>4, <2>5, <2>6, <2>7 DEF Next
<1> QED
  BY <1>1, <1>2, PTL DEF Spec

\* One owner for each block in use, the bitmap and the counts of the
\* superblock say the same, wherever PANIC stopped balloc or ialloc.
THEOREM ImageCorrect ==
  ASSUME WriteAfterAbort = FALSE
  PROVE  Spec => []ImageInv
<1>1. IInv => ImageInv
  BY DEF IInv, RunInv, Intact, ImageInv, SInv
<1> QED
  BY <1>1, Invariance, PTL

\* ialloc comes before the name is written: still no inode is in use without a
\* name, unless dir_create_entity found the disk full in between.
THEOREM NamesCorrect ==
  ASSUME WriteAfterAbort = FALSE
  PROVE  Spec => []NoOrphans
<1>1. IInv => NoOrphans
  BY DEF IInv, RunInv, Intact, NoOrphans, SInv
<1> QED
  BY <1>1, Invariance, PTL

\* The > in iget_phys_block lets an index past a block of addresses for one
\* block of one file only, the one behind the last that an inode reaches.
THEOREM IndexCorrect ==
  ASSUME WriteAfterAbort = FALSE
  PROVE  Spec => []IndexFaultsAtEnd
<1>1. IInv => IndexFaultsAtEnd
  BY DEF IInv
<1> QED
  BY <1>1, Invariance, PTL

\* Nobody clears a block that balloc hands out, and yet iget_phys_block never
\* takes entries or data for addresses.
THEOREM AddressesCorrect ==
  ASSUME WriteAfterAbort = FALSE
  PROVE  Spec => []NdirectHoldsAddresses
<1>1. IInv => NdirectHoldsAddresses
  BY DEF IInv
<1> QED
  BY <1>1, Invariance, PTL

\* Run after run, each whole or ended at a killed: the tool is a tree that a run extends and
\* that sync_fs saves at one moment.  The names are those that cpdir_in and
\* cpdir_out follow, all but . and .. (uxlfs.c:552 and :617).
THEOREM Refinement ==
  ASSUME WriteAfterAbort = FALSE, Dot \notin Names, DotDot \notin Names
  PROVE  Spec => Implements
<1>0. PlainNames
  BY DEF PlainNames
<1>1. Init => Abs!TInit /\ Saved
  BY <1>0, TreeInit
<1>2. IInv /\ IInv' /\ Saved /\ [Next]_vars => [Abs!TNext]_(Abs!tvars) /\ Saved'
  <2> SUFFICES ASSUME IInv, IInv', Saved, [Next]_vars
               PROVE  [Abs!TNext]_(Abs!tvars) /\ Saved'
    OBVIOUS
  <2>1. CASE mount_fs
    BY <2>1, TreeMount
  <2>2. ASSUME NEW path \in Paths, cli_mkdir(path) PROVE [Abs!TNext]_(Abs!tvars) /\ Saved'
    BY <1>0, <2>2, TreeMkdir
  <2>3. ASSUME NEW path \in Paths, NEW n \in FileBlocks, cpin(path, n)
        PROVE  [Abs!TNext]_(Abs!tvars) /\ Saved'
    BY <1>0, <2>3, TreeCpin
  <2>4. CASE cpin_block
    BY <1>0, <2>4, TreeCopy
  <2>5. CASE sync_fs \/ sync_super \/ sync_inodes
    BY <2>5, TreeSync DEF IInv
  <2>6. CASE sync_bitmap \/ killed
    <3>1. image'.ino = image.ino /\ blk' = blk /\ pc' = "off"
      <4>1. image \in Meta
        BY DEF IInv, TypeOK
      <4> QED
        BY <2>6, <4>1 DEF sync_bitmap, killed, Meta
    <3> QED
      BY <3>1, TreeEnd DEF Abs!TNext
  <2>7. CASE UNCHANGED vars
    <3>1. meta' = meta /\ image' = image /\ blk' = blk /\ pc' = pc /\ aborted' = aborted
      BY <2>7 DEF vars
    <3>2. Current' = Current
      BY <3>1 DEF Current
    <3>3. TreeOf(meta.ino)' = TreeOf(meta.ino) /\ TreeOf(image.ino)' = TreeOf(image.ino)
      BY <3>1 DEF TreeOf
    <3>4. UNCHANGED Abs!tvars
      BY <3>1, <3>3 DEF Abs!tvars
    <3> QED
      BY <3>1, <3>2, <3>4 DEF Saved
  <2> QED
    BY <2>1, <2>2, <2>3, <2>4, <2>5, <2>6, <2>7 DEF Next
<1>3. Spec => []IInv
  BY Invariance
<1> QED
  BY <1>1, <1>2, <1>3, PTL DEF Spec, Implements, Abs!TSpec
=============================================================================
