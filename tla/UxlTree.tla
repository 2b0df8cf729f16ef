------------------------------ MODULE UxlTree ------------------------------
(***************************************************************************)
(* What the file system tool promises, tools/mkuxlfs without inodes, block *)
(* maps and buffers: a tree of directories and files that a run of the     *)
(* tool extends, and that lasts only from the moment it is saved.          *)
(***************************************************************************)
EXTENDS Naturals, Sequences, SequencesExt

CONSTANT Paths  \* the paths that may exist, as sequences of names

VARIABLES work,   \* the tree as the running tool sees it
          saved   \* the tree that the next run will see

tvars == <<work, saved>>

Nothing   == [kind |-> "none", data |-> <<>>]
Directory == [kind |-> "dir",  data |-> <<>>]
File(d)   == [kind |-> "file", data |-> d]

NoTree == [p \in Paths |-> Nothing]

TInit == work = NoTree /\ saved = NoTree

IsDirectory(p) == p = <<>> \/ work[p] = Directory

Changed == { p \in Paths : work'[p] # work[p] }

\* A new directory or an empty file, in a directory that exists.
Make ==
  /\ \E p \in Changed :
       /\ Changed = {p}
       /\ work[p] = Nothing /\ work'[p] \in {Directory, File(<<>>)}
       /\ IsDirectory(Front(p))
  /\ UNCHANGED saved

\* A block more at the end of a file.
Extend ==
  /\ \E p \in Changed :
       /\ Changed = {p}
       /\ work[p].kind = "file" /\ work'[p].kind = "file"
       /\ work'[p].data # <<>> /\ Front(work'[p].data) = work[p].data
  /\ UNCHANGED saved

Save     == saved' = work /\ UNCHANGED work
RollBack == work' = saved /\ UNCHANGED saved

TNext == Make \/ Extend \/ Save \/ RollBack

TSpec == TInit /\ [][TNext]_tvars
=============================================================================
