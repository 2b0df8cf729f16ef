------------------------------- MODULE KHeap -------------------------------
(***************************************************************************)
(* The kernel heap, mm/kheap.c: chunks between a header and a footer that  *)
(* hold the same tag, first fit from the bottom, splitting, growth by      *)
(* whole pages and merging on kfree.  Addresses and sizes count units of 8 *)
(* bytes, the width of a header and of a footer, from heap_start.          *)
(*                                                                         *)
(* `live' is what the callers hold, `chunks' where the chunks begin; the   *)
(* code keeps neither.                                                     *)
(***************************************************************************)
EXTENDS Integers, FiniteSets

CONSTANTS PAGE,         \* units in a page (PAGE_SIZE / 8)
          MaxPages,     \* pages ksbrk can get before alloc_page panics
          Requests,     \* the sizes callers ask for, in bytes
          Garbage,      \* a word that holds no tag
          OrderedFree   \* TRUE: no caller frees a block above one in use

ASSUME KHeapAssumption ==
  /\ PAGE \in Nat /\ PAGE > 3
  /\ MaxPages \in Nat \ {0}
  /\ Requests \subseteq Nat
  /\ OrderedFree \in BOOLEAN

HEADER_FULL_SIZE == 2

RESIZE_THRESHOLD == 2

VARIABLES tag,       \* the words of the heap, as far as they are tags
          heap_end,  \* 0 until kheap_init, then the end of the last chunk
          pc,        \* idle, fit (inside find_first_fit), fault or panic
          p,         \* the chunk the search looks at
          size,      \* the size asked for
          live, chunks

call == <<p, size>>
vars == <<tag, heap_end, pc, call, live, chunks>>

Addr == 0 .. (MaxPages * PAGE - 1)

align8(nbytes) == (nbytes + 7) \div 8

next_chunk(t, c) == c + t[c].size + HEADER_FULL_SIZE

\* A plausible slip: the header is forgotten when the footer is placed.
chunk_set_size_footer_early(t, c, n) ==
  [a \in Addr |-> IF a \in {c, c + n} THEN [size |-> n, alloc |-> FALSE] ELSE t[a]]

\* Writes a tag in both places and clears its flag with it.  What lies between
\* is the caller's, or stale: no tag that may be relied on.
chunk_set_size(t, c, n) ==
  [a \in Addr |-> IF a \in {c, c + n + 1} THEN [size |-> n, alloc |-> FALSE]
                  ELSE IF a \in (c + 1) .. (c + n) THEN Garbage ELSE t[a]]

chunk_set_allocated(t, c) ==
  LET new == [size |-> t[c].size, alloc |-> TRUE]
  IN [t EXCEPT ![c] = new, ![c + t[c].size + 1] = new]

Init ==
  /\ tag = [a \in Addr |-> Garbage]
  /\ heap_end = 0
  /\ pc = "idle" /\ p = 0 /\ size = 0
  /\ live = {} /\ chunks = {}

\* kmalloc up to its search; the first call sets the heap up.
kmalloc(nbytes) ==
  /\ pc = "idle"
  /\ IF heap_end = 0
     THEN /\ tag' = chunk_set_size(tag, 0, PAGE - HEADER_FULL_SIZE)
          /\ heap_end' = PAGE
          /\ chunks' = {0}
     ELSE UNCHANGED <<tag, heap_end, chunks>>
  /\ size' = align8(nbytes) /\ p' = 0 /\ pc' = "fit"
  /\ UNCHANGED live

\* Two plausible slips: the flag is not looked at; an exact fit is refused.
Fits_in_use(c) == tag[c].size >= size
Fits_strict(c) == ~tag[c].alloc /\ tag[c].size > size

Fits(c) == ~tag[c].alloc /\ tag[c].size >= size

\* A plausible slip: the search goes on from the bottom.
find_first_fit_wraps ==
  /\ pc = "fit" /\ p < heap_end
  /\ ~Fits(p)
  /\ p' = IF next_chunk(tag, p) < heap_end THEN next_chunk(tag, p) ELSE 0
  /\ UNCHANGED <<tag, heap_end, pc, size, live, chunks>>

find_first_fit ==
  /\ pc = "fit" /\ p < heap_end
  /\ ~Fits(p)
  /\ p' = next_chunk(tag, p)
  /\ UNCHANGED <<tag, heap_end, pc, size, live, chunks>>

\* The rest of kmalloc, from the chunk c in t on: split off what is left if
\* it is worth a chunk, mark and return it.
Carve(t, c) ==
  LET diff  == t[c].size - size
      rest  == c + size + HEADER_FULL_SIZE
      split == diff > RESIZE_THRESHOLD
      cut   == IF split
               THEN chunk_set_size(chunk_set_size(t, c, size), rest, diff - HEADER_FULL_SIZE)
               ELSE t
  IN /\ tag' = chunk_set_allocated(cut, c)
     /\ chunks' = chunks \cup {c} \cup (IF split THEN {rest} ELSE {})
     /\ live' = live \cup {[addr |-> c, size |-> size]}
     /\ pc' = "idle"

kmalloc_found ==
  /\ pc = "fit" /\ p < heap_end
  /\ Fits(p)
  /\ Carve(tag, p)
  /\ UNCHANGED <<heap_end, call>>

\* A plausible slip: no page for what is left of the division.
new_pages_truncated == size \div PAGE + (IF size % PAGE < HEADER_FULL_SIZE THEN 1 ELSE 0)

new_pages == size \div PAGE + 1 + (IF size % PAGE < HEADER_FULL_SIZE THEN 1 ELSE 0)
new_end   == heap_end + new_pages * PAGE
grown     == chunk_set_size(tag, heap_end, new_pages * PAGE - HEADER_FULL_SIZE)

Grow == pc = "fit" /\ p >= heap_end

\* alloc_new_memory, then the rest of kmalloc.
kmalloc_grow ==
  /\ Grow /\ new_end <= MaxPages * PAGE
  /\ new_pages * PAGE - HEADER_FULL_SIZE >= size
  /\ heap_end' = new_end
  /\ Carve(grown, heap_end)
  /\ UNCHANGED call

\* The new chunk is smaller than size: diff wraps, and chunk_set_size writes
\* the footer of a chunk of `size' past the end of the last page mapped.
kmalloc_overrun ==
  /\ Grow /\ new_end <= MaxPages * PAGE
  /\ new_pages * PAGE - HEADER_FULL_SIZE < size
  /\ heap_end' = new_end /\ tag' = grown
  /\ chunks' = chunks \cup {heap_end}
  /\ pc' = "fault"
  /\ UNCHANGED <<call, live>>

\* ksbrk, alloc_page: PANIC.
kmalloc_panic ==
  /\ Grow /\ new_end > MaxPages * PAGE
  /\ pc' = "panic"
  /\ UNCHANGED <<tag, heap_end, call, live, chunks>>

\* The chunk below c, read from the footer that ends just before c.
prev_chunk(c) == c - tag[c - 1].size - HEADER_FULL_SIZE

\* A plausible slip: only the chunk below is merged.
free_above_never(c) == FALSE

free_above(c) ==
  LET above == next_chunk(tag, c) IN above < heap_end /\ ~tag[above].alloc

\* A free chunk above is taken in; so is the chunk below, free or not.
kfree(b) ==
  LET c     == b.addr
      above == next_chunk(tag, c)
      join  == free_above(c)
      n     == tag[c].size + (IF join THEN tag[above].size + HEADER_FULL_SIZE ELSE 0)
      alone == chunk_set_size(tag, c, n)
      below == prev_chunk(c)
  IN /\ pc = "idle"
     /\ ~(OrderedFree /\ c > 1 /\ tag[c - 1].alloc)
     /\ IF c - 1 > 0
        THEN /\ tag' = chunk_set_size(alone, below, n + tag[below].size + HEADER_FULL_SIZE)
             /\ chunks' = chunks \ (IF join THEN {above, c} ELSE {c})
        ELSE /\ tag' = alone
             /\ chunks' = chunks \ (IF join THEN {above} ELSE {})
     /\ live' = live \ {b}
     /\ UNCHANGED <<heap_end, pc, call>>

halted == pc \in {"fault", "panic"} /\ UNCHANGED vars

search == find_first_fit \/ kmalloc_found \/ kmalloc_grow \/ kmalloc_overrun \/ kmalloc_panic

Next == \/ \E nbytes \in Requests : kmalloc(nbytes)
        \/ search
        \/ \E b \in live : kfree(b)
        \/ halted

Spec == Init /\ [][Next]_vars
FairSpec == Spec /\ WF_vars(search)

----------------------------------------------------------------------------
TypeOK ==
  /\ heap_end \in 0 .. (MaxPages * PAGE)
  /\ pc \in {"idle", "fit", "fault", "panic"}
  /\ p \in Nat /\ size \in Nat
  /\ chunks \subseteq Addr
  /\ live \subseteq [addr : Addr, size : Nat]
  /\ \A c \in chunks : tag[c] \in [size : Nat, alloc : BOOLEAN]

\* The chunks lie one after the other from heap_start to heap_end, and each
\* says the same at both ends: find_first_fit, which only adds up headers,
\* and kfree, which goes back by a footer, always land on a chunk.
Tiling ==
  /\ heap_end > 0 => 0 \in chunks
  /\ \A c \in chunks :
       /\ next_chunk(tag, c) \in chunks \cup {heap_end}
       /\ next_chunk(tag, c) <= heap_end
       /\ tag[next_chunk(tag, c) - 1] = tag[c]
       /\ \A d \in chunks : c < d => next_chunk(tag, c) <= d

\* The tags that are in use are tags, and lead from one end to the other.
ChunksInv == TypeOK /\ Tiling

\* What callers hold are the chunks marked allocated, each with room for
\* what was asked for.
LiveInv ==
  /\ chunks \cap { b.addr : b \in live } = { c \in chunks : tag[c].alloc }
  /\ \A b \in live : b.addr \in chunks /\ tag[b.addr].size >= b.size
  /\ \A a, b \in live : a # b => a.addr # b.addr

\* Two free chunks are never neighbours: what kfree, splitting and growth
\* leave behind is as large as it can be.
Coalesced ==
  pc # "fault" =>
    \A c \in chunks :
      next_chunk(tag, c) \in chunks => tag[c].alloc \/ tag[next_chunk(tag, c)].alloc

\* The heap grows only when no free chunk is large enough.
GrowsWhenFull ==
  [][pc = "fit" /\ heap_end' > heap_end
       => \A c \in chunks : tag[c].alloc \/ tag[c].size < size]_vars

\* kmalloc returns, or the machine halts.
CallReturns == pc = "fit" ~> pc # "fit"

\* kmalloc writes past the end of the heap for one size only in every page:
\* the one that is a word less than whole pages, which the test for an extra
\* page should have caught.
FaultsAtPageEdge == pc = "fault" => size % PAGE = PAGE - 1

\* What the log line of kfree says (mm/kheap.c:178): the chunk freed is the
\* caller's own; those that others hold stay allocated.
FreesItsOwn == \A b \in live : tag[b.addr].alloc

----------------------------------------------------------------------------
(* The inductive invariant, when frees are ordered: what the four rest on. *)

\* Every chunk but the first is the next one of another, and so is the end.
Linked == \A c \in chunks \cup {heap_end} : c # 0 => \E d \in chunks : next_chunk(tag, d) = c

\* The search is at a chunk or at the end, and has passed nothing that fits.
SearchInv ==
  pc = "fit" => /\ heap_end > 0 /\ p \in chunks \cup {heap_end}
                /\ \A c \in chunks : c < p => ~Fits(c)

IInv == /\ TypeOK /\ Tiling /\ DOMAIN tag = Addr /\ Linked /\ SearchInv
        /\ LiveInv /\ Coalesced /\ FaultsAtPageEdge
=============================================================================
