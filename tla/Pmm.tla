-------------------------------- MODULE Pmm --------------------------------
(***************************************************************************)
(* The physical page allocator, mm/pmm.c: a bitmap with a bit per page, a  *)
(* next-fit search that starts at a hint, and a count of free pages.  The  *)
(* search is one action per turn of its loop.  `runs' is what the callers  *)
(* were given and not yet gave back; `freed' remembers that free_pages     *)
(* was called at all.  Neither is kept by the code.                        *)
(***************************************************************************)
EXTENDS Integers, FiniteSets

CONSTANTS TOTAL_PAGES, \* the search never looks at this page or above
          RESERVED,    \* pmm_init marks the first 256 pages, 1 MB, as used
          MaxRun,      \* the longest run a caller asks for
          WORD         \* 2^32, where the count of free pages wraps

ASSUME PmmAssumption ==
  /\ TOTAL_PAGES \in Nat
  /\ RESERVED \in 1..TOTAL_PAGES /\ RESERVED % 2 = 0
  /\ MaxRun \in Nat \ {0}
  /\ WORD \in Nat /\ WORD > TOTAL_PAGES

VARIABLES bitmap,       \* the pages whose bit is set
          start,        \* where the next search begins
          _free_pages,  \* the count pmm_get_memstat reports from
          pc,           \* idle, scan (inside alloc_pages) or panic
          pg_count,     \* the length asked for
          count,        \* how many pages of it the search still lacks
          i,            \* the page the search looks at
          runs, freed   \* ghosts, see above

search == <<pg_count, count, i>>
vars == <<bitmap, start, _free_pages, pc, search, runs, freed>>

Abs == INSTANCE PageAlloc
         WITH Memory <- RESERVED .. (TOTAL_PAGES - 1),
              wanted <- IF pc = "idle" THEN 0 ELSE pg_count

Pages(r) == r.first .. (r.first + r.count - 1)

\* A plausible slip: one page short.
bitmap_sets_short(p, n) == bitmap \cup p .. (p + n - 2)

bitmap_sets(p, n) == bitmap \cup p .. (p + n - 1)

\* A plausible slip: one page too many.
bitmap_unsets_long(p, n) == bitmap \ (p .. (p + n))

bitmap_unsets(p, n) == bitmap \ (p .. (p + n - 1))

\* pmm_init has run.
Init ==
  /\ bitmap = 0 .. (RESERVED - 1)
  /\ start = 0
  /\ _free_pages = TOTAL_PAGES - RESERVED
  /\ pc = "idle" /\ pg_count = 0 /\ count = 0 /\ i = 0
  /\ runs = {} /\ freed = FALSE

alloc_pages(n) ==
  /\ pc = "idle"
  /\ pc' = "scan"
  /\ pg_count' = n /\ count' = n /\ i' = start
  /\ UNCHANGED <<bitmap, start, _free_pages, runs, freed>>

scan_free ==
  /\ pc = "scan" /\ i < TOTAL_PAGES /\ i \notin bitmap
  /\ count > 1
  /\ count' = count - 1 /\ i' = i + 1
  /\ UNCHANGED <<bitmap, start, _free_pages, pc, pg_count, runs, freed>>

\* A plausible slip: the hint is one page too far.
scan_found_hint_past ==
  LET pg_start == i + 1 - pg_count
  IN /\ pc = "scan" /\ i < TOTAL_PAGES /\ i \notin bitmap
     /\ count = 1
     /\ start' = i + 2
     /\ bitmap' = bitmap_sets(pg_start, pg_count)
     /\ _free_pages' = (_free_pages - pg_count) % WORD
     /\ runs' = runs \cup {[first |-> pg_start, count |-> pg_count]}
     /\ pc' = "idle"
     /\ UNCHANGED <<search, freed>>

scan_found ==
  LET pg_start == i + 1 - pg_count
  IN /\ pc = "scan" /\ i < TOTAL_PAGES /\ i \notin bitmap
     /\ count = 1
     /\ start' = i + 1
     /\ bitmap' = bitmap_sets(pg_start, pg_count)
     /\ _free_pages' = (_free_pages - pg_count) % WORD
     /\ runs' = runs \cup {[first |-> pg_start, count |-> pg_count]}
     /\ pc' = "idle"
     /\ UNCHANGED <<search, freed>>

\* A plausible slip: the pages counted so far still count.
scan_used_keeps_count ==
  /\ pc = "scan" /\ i < TOTAL_PAGES /\ i \in bitmap
  /\ i' = i + 2
  /\ UNCHANGED <<bitmap, start, _free_pages, pc, pg_count, count, runs, freed>>

\* A plausible slip: the search starts over from the hint.
scan_used_restarts ==
  /\ pc = "scan" /\ i < TOTAL_PAGES /\ i \in bitmap
  /\ i' = start /\ count' = pg_count
  /\ UNCHANGED <<bitmap, start, _free_pages, pc, pg_count, runs, freed>>

\* The loop's own i++ comes on top of i = pg_start: the page after a used
\* one is not looked at.
scan_used ==
  /\ pc = "scan" /\ i < TOTAL_PAGES /\ i \in bitmap
  /\ i' = i + 2 /\ count' = pg_count
  /\ UNCHANGED <<bitmap, start, _free_pages, pc, pg_count, runs, freed>>

\* A plausible slip: the last page is never looked at.
out_of_memory_early ==
  /\ pc = "scan" /\ i >= TOTAL_PAGES - 1
  /\ pc' = "panic"
  /\ UNCHANGED <<bitmap, start, _free_pages, search, runs, freed>>

out_of_memory ==
  /\ pc = "scan" /\ i >= TOTAL_PAGES
  /\ pc' = "panic"
  /\ UNCHANGED <<bitmap, start, _free_pages, search, runs, freed>>

\* A caller gives back a run it holds; the count is not touched.
free_pages(r) ==
  /\ pc = "idle"
  /\ bitmap' = bitmap_unsets(r.first, r.count)
  /\ start' = IF start > r.first THEN r.first ELSE start
  /\ runs' = runs \ {r} /\ freed' = TRUE
  /\ UNCHANGED <<_free_pages, pc, search>>

halted == pc = "panic" /\ UNCHANGED vars

scan == scan_free \/ scan_found \/ scan_used \/ out_of_memory

Next == \/ \E n \in 1..MaxRun : alloc_pages(n)
        \/ scan
        \/ \E r \in runs : free_pages(r)
        \/ halted

Spec == Init /\ [][Next]_vars
FairSpec == Spec /\ WF_vars(scan)

----------------------------------------------------------------------------
Run == [first : RESERVED .. (TOTAL_PAGES - 1), count : 1..MaxRun]

TypeOK ==
  /\ bitmap \subseteq 0 .. (TOTAL_PAGES - 1)
  /\ start \in 0..TOTAL_PAGES
  /\ _free_pages \in 0 .. (WORD - 1)
  /\ pc \in {"idle", "scan", "panic"}
  /\ pg_count \in 0..MaxRun /\ count \in 0..MaxRun
  /\ i \in 0 .. (TOTAL_PAGES + 1)
  /\ runs \subseteq Run
  /\ freed \in BOOLEAN

\* No page belongs to two callers, and the bitmap is exactly the low memory
\* and what the callers hold: neither a search that starts over in the middle
\* of a run nor a free may clear or forget a bit of somebody else.
BitmapInv ==
  /\ \A r, s \in runs : r # s => Pages(r) \cap Pages(s) = {}
  /\ bitmap = (0 .. (RESERVED - 1)) \cup UNION { Pages(r) : r \in runs }

\* The pages the search has counted, which end just before i.
Counted == (i - (pg_count - count)) .. (i - 1)

\* While the loop runs, the counted pages are free, and every hole that is
\* one page longer than asked for still lies (all but its first page) ahead.
ScanInv ==
  pc # "idle" =>
    /\ count \in 1..pg_count
    /\ i >= start + (pg_count - count)
    /\ Counted \cap bitmap = {}
    /\ \A a \in start .. (TOTAL_PAGES - 1 - pg_count) :
         (a .. (a + pg_count)) \cap bitmap = {}
           => a + 1 >= i - (pg_count - count)

\* alloc_pages gives up only when there is no hole of one page more than
\* asked for at or above the hint: skipping the page after a used one costs
\* at most the first page of a hole.
PanicJustified ==
  pc = "panic" =>
    \A a \in start .. (TOTAL_PAGES - 1 - pg_count) :
      (a .. (a + pg_count)) \cap bitmap # {}

\* Until something is freed, the pages in use are one block without a gap:
\* vmm_init maps the kernel image where it was loaded and takes for granted
\* that the runs it asks for, in the order of the image, are those pages.
Frontier == IF runs = {} THEN RESERVED ELSE start
BootInOrder == ~freed => bitmap = 0 .. (Frontier - 1)

\* During that time a search meets no page in use but the reserved ones, and
\* passes those by twos without stepping over the first free page.
ScanInOrder ==
  ~freed =>
    /\ runs = {} => start = 0
    /\ pc # "idle" =>
         \/ i - (pg_count - count) = Frontier
         \/ i < RESERVED /\ i % 2 = 0 /\ count = pg_count /\ runs = {}

IInv == /\ TypeOK /\ BitmapInv /\ ScanInv /\ BootInOrder /\ ScanInOrder
        /\ pc = "panic" => i >= TOTAL_PAGES

\* The bitmap and the search hand out pages as PageAlloc says.
Implements == Abs!PSpec

\* Every call returns or panics: the search never goes round for ever.
CallReturns == pc = "scan" ~> pc # "scan"
=============================================================================
