----------------------------- MODULE VmmProofs -----------------------------
(***************************************************************************)
(* Pmm for any memory size, any even number of reserved pages and requests *)
(* of any length: its inductive invariant, what a panic tells, and that it *)
(* implements PageAlloc.                                                   *)
(*                                                                         *)
(* Vmm for any memory, any image and any size of the regions: no page is   *)
(* mapped twice, what is used is what is mapped, slots are mapped while    *)
(* somebody holds them, stacks have their guard pages, the heap is one     *)
(* piece, and for which images the kernel boots.                           *)
(* Its inductive invariant VIInv rests on that of the page allocator.      *)
(***************************************************************************)
EXTENDS Vmm, WellFoundedInduction, TLAPS

-----------------------------------------------------------------------------
(* The page allocator *)

USE PmmAssumption DEF PmmAssumption

\* A grant takes only pages that were free: Counted and the page the search
\* looks at are outside the bitmap, thus above the reserved pages.
LEMMA GrantIsFree ==
  ASSUME IInv, scan_found
  PROVE  LET r == [first |-> i + 1 - pg_count, count |-> pg_count]
         IN  /\ r \in Run
             /\ Pages(r) \cap bitmap = {}
             /\ Pages(r) \subseteq RESERVED .. (TOTAL_PAGES - 1)
             /\ i + 1 - pg_count \in Nat
<1> DEFINE r == [first |-> i + 1 - pg_count, count |-> pg_count]
<1>1. /\ pc = "scan" /\ i \in Nat /\ i < TOTAL_PAGES /\ i \notin bitmap /\ count = 1
      /\ start \in Nat /\ pg_count \in 1..MaxRun
  BY DEF scan_found, IInv, TypeOK, ScanInv
<1>2. /\ i >= start + (pg_count - 1)
      /\ ((i - (pg_count - 1)) .. (i - 1)) \cap bitmap = {}
  BY <1>1 DEF IInv, ScanInv, Counted
<1>3. i + 1 - pg_count \in Nat
  BY <1>1, <1>2
<1>4. Pages(r) = (i + 1 - pg_count) .. i
  BY <1>1, <1>3 DEF Pages
<1>5. ASSUME NEW p \in Pages(r) PROVE p \notin bitmap
  BY <1>1, <1>2, <1>4
<1>6. ASSUME NEW p \in Pages(r) PROVE p \in RESERVED .. (TOTAL_PAGES - 1)
  <2>1. p \in Nat /\ p < TOTAL_PAGES
    BY <1>1, <1>3, <1>4
  <2>2. p \notin 0 .. (RESERVED - 1)
    BY <1>5, <1>6 DEF IInv, BitmapInv
  <2> QED BY <2>1, <2>2
<1>7. i + 1 - pg_count \in RESERVED .. (TOTAL_PAGES - 1)
  <2>1. i + 1 - pg_count \in (i + 1 - pg_count) .. i
    BY <1>1, <1>3
  <2>2. i + 1 - pg_count \in Pages(r)
    BY <2>1, <1>4
  <2> QED BY <2>2, <1>6
<1> QED BY <1>1, <1>3, <1>5, <1>6, <1>7 DEF Run

\* The pages of a run that callers hold are marked.
LEMMA HeldIsMarked ==
  ASSUME BitmapInv, NEW r \in runs
  PROVE  Pages(r) \subseteq bitmap
BY DEF BitmapInv

\* pmm_init marks the pages below the end of the image: the invariant holds of
\* what it leaves (mm/pmm.c).
THEOREM InitIInv == Init => IInv
<1> SUFFICES ASSUME Init PROVE IInv
  OBVIOUS
<1>1. TypeOK
  <2>1. bitmap \subseteq 0 .. (TOTAL_PAGES - 1) /\ start \in 0..TOTAL_PAGES
    BY DEF Init
  <2>2. _free_pages \in 0 .. (WORD - 1)
    BY DEF Init
  <2>3. pg_count \in 0..MaxRun /\ count \in 0..MaxRun /\ i \in 0 .. (TOTAL_PAGES + 1)
    BY DEF Init
  <2> QED BY <2>1, <2>2, <2>3 DEF Init, TypeOK
<1>2. BitmapInv
  BY DEF Init, BitmapInv
<1>3. ScanInv /\ BootInOrder /\ ScanInOrder /\ (pc = "panic" => i >= TOTAL_PAGES)
  BY DEF Init, ScanInv, BootInOrder, ScanInOrder, Frontier
<1> QED BY <1>1, <1>2, <1>3 DEF IInv

\* Types, step by step.
LEMMA TypeStep ==
  ASSUME IInv, Next PROVE TypeOK'
<1> USE DEF IInv, TypeOK
<1>1. ASSUME NEW n \in 1..MaxRun, alloc_pages(n) PROVE TypeOK'
  BY <1>1 DEF alloc_pages, search
<1>2. CASE scan_free
  BY <1>2 DEF scan_free
<1>3. CASE scan_found
  <2> DEFINE r == [first |-> i + 1 - pg_count, count |-> pg_count]
  <2>1. /\ r \in Run /\ Pages(r) \subseteq RESERVED .. (TOTAL_PAGES - 1)
        /\ i + 1 - pg_count \in Nat
    BY <1>3, GrantIsFree
  <2>2. (i + 1 - pg_count) .. (i + 1 - pg_count + pg_count - 1) = Pages(r)
    BY DEF Pages
  <2>3. bitmap' \subseteq 0 .. (TOTAL_PAGES - 1)
    BY <1>3, <2>1, <2>2 DEF scan_found, bitmap_sets
  <2>4. runs' \subseteq Run
    BY <1>3, <2>1 DEF scan_found
  <2>5. _free_pages' \in 0 .. (WORD - 1)
    BY <1>3 DEF scan_found
  <2>6. start' \in 0..TOTAL_PAGES
    BY <1>3 DEF scan_found
  <2> QED BY <1>3, <2>3, <2>4, <2>5, <2>6 DEF scan_found, search
<1>4. CASE scan_used
  BY <1>4 DEF scan_used
<1>5. CASE out_of_memory
  BY <1>5 DEF out_of_memory, search
<1>6. ASSUME NEW r \in runs, free_pages(r) PROVE TypeOK'
  <2>1. r.first \in RESERVED .. (TOTAL_PAGES - 1)
    BY DEF Run
  <2>2. start' \in 0..TOTAL_PAGES
    BY <1>6, <2>1 DEF free_pages
  <2> QED BY <1>6, <2>2 DEF free_pages, bitmap_unsets, search
<1>7. CASE halted
  BY <1>7 DEF halted, vars, search
<1> QED BY <1>1, <1>2, <1>3, <1>4, <1>5, <1>6, <1>7 DEF Next, scan

\* The bitmap, step by step: only a grant and a free touch it.
LEMMA BitmapStep ==
  ASSUME IInv, Next PROVE BitmapInv'
<1>1. CASE scan_found
  <2> DEFINE r == [first |-> i + 1 - pg_count, count |-> pg_count]
  <2>1. Pages(r) \cap bitmap = {} /\ runs' = runs \cup {r}
    BY <1>1, GrantIsFree DEF scan_found
  <2>2. (i + 1 - pg_count) .. (i + 1 - pg_count + pg_count - 1) = Pages(r)
    BY DEF Pages
  <2>3. bitmap' = bitmap \cup Pages(r)
    BY <1>1, <2>2 DEF scan_found, bitmap_sets
  <2> HIDE DEF r
  <2>4. ASSUME NEW s \in runs PROVE Pages(s) \cap Pages(r) = {}
    BY <2>1, HeldIsMarked DEF IInv
  <2>5. \A s, t \in runs' : s # t => Pages(s) \cap Pages(t) = {}
    BY <2>1, <2>4 DEF IInv, BitmapInv
  <2>6. bitmap' = (0 .. (RESERVED - 1)) \cup UNION { Pages(s) : s \in runs' }
    BY <2>1, <2>3 DEF IInv, BitmapInv
  <2> QED BY <2>5, <2>6 DEF BitmapInv, Pages
<1>2. ASSUME NEW r \in runs, free_pages(r) PROVE BitmapInv'
  <2>1. runs' = runs \ {r} /\ bitmap' = bitmap \ Pages(r)
    BY <1>2 DEF free_pages, bitmap_unsets, Pages
  <2>2. r.first \in Int /\ r.first >= RESERVED /\ r.count \in Int
    BY DEF IInv, TypeOK, Run
  <2>3. (0 .. (RESERVED - 1)) \cap Pages(r) = {}
    BY <2>2 DEF Pages
  <2>4. \A s, t \in runs' : s # t => Pages(s) \cap Pages(t) = {}
    BY <2>1 DEF IInv, BitmapInv
  <2>5. bitmap' = (0 .. (RESERVED - 1)) \cup UNION { Pages(s) : s \in runs' }
    BY <2>1, <2>3 DEF IInv, BitmapInv
  <2> QED BY <2>4, <2>5 DEF BitmapInv, Pages
<1>3. ASSUME UNCHANGED <<bitmap, runs>> PROVE BitmapInv'
  BY <1>3 DEF IInv, BitmapInv, Pages
<1> QED BY <1>1, <1>2, <1>3
  DEF Next, scan, alloc_pages, scan_free, scan_used, out_of_memory, halted, vars

\* The loop invariant, step by step.  What was counted before a used page is
\* given up; a hole one page longer than asked for cannot have ended before it.
LEMMA ScanStep ==
  ASSUME IInv, Next PROVE ScanInv'
<1> USE DEF IInv, TypeOK
<1>1. ASSUME NEW n \in 1..MaxRun, alloc_pages(n) PROVE ScanInv'
  BY <1>1 DEF alloc_pages, ScanInv, Counted
<1>2. CASE scan_free
  <2>1. i' - (pg_count' - count') = i - (pg_count - count)
    BY <1>2 DEF scan_free, ScanInv
  <2>2. Counted' = Counted \cup {i}
    BY <1>2, <2>1 DEF scan_free, ScanInv, Counted
  <2>3. Counted' \cap bitmap' = {}
    BY <1>2, <2>2 DEF scan_free, ScanInv
  <2>4. count' \in 1..pg_count' /\ i' >= start' + (pg_count' - count')
    BY <1>2 DEF scan_free, ScanInv
  <2>5. \A a \in start' .. (TOTAL_PAGES - 1 - pg_count') :
          (a .. (a + pg_count')) \cap bitmap' = {} => a + 1 >= i' - (pg_count' - count')
    <3>1. UNCHANGED <<start, pg_count, bitmap>> /\ pc # "idle"
      BY <1>2 DEF scan_free
    <3> QED BY <2>1, <3>1 DEF ScanInv
  <2> QED BY <2>3, <2>4, <2>5 DEF ScanInv
<1>3. CASE scan_used
  <2>1. /\ UNCHANGED <<start, pg_count, bitmap, pc>> /\ pc = "scan"
        /\ i' = i + 2 /\ count' = pg_count /\ i \in bitmap
        /\ count \in 1..pg_count /\ i >= start + (pg_count - count)
    BY <1>3 DEF scan_used, ScanInv
  <2>2. Counted' = {}
    BY <2>1 DEF Counted
  <2>3. ASSUME NEW a \in start .. (TOTAL_PAGES - 1 - pg_count),
               (a .. (a + pg_count)) \cap bitmap = {}
        PROVE  a + 1 >= i + 2
    <3>1. a + 1 >= i - (pg_count - count)
      BY <2>1, <2>3 DEF ScanInv
    <3>2. i \notin a .. (a + pg_count)
      BY <2>1, <2>3
    <3> QED BY <2>1, <3>1, <3>2
  <2> QED BY <2>1, <2>2, <2>3 DEF ScanInv
<1>4. CASE out_of_memory
  BY <1>4 DEF out_of_memory, search, ScanInv, Counted
<1>5. CASE pc' = "idle"
  BY <1>5 DEF ScanInv
<1>6. CASE halted
  BY <1>6 DEF halted, vars, search, ScanInv, Counted
<1> QED BY <1>1, <1>2, <1>3, <1>4, <1>5, <1>6
  DEF Next, scan, scan_found, free_pages

\* Before the first free_pages the pages in use stay one block: the search
\* reaches the first free page, RESERVED being even, and takes what follows.
LEMMA OrderStep ==
  ASSUME IInv, Next PROVE BootInOrder' /\ ScanInOrder'
<1> USE DEF IInv, TypeOK, BootInOrder, ScanInOrder, Frontier
<1>1. ASSUME NEW n \in 1..MaxRun, alloc_pages(n) PROVE BootInOrder' /\ ScanInOrder'
  BY <1>1 DEF alloc_pages
<1>2. CASE scan_free
  <2>1. ~freed => i - (pg_count - count) = Frontier
    BY <1>2 DEF scan_free
  <2>2. i' - (pg_count' - count') = i - (pg_count - count)
    BY <1>2 DEF scan_free
  <2> QED BY <1>2, <2>1, <2>2 DEF scan_free
<1>3. CASE scan_found
  <2>1. /\ runs' = runs \cup {[first |-> i + 1 - pg_count, count |-> pg_count]}
        /\ start' = i + 1 /\ freed' = freed /\ pc' = "idle" /\ i \notin bitmap
        /\ count = 1 /\ pg_count \in 1..MaxRun
        /\ bitmap' = bitmap \cup (i + 1 - pg_count) .. i
    BY <1>3 DEF scan_found, bitmap_sets, ScanInv
  <2>2. ~freed => i - (pg_count - 1) = Frontier
    BY <1>3, <2>1 DEF scan_found
  <2>3. runs' # {} /\ Frontier' = i + 1
    BY <2>1
  <2>4. Frontier \in Nat
    OBVIOUS
  <2>5. ~freed => bitmap' = 0 .. i
    BY <2>1, <2>2, <2>4
  <2> QED BY <2>1, <2>3, <2>5
<1>4. CASE scan_used
  <2>1. ~freed => i < RESERVED /\ i % 2 = 0 /\ runs = {}
    BY <1>4 DEF scan_used, ScanInv
  <2>2. ~freed => i + 2 = RESERVED \/ (i + 2 < RESERVED /\ (i + 2) % 2 = 0)
    BY <2>1
  <2> QED BY <1>4, <2>1, <2>2 DEF scan_used
<1>5. CASE out_of_memory
  BY <1>5 DEF out_of_memory, search
<1>6. ASSUME NEW r \in runs, free_pages(r) PROVE BootInOrder' /\ ScanInOrder'
  BY <1>6 DEF free_pages
<1>7. CASE halted
  BY <1>7 DEF halted, vars, search
<1> QED BY <1>1, <1>2, <1>3, <1>4, <1>5, <1>6, <1>7 DEF Next, scan

\* Every step keeps the inductive invariant; so does every step of a module that
\* composes its steps of steps of this one.
LEMMA Preservation ==
  ASSUME IInv, [Next]_vars PROVE IInv'
<1>1. CASE Next
  <2>1. TypeOK' /\ BitmapInv' /\ ScanInv' /\ BootInOrder' /\ ScanInOrder'
    BY <1>1, TypeStep, BitmapStep, ScanStep, OrderStep
  <2>2. (pc = "panic" => i >= TOTAL_PAGES)'
    BY <1>1 DEF Next, scan, alloc_pages, scan_free, scan_found, scan_used,
                out_of_memory, free_pages, halted, vars, search, IInv
  <2> QED BY <2>1, <2>2 DEF IInv
<1>2. CASE UNCHANGED vars
  BY <1>2 DEF vars, search, IInv, TypeOK, BitmapInv, Pages, ScanInv, Counted,
              BootInOrder, ScanInOrder, Frontier
<1> QED BY <1>1, <1>2

\* The inductive invariant holds of every behaviour.
THEOREM Invariance == Spec => []IInv
<1>1. IInv /\ [Next]_vars => IInv'
  BY Preservation
<1> QED BY <1>1, InitIInv, PTL DEF Spec

\* No page ever belongs to two callers, and the bitmap says who holds what.
THEOREM BitmapCorrect == Spec => []BitmapInv
<1>1. IInv => BitmapInv
  BY DEF IInv
<1> QED BY <1>1, Invariance, PTL

\* A panic means there is no hole of one page more than asked for from the
\* hint upwards.
THEOREM PanicTells == Spec => []PanicJustified
<1>1. IInv => PanicJustified
  <2> SUFFICES ASSUME IInv, pc = "panic",
                      NEW a \in start .. (TOTAL_PAGES - 1 - pg_count),
                      (a .. (a + pg_count)) \cap bitmap = {}
               PROVE  FALSE
    BY DEF PanicJustified
  <2>1. count \in 1..pg_count /\ a + 1 >= i - (pg_count - count) /\ i >= TOTAL_PAGES
    BY DEF IInv, ScanInv
  <2>2. /\ pg_count \in Nat /\ i \in Nat /\ a \in Int
        /\ a <= TOTAL_PAGES - 1 - pg_count /\ TOTAL_PAGES \in Nat
    BY DEF IInv, TypeOK
  <2> QED BY <2>1, <2>2
<1> QED BY <1>1, Invariance, PTL

\* Until the first free_pages the pages in use are one block.
THEOREM BootCorrect == Spec => []BootInOrder
<1>1. IInv => BootInOrder
  BY DEF IInv
<1> QED BY <1>1, Invariance, PTL

\* The search over the bitmap hands out pages as PageAlloc says.
THEOREM Refinement == Spec => Implements
<1>1. Init => Abs!PInit
  BY DEF Init, Abs!PInit
<1>2. IInv /\ [Next]_vars => [Abs!PNext]_(Abs!pvars)
  <2> SUFFICES ASSUME IInv, [Next]_vars PROVE [Abs!PNext]_(Abs!pvars)
    OBVIOUS
  <2> USE DEF Abs!pvars
  <2>1. ASSUME NEW n \in 1..MaxRun, alloc_pages(n) PROVE Abs!PNext
    <3>1. Abs!Ask(n)
      BY <2>1 DEF alloc_pages, Abs!Ask
    <3> QED BY <3>1 DEF Abs!PNext
  <2>2. CASE scan_found
    <3> DEFINE p == i + 1 - pg_count
               r == [first |-> p, count |-> pg_count]
    <3>1. /\ Pages(r) \cap bitmap = {} /\ p \in RESERVED .. (TOTAL_PAGES - 1)
          /\ Pages(r) \subseteq RESERVED .. (TOTAL_PAGES - 1)
      BY <2>2, GrantIsFree DEF Run
    <3>2. Abs!Pages(r) = Pages(r)
      BY DEF Abs!Pages, Pages
    <3>3. Abs!Held \subseteq bitmap
      BY DEF Abs!Held, Abs!Pages, Pages, IInv, BitmapInv
    <3>4. pc = "scan" /\ pc' = "idle" /\ runs' = runs \cup {r} /\ pg_count > 0
      BY <2>2 DEF scan_found, IInv, TypeOK, ScanInv
    <3>5. Abs!Grant(p)
      <4>1. (IF pc = "idle" THEN 0 ELSE pg_count) = pg_count
        BY <3>4
      <4>2. Pages(r) \subseteq (RESERVED .. (TOTAL_PAGES - 1)) \ Abs!Held
        BY <3>1, <3>3
      <4> QED BY <3>2, <3>4, <4>1, <4>2 DEF Abs!Grant
    <3> QED BY <3>1, <3>5 DEF Abs!PNext
  <2>3. ASSUME NEW r \in runs, free_pages(r) PROVE Abs!PNext
    <3>1. Abs!Release(r)
      BY <2>3 DEF free_pages, search, Abs!Release
    <3> QED BY <3>1 DEF Abs!PNext
  <2>4. ASSUME scan_free \/ scan_used \/ out_of_memory \/ halted \/ UNCHANGED vars
        PROVE  UNCHANGED Abs!pvars
    BY <2>4 DEF scan_free, scan_used, out_of_memory, halted, vars, search
  <2> QED BY <2>1, <2>2, <2>3, <2>4 DEF Next, scan
<1> QED BY <1>1, <1>2, Invariance, PTL DEF Spec, Implements, Abs!PSpec

-----------------------------------------------------------------------------
(* The layout *)

\* Where the regions lie: behind the image, one behind the other.
LEMMA Layout ==
  ASSUME bss_end \in (4 * ImageEnd - 4) .. (4 * ImageEnd)
  PROVE  /\ ImageEnd \in Nat /\ ImageEnd = RESERVED + CODE + DATA + BSS
         /\ {CODE, DATA, BSS} \subseteq Nat \ {0} /\ RESERVED \in Nat \ {0}
         /\ bss_end \in Nat
         /\ TASK_PAGES_START \in ImageEnd .. (ImageEnd + 1)
         /\ TASK_KSTACK_START = TASK_PAGES_START + NPages + 1
         /\ KERN_HEAP_START = TASK_KSTACK_START + NKstack + 1
         /\ HEAP_END = KERN_HEAP_START + NHeap
         /\ NPages \in Nat \ {0, 1} /\ NKstack \in Nat /\ NHeap \in Nat /\ NKstack % 2 = 0
BY VmmAssumption DEF VmmAssumption, ImageEnd, TASK_PAGES_START, TASK_KSTACK_START,
   KERN_HEAP_START, HEAP_END

LEMMA Regions ==
  ASSUME bss_end \in (4 * ImageEnd - 4) .. (4 * ImageEnd)
  PROVE  /\ PageSlots \subseteq VPage /\ KstackSlots \subseteq VPage
         /\ \A v \in PageSlots : v \in Nat /\ v >= ImageEnd /\ v < TASK_KSTACK_START
         /\ \A v \in KstackSlots : v \in Nat /\ v > TASK_KSTACK_START /\ v < KERN_HEAP_START
                                   /\ v > ImageEnd
         /\ KERN_HEAP_START > TASK_KSTACK_START
         /\ KERN_HEAP_START .. HEAP_END \subseteq VPage
         /\ KERN_HEAP_START \in Nat /\ HEAP_END \in Nat
         /\ 0 .. (ImageEnd - 1) \subseteq VPage /\ VPage \subseteq Nat
BY Layout DEF PageSlots, KstackSlots, VPage

\* The linker's choice stays, and with it all of the layout.
LEMMA LayoutStays ==
  ASSUME UNCHANGED bss_end
  PROVE  /\ PageSlots' = PageSlots /\ KstackSlots' = KstackSlots
         /\ TASK_PAGES_START' = TASK_PAGES_START /\ TASK_KSTACK_START' = TASK_KSTACK_START
         /\ KERN_HEAP_START' = KERN_HEAP_START /\ HEAP_END' = HEAP_END /\ Offset' = Offset
BY DEF PageSlots, KstackSlots, TASK_PAGES_START, TASK_KSTACK_START, KERN_HEAP_START,
   HEAP_END, Offset

\* A set of natural numbers that is not empty has a least element.
LEMMA LeastPage ==
  ASSUME NEW T, T \subseteq Nat, T # {}
  PROVE  \E x \in T : \A y \in T : x <= y
<1> DEFINE less == OpToRel(<, Nat)
<1>1. less = { q \in Nat \X Nat : q[1] < q[2] }
  BY Zenon DEF OpToRel
<1>2. IsWellFoundedOn(less, Nat)
  BY Zenon, NatLessThanWellFounded
<1> HIDE DEF less
<1>3. \A m, n \in Nat : m < n => <<m, n>> \in less
  BY <1>1
<1>4. PICK x \in T : \A y \in T : ~ (<<y, x>> \in less)
  BY <1>2, WFMin
<1>5. ASSUME NEW y \in T, y < x
      PROVE  FALSE
  <2>1. <<y, x>> \in less
    BY <1>3, <1>5
  <2> QED
    BY <1>4, <2>1
<1> QED
  BY <1>4, <1>5

\* Where __region_map puts a page.
LEMMA FirstEmptyIsEmpty ==
  ASSUME NEW region, region \subseteq Nat, EmptySlots(region) # {}
  PROVE  /\ FirstEmpty(region) \in EmptySlots(region)
         /\ \A w \in EmptySlots(region) : FirstEmpty(region) <= w
<1>1. EmptySlots(region) \subseteq Nat
  BY DEF EmptySlots
<1>2. \E v \in EmptySlots(region) : \A w \in EmptySlots(region) : v <= w
  BY <1>1, LeastPage
<1> QED
  BY <1>2 DEF FirstEmpty

-----------------------------------------------------------------------------
(* Who owns a page, step by step *)

\* Nothing is granted while the search runs or no function waits; a function
\* that waits for one page is granted the page that the search found.
LEMMA GrantedPages ==
  ASSUME VIInv
  PROVE  /\ pc # "idle" \/ job \in {"none", "fault"} => Granted = {}
         /\ pc = "idle" /\ job \notin {"none", "fault"} /\ pg_count = 1 => Granted = {i}
         /\ i \in Nat /\ pg_count \in Nat
BY DEF VIInv, IInv, TypeOK, Granted

\* A call of alloc_pages disturbs no owner.
LEMMA CallOwns ==
  ASSUME VIInv, job \in {"none", "fault"}, NEW n, alloc_pages(n), UNCHANGED pte
  PROVE  OwnerInv' /\ NoPageTwice'
<1>1. Granted = {} /\ Granted' = {}
  BY GrantedPages DEF alloc_pages, Granted
<1>2. UNCHANGED <<bitmap, runs, pte>>
  BY DEF alloc_pages
<1>3. Mapped' = Mapped
  BY <1>2 DEF Mapped
<1> QED
  BY <1>1, <1>2, <1>3 DEF VIInv, OwnerInv, NoPageTwice

\* A step of the search: what it grants was in no mapping.
LEMMA SearchOwns ==
  ASSUME VIInv, pmm_step
  PROVE  OwnerInv' /\ NoPageTwice'
<1>1. UNCHANGED <<pte, cur_heap_ptr, job, booted, left, held, bss_end>> /\ Mapped' = Mapped
  BY DEF pmm_step, vmm, Mapped
<1>2. NoPageTwice'
  BY <1>1 DEF VIInv, NoPageTwice
<1>3. CASE scan_found
  <2> DEFINE r == [first |-> i + 1 - pg_count, count |-> pg_count]
  <2>1. Pages(r) \cap bitmap = {} /\ runs' = runs \cup {r} /\ i + 1 - pg_count \in Nat
    BY <1>3, GrantIsFree DEF scan_found, VIInv
  <2>2. pc = "scan" /\ pc' = "idle" /\ job \notin {"none", "fault"} /\ UNCHANGED search
    BY <1>3 DEF scan_found, VIInv, JobInv
  <2>3. i \in Nat /\ pg_count \in Nat /\ UNCHANGED <<i, pg_count>>
    BY <2>2, GrantedPages DEF search
  <2>4. Pages(r) = (i + 1 - pg_count) .. i
    BY <2>1, <2>3 DEF Pages
  <2>5. bitmap' = bitmap \cup Pages(r)
    BY <1>3, <2>3, <2>4 DEF scan_found, bitmap_sets
  <2>6. Granted = {} /\ Granted' = Pages(r)
    BY <1>1, <2>2, <2>3, <2>4, GrantedPages DEF Granted
  <2>7. pg_count = 1 => r = [first |-> i, count |-> 1]
    BY <2>3
  <2> HIDE DEF r
  <2> QED
    BY <1>1, <1>2, <2>1, <2>3, <2>5, <2>6, <2>7 DEF VIInv, OwnerInv
<1>4. CASE scan_free \/ scan_used \/ out_of_memory \/ halted
  <2>1. UNCHANGED <<bitmap, runs>> /\ pc # "idle" /\ pc' # "idle"
    BY <1>4 DEF scan_free, scan_used, out_of_memory, halted, vars
  <2>2. Granted = {} /\ Granted' = {}
    BY <2>1, GrantedPages DEF Granted
  <2> QED
    BY <1>1, <1>2, <2>1, <2>2 DEF VIInv, OwnerInv
<1> QED
  BY <1>3, <1>4 DEF pmm_step, scan

\* A page that was granted is mapped where nothing was.
LEMMA MapOwns ==
  ASSUME VIInv, pc = "idle", job \notin {"none", "fault"}, pg_count = 1,
         NEW v \in VPage, pte[v] = NotPresent, pte' = [pte EXCEPT ![v] = i],
         UNCHANGED <<bitmap, runs>>, job' \in {"none", "fault"} \/ pc' # "idle"
  PROVE  OwnerInv' /\ NoPageTwice' /\ Mapped' = Mapped \cup {v} /\ pte'[v] = i
<1>1. Granted = {i} /\ i \in Nat /\ Granted' = {}
  BY GrantedPages DEF Granted
<1>2. i # NotPresent
  BY <1>1, VmmAssumption DEF VmmAssumption
<1>3. /\ pte'[v] = i /\ v \notin Mapped
      /\ \A w \in VPage \ {v} : pte'[w] = pte[w]
  BY DEF VIInv, VTypeOK, Mapped
<1>4. Mapped' = Mapped \cup {v}
  BY <1>2, <1>3 DEF Mapped
<1>5. \A w \in Mapped : pte[w] # i /\ pte'[w] = pte[w]
  BY <1>1, <1>3 DEF VIInv, OwnerInv, Mapped
<1>6. NoPageTwice'
  BY <1>3, <1>4, <1>5 DEF VIInv, NoPageTwice
<1>7. { pte'[w] : w \in Mapped' } = { pte[w] : w \in Mapped } \cup {i}
  BY <1>3, <1>4, <1>5
<1>8. OwnerInv'
  BY <1>1, <1>3, <1>4, <1>5, <1>7 DEF VIInv, OwnerInv
<1> QED
  BY <1>3, <1>4, <1>6, <1>8

\* A page that no place can be found for goes back, and nobody else's with it.
LEMMA GiveBackOwns ==
  ASSUME VIInv, pc = "idle", job \notin {"none", "fault"}, pg_count = 1,
         free_pages([first |-> i, count |-> 1]), UNCHANGED pte, job' = "none"
  PROVE  OwnerInv' /\ NoPageTwice' /\ Mapped' = Mapped
<1> DEFINE r == [first |-> i, count |-> 1]
<1>1. Granted = {i} /\ i \in Nat /\ Granted' = {}
  BY GrantedPages DEF Granted
<1>2. Mapped' = Mapped /\ NoPageTwice'
  <2>1. Mapped' = Mapped
    BY DEF Mapped
  <2> QED
    BY <2>1 DEF VIInv, NoPageTwice
<1>3. bitmap' = bitmap \ {i} /\ runs' = runs \ {r}
  BY <1>1 DEF free_pages, bitmap_unsets
<1>4. /\ i \notin 0 .. (RESERVED - 1)
      /\ \A v \in Mapped : pte[v] # i
  BY <1>1 DEF VIInv, OwnerInv
<1>5. bitmap' = (0 .. (RESERVED - 1)) \cup { pte'[v] : v \in Mapped' }
  BY <1>1, <1>2, <1>3, <1>4 DEF VIInv, OwnerInv
<1>6. ASSUME NEW v \in Mapped', v >= ImageEnd
      PROVE  [first |-> pte'[v], count |-> 1] \in runs'
  BY <1>2, <1>3, <1>4, <1>6 DEF VIInv, OwnerInv
<1> QED
  BY <1>1, <1>2, <1>5, <1>6 DEF OwnerInv

\* A page that is given back is behind no other address.
LEMMA FreeOwns ==
  ASSUME VIInv, job = "none", NEW v \in held, free_pages([first |-> pte[v], count |-> 1]),
         pte' = [pte EXCEPT ![v] = NotPresent], UNCHANGED job
  PROVE  /\ OwnerInv' /\ NoPageTwice' /\ Mapped' = Mapped \ {v}
         /\ [first |-> pte[v], count |-> 1] \in runs /\ v >= ImageEnd
<1> DEFINE p == pte[v]
           r == [first |-> p, count |-> 1]
<1>1. v \in Mapped /\ v \in VPage /\ v >= ImageEnd /\ v \in Nat
  <2>1. v \in Mapped /\ v \in VPage
    BY DEF VIInv, LayoutInv, Mapped
  <2>2. v \in PageSlots \cup KstackSlots
    BY DEF VIInv, VTypeOK
  <2>3. bss_end \in (4 * ImageEnd - 4) .. (4 * ImageEnd)
    BY DEF VIInv, LayoutInv
  <2> HIDE DEF p, r
  <2> QED
    BY <2>1, <2>2, <2>3, Regions, Layout
<1>2. r \in runs
  BY <1>1 DEF VIInv, OwnerInv
<1>3. p \in Nat /\ p >= RESERVED
  BY <1>2 DEF VIInv, IInv, TypeOK, Run
<1>4. bitmap' = bitmap \ {p} /\ runs' = runs \ {r}
  BY <1>3 DEF free_pages, bitmap_unsets
<1>5. /\ pte'[v] = NotPresent
      /\ \A w \in VPage \ {v} : pte'[w] = pte[w]
  BY <1>1 DEF VIInv, VTypeOK
<1>6. Mapped' = Mapped \ {v}
  BY <1>5 DEF Mapped
<1>7. \A w \in Mapped' : w \in Mapped /\ pte'[w] = pte[w] /\ pte[w] # p
  BY <1>1, <1>5, <1>6 DEF VIInv, NoPageTwice, Mapped
<1>8. NoPageTwice'
  BY <1>7 DEF VIInv, NoPageTwice
<1>9. { pte'[w] : w \in Mapped' } = { pte[w] : w \in Mapped } \ {p}
  BY <1>1, <1>6, <1>7
<1>10. Granted = {} /\ Granted' = {}
  BY GrantedPages DEF Granted
<1>11. p \notin 0 .. (RESERVED - 1)
  BY <1>3
<1>12. bitmap' = (0 .. (RESERVED - 1)) \cup { pte'[w] : w \in Mapped' }
  <2>1. bitmap = (0 .. (RESERVED - 1)) \cup { pte[w] : w \in Mapped }
    BY <1>10 DEF VIInv, OwnerInv
  <2> HIDE DEF p
  <2> QED
    BY <1>4, <1>9, <1>11, <2>1
<1>13. ASSUME NEW w \in Mapped', w >= ImageEnd
       PROVE  [first |-> pte'[w], count |-> 1] \in runs'
  BY <1>4, <1>7, <1>13 DEF VIInv, OwnerInv
<1>14. OwnerInv'
  BY <1>10, <1>12, <1>13 DEF OwnerInv
<1> QED
  BY <1>1, <1>2, <1>6, <1>8, <1>14

\* The k-th section of the image, in numbers.
LEMMA Sections ==
  /\ SectionEnd(0) = RESERVED
  /\ \A k \in 0..5 : SectionEnd(k) \in RESERVED .. ImageEnd
  /\ \A k \in 3..5 : SectionEnd(k) = ImageEnd
  /\ \A k \in 0..2 : SectionEnd(k + 1) = SectionEnd(k) + BootPages(k)
  /\ \A k \in 0..4 : BootPages(k) \in 1..MaxRun
  /\ BootPages(3) = 1 /\ BootPages(4) = 1
BY VmmAssumption DEF VmmAssumption, SectionEnd, BootPages, ImageEnd

\* While the image is mapped, what alloc_pages gave are the pages of the
\* section: nobody has freed anything, and the pages in use are one block.
LEMMA SectionGranted ==
  ASSUME VIInv, Returned("boot"), booted < 3
  PROVE  /\ Granted = SectionPages(booted + 1)
         /\ Mapped = RESERVED .. (SectionEnd(booted) - 1)
         /\ \A v \in Mapped : pte[v] = v
<1> DEFINE e == SectionEnd(booted)
           n == BootPages(booted)
           f == Frontier
<1>1. booted \in 0..2 /\ ~freed /\ pg_count = n /\ pc = "idle" /\ job = "boot"
  BY DEF VIInv, VTypeOK, JobInv, Returned
<1>2. /\ e \in Nat /\ e >= RESERVED /\ e <= ImageEnd /\ n \in Nat /\ n > 0
      /\ SectionEnd(booted + 1) = e + n
  BY <1>1, Sections, Layout DEF VIInv, LayoutInv
<1>3. Granted = (i + 1 - n) .. i /\ i \in Nat
  BY <1>1, GrantedPages DEF Granted
<1>4. \A v \in Mapped : v \in Nat /\ v < ImageEnd
  BY <1>1, Regions, Layout DEF VIInv, LayoutInv, Mapped
<1>5. /\ Mapped = RESERVED .. (e - 1)
      /\ \A v \in Mapped : pte[v] = v
  <2>1. \A v \in 0 .. (ImageEnd - 1) :
          v \in VPage /\ pte[v] = IF v \in RESERVED .. (e - 1) THEN v ELSE NotPresent
    BY Regions DEF VIInv, LayoutInv
  <2>2. \A v \in Nat : v # NotPresent
    BY VmmAssumption DEF VmmAssumption
  <2> QED
    BY <1>2, <1>4, <2>1, <2>2, Layout DEF Mapped, VIInv, LayoutInv
<1>6. { pte[v] : v \in Mapped } = RESERVED .. (e - 1)
  BY <1>5
<1>7. bitmap = (0 .. (e - 1)) \cup ((i + 1 - n) .. i)
  <2>1. (0 .. (RESERVED - 1)) \cup (RESERVED .. (e - 1)) = 0 .. (e - 1)
    BY <1>2
  <2> QED
    BY <1>3, <1>6, <2>1 DEF VIInv, OwnerInv
<1>8. bitmap = 0 .. (f - 1) /\ f \in Int
  BY <1>1 DEF VIInv, IInv, BootInOrder, Frontier, TypeOK
<1>9. ((i + 1 - n) .. i) \cap (0 .. (e - 1)) = {}
  <2>1. (0 .. (RESERVED - 1)) \cup (RESERVED .. (e - 1)) = 0 .. (e - 1)
    BY <1>2
  <2> QED
    BY <1>3, <1>6, <2>1 DEF VIInv, OwnerInv
<1>10. i + 1 - n = e
  <2> HIDE DEF e, n, f
  <2>1. i + 1 - n \in (i + 1 - n) .. i /\ i \in (i + 1 - n) .. i
    BY <1>2, <1>3
  <2>2. i + 1 - n \in Nat /\ i <= f - 1
    BY <1>2, <1>3, <1>7, <1>8, <2>1
  <2>3. i + 1 - n >= e
    BY <1>2, <1>9, <2>1, <2>2
  <2>4. e \in 0 .. (f - 1)
    BY <1>2, <1>8, <2>2, <2>3, <1>3
  <2>5. e \in (i + 1 - n) .. i
    BY <1>2, <1>7, <1>8, <2>4
  <2> QED
    BY <1>2, <1>3, <2>2, <2>3, <2>5
<1>11. SectionPages(booted + 1) = e .. (e + n - 1)
  BY <1>1, <1>2 DEF SectionPages
<1> QED
  BY <1>2, <1>3, <1>5, <1>10, <1>11

LEMMA SectionOwns ==
  ASSUME VIInv, init_kern_map
  PROVE  /\ OwnerInv' /\ NoPageTwice'
         /\ Mapped' = RESERVED .. (SectionEnd(booted + 1) - 1)
         /\ \A v \in VPage : pte'[v] = IF v \in Mapped' THEN v ELSE NotPresent
<1> DEFINE e == SectionEnd(booted)
           f == SectionEnd(booted + 1)
<1>1. /\ Granted = SectionPages(booted + 1) /\ Mapped = RESERVED .. (e - 1)
      /\ \A v \in Mapped : pte[v] = v
  BY SectionGranted DEF init_kern_map
<1>2. /\ e \in Nat /\ f \in Nat /\ RESERVED <= e /\ e < f /\ f <= ImageEnd
      /\ SectionPages(booted + 1) = e .. (f - 1) /\ ImageEnd \in Nat
  BY Sections, Layout DEF VIInv, LayoutInv, VTypeOK, init_kern_map, SectionPages
<1>3. 0 .. (ImageEnd - 1) \subseteq VPage
  BY Regions DEF VIInv, LayoutInv
<1>4. \A v \in VPage : pte'[v] = IF v \in e .. (f - 1) THEN v ELSE pte[v]
  BY <1>2 DEF init_kern_map
<1>5. \A v \in Nat : v # NotPresent
  BY VmmAssumption DEF VmmAssumption
<1>6. Mapped' = RESERVED .. (f - 1)
  <2>1. RESERVED .. (f - 1) = (RESERVED .. (e - 1)) \cup (e .. (f - 1))
    BY <1>2
  <2>2. e .. (f - 1) \subseteq VPage /\ e .. (f - 1) \subseteq Nat
    BY <1>2, <1>3
  <2> QED
    BY <1>1, <1>4, <1>5, <2>1, <2>2 DEF Mapped
<1>7. \A v \in VPage : pte'[v] = IF v \in Mapped' THEN v ELSE NotPresent
  BY <1>1, <1>2, <1>4, <1>6 DEF Mapped
<1>8. NoPageTwice' /\ { pte'[v] : v \in Mapped' } = Mapped'
  BY <1>7 DEF NoPageTwice, Mapped
<1>9. Granted' = {} /\ UNCHANGED <<bitmap, runs>>
  BY DEF init_kern_map, Granted, vars
<1>10. { pte[v] : v \in Mapped } = Mapped
  BY <1>1
<1>11. bitmap' = (0 .. (RESERVED - 1)) \cup { pte'[v] : v \in Mapped' }
  <2>1. RESERVED .. (f - 1) = (RESERVED .. (e - 1)) \cup (e .. (f - 1))
    BY <1>2
  <2> QED
    BY <1>1, <1>2, <1>6, <1>8, <1>9, <1>10, <2>1 DEF VIInv, OwnerInv
<1>12. \A v \in Mapped' : ~ (v >= ImageEnd)
  BY <1>2, <1>6
<1>13. OwnerInv'
  BY <1>9, <1>11, <1>12 DEF OwnerInv
<1> QED
  BY <1>6, <1>7, <1>8, <1>13

-----------------------------------------------------------------------------
(* Every action: a step of the page allocator that keeps the rest as well *)

Kept == /\ [Next]_vars
        /\ VTypeOK' /\ JobInv' /\ LayoutInv' /\ SlotsInv' /\ OwnerInv' /\ NoPageTwice'
        /\ FaultsByImageEnd'

\* What is laid out where does not change with a call, with a step of the
\* search or with the fault that never ends.
LEMMA LaidOutAsBefore ==
  ASSUME VIInv, UNCHANGED <<pte, cur_heap_ptr, booted, held, bss_end>>,
         job = "fault" <=> job' = "fault"
  PROVE  LayoutInv' /\ SlotsInv' /\ FaultsByImageEnd'
<1>1. Mapped' = Mapped
  BY DEF Mapped
<1>2. SectionEnd(booted)' = SectionEnd(booted)
  BY DEF SectionEnd
<1>3. FaultsByImageEnd'
  BY LayoutStays DEF VIInv, FaultsByImageEnd
<1>4. LayoutInv'
  BY <1>1, <1>2, LayoutStays DEF VIInv, LayoutInv
<1>5. SlotsInv'
  BY <1>1, LayoutStays DEF VIInv, SlotsInv, SlotsAreHeld, BootStack
<1> QED
  BY <1>3, <1>4, <1>5

LEMMA TypesAsBefore ==
  ASSUME VIInv, UNCHANGED <<pte, cur_heap_ptr, booted, held, bss_end>>,
         job' \in {"none", "boot", "page", "kstack", "sbrk", "fault"},
         left' \in 0..MaxBrk
  PROVE  VTypeOK'
BY LayoutStays DEF VIInv, VTypeOK

\* The searches that vmm_init, the callers and ksbrk start.
LEMMA CallsKeep ==
  ASSUME VIInv, NEW n \in 1..MaxRun, job = "none", alloc_pages(n),
         job' \in {"boot", "page", "kstack", "sbrk"}, left' \in 0..MaxBrk,
         UNCHANGED <<pte, cur_heap_ptr, booted, held, bss_end>>,
         job' = "boot" => booted < 5 /\ n = BootPages(booted),
         job' # "boot" => booted = 5 /\ n = 1,
         job' = "sbrk" => left' > 0 /\ cur_heap_ptr + left' <= HEAP_END
  PROVE  Kept
<1>1. Next
  BY DEF Next
<1>2. OwnerInv' /\ NoPageTwice'
  BY CallOwns
<1>3. LayoutInv' /\ SlotsInv' /\ FaultsByImageEnd' /\ VTypeOK'
  BY LaidOutAsBefore, TypesAsBefore
<1>4. /\ pg_count' = n /\ pc' = "scan" /\ freed' = freed
      /\ BootPages(booted)' = BootPages(booted) /\ HEAP_END' = HEAP_END
  BY LayoutStays DEF alloc_pages, BootPages, SectionEnd
<1>5. JobInv'
  BY <1>4 DEF VIInv, JobInv
<1> QED
  BY <1>1, <1>2, <1>3, <1>5 DEF Kept

LEMMA BootCallKeeps == ASSUME VIInv, boot_call, UNCHANGED bss_end PROVE Kept
<1>1. booted \in 0..4 /\ BootPages(booted) \in 1..MaxRun /\ left \in 0..MaxBrk
  BY Sections DEF boot_call, VIInv, VTypeOK
<1> QED
  BY <1>1, CallsKeep DEF boot_call

LEMMA CallKeeps ==
  ASSUME VIInv, NEW j \in {"page", "kstack"}, call(j), UNCHANGED bss_end PROVE Kept
<1>1. 1 \in 1..MaxRun /\ left \in 0..MaxBrk
  BY DEF VIInv, VTypeOK
<1> QED
  BY <1>1, CallsKeep DEF call

LEMMA KsbrkKeeps ==
  ASSUME VIInv, NEW n \in 1..MaxBrk, ksbrk(n), UNCHANGED bss_end PROVE Kept
<1>1. 1 \in 1..MaxRun /\ n \in 0..MaxBrk /\ n > 0
  BY VmmAssumption DEF VmmAssumption
<1> QED
  BY <1>1, CallsKeep DEF ksbrk

LEMMA SearchKeeps == ASSUME VIInv, pmm_step, UNCHANGED bss_end PROVE Kept
<1>1. /\ UNCHANGED <<pte, cur_heap_ptr, job, booted, left, held, bss_end, pg_count, freed>>
      /\ pc # "idle"
  BY DEF pmm_step, vmm, scan, scan_free, scan_found, scan_used, out_of_memory, halted,
         vars, search
<1>2. [Next]_vars
  BY DEF pmm_step, Next
<1>3. LayoutInv' /\ SlotsInv' /\ FaultsByImageEnd' /\ VTypeOK'
  BY <1>1, LaidOutAsBefore, TypesAsBefore DEF VIInv, VTypeOK
<1>4. BootPages(booted)' = BootPages(booted) /\ HEAP_END' = HEAP_END
  BY <1>1, LayoutStays DEF BootPages, SectionEnd
<1>5. JobInv'
  BY <1>1, <1>4 DEF VIInv, JobInv
<1> QED
  BY <1>2, <1>3, <1>5, SearchOwns DEF Kept

LEMMA FaultKeeps ==
  ASSUME VIInv, page_fault \/ UNCHANGED <<vars, vmm>>, UNCHANGED bss_end PROVE Kept
<1>1. /\ UNCHANGED <<pte, cur_heap_ptr, job, booted, left, held, bss_end>>
      /\ UNCHANGED <<bitmap, runs, pc, pg_count, i, freed>> /\ UNCHANGED vars
  BY DEF page_fault, vmm, vars, search
<1>2. LayoutInv' /\ SlotsInv' /\ FaultsByImageEnd' /\ VTypeOK'
  BY <1>1, LaidOutAsBefore, TypesAsBefore DEF VIInv, VTypeOK
<1>3. BootPages(booted)' = BootPages(booted) /\ HEAP_END' = HEAP_END
  BY <1>1, LayoutStays DEF BootPages, SectionEnd
<1>4. JobInv'
  BY <1>1, <1>3 DEF VIInv, JobInv
<1>5. Mapped' = Mapped /\ Granted' = Granted
  BY <1>1 DEF Mapped, Granted
<1>6. OwnerInv' /\ NoPageTwice'
  BY <1>1, <1>5 DEF VIInv, OwnerInv, NoPageTwice
<1> QED
  BY <1>1, <1>2, <1>4, <1>6 DEF Kept

\* The pages of the first user stack are the first slots of their region, and
\* no slot of the one region is one of the other.
LEMMA BootStackIs ==
  ASSUME bss_end \in (4 * ImageEnd - 4) .. (4 * ImageEnd), NEW k \in 0..5
  PROVE  LET B == TASK_PAGES_START .. (TASK_PAGES_START + k - 4)
         IN  /\ k < 4 => B = {}
             /\ k = 5 => B = TASK_PAGES_START .. (TASK_PAGES_START + 1)
             /\ B \subseteq PageSlots /\ TASK_PAGES_START \in Nat
             /\ PageSlots \cap KstackSlots = {}
<1>1. /\ TASK_PAGES_START \in Nat /\ NPages \in Nat \ {0, 1}
      /\ TASK_KSTACK_START = TASK_PAGES_START + NPages + 1
  BY Layout
<1>2. PageSlots \cap KstackSlots = {}
  BY <1>1 DEF PageSlots, KstackSlots
<1> QED
  BY <1>1, <1>2 DEF PageSlots

\* The section of the image is mapped where it was loaded.
LEMMA SectionKeeps == ASSUME VIInv, init_kern_map, UNCHANGED bss_end PROVE Kept
<1>1. /\ booted \in 0..2 /\ booted' = booted + 1 /\ job = "boot" /\ job' = "none"
      /\ UNCHANGED <<vars, cur_heap_ptr, left, held, bss_end, freed>> /\ pc' = "idle" /\ ~freed
  BY DEF init_kern_map, VIInv, VTypeOK, JobInv, Returned, vars
<1>2. /\ Mapped' = RESERVED .. (SectionEnd(booted') - 1)
      /\ \A v \in VPage : pte'[v] = IF v \in Mapped' THEN v ELSE NotPresent
      /\ OwnerInv' /\ NoPageTwice'
  BY <1>1, SectionOwns
<1>3. /\ SectionEnd(booted') \in RESERVED .. ImageEnd /\ ImageEnd \in Nat
      /\ (SectionEnd(booted))' = SectionEnd(booted')
  BY <1>1, Sections, Layout DEF VIInv, LayoutInv, SectionEnd
<1>4. bss_end \in (4 * ImageEnd - 4) .. (4 * ImageEnd)
  BY DEF VIInv, LayoutInv
<1>5. \A v \in Mapped : ~ (v >= ImageEnd)
  BY <1>1 DEF VIInv, LayoutInv
<1>6. held = {}
  <2>1. \A v \in held : v \in Mapped /\ v \in PageSlots \cup KstackSlots
    BY DEF VIInv, VTypeOK, LayoutInv
  <2> QED
    BY <2>1, <1>4, <1>5, Regions, Layout
<1>7. cur_heap_ptr = KERN_HEAP_START
  <2>1. /\ KERN_HEAP_START \in Nat /\ KERN_HEAP_START > ImageEnd
        /\ cur_heap_ptr \in KERN_HEAP_START .. HEAP_END /\ HEAP_END \in Nat
    BY <1>3, <1>4, Regions, Layout DEF VIInv, LayoutInv
  <2>2. KERN_HEAP_START \notin KERN_HEAP_START .. (cur_heap_ptr - 1)
    BY <1>3, <1>5, <2>1 DEF VIInv, LayoutInv
  <2> QED
    BY <2>1, <2>2
<1>8. VTypeOK'
  <2>1. \A v \in Mapped' : v \in 0 .. (TOTAL_PAGES - 1)
    <3>1. { pte'[v] : v \in Mapped' } \subseteq 0 .. (TOTAL_PAGES - 1)
      BY <1>1, <1>2, Preservation DEF OwnerInv, VIInv, IInv, TypeOK, vars
    <3>2. Mapped' \subseteq VPage
      BY DEF Mapped
    <3> QED
      BY <1>2, <3>1, <3>2
  <2>2. pte' \in [VPage -> (0 .. (TOTAL_PAGES - 1)) \cup {NotPresent}]
    <3>1. pte' = [v \in VPage |-> pte'[v]]
      BY DEF init_kern_map
    <3> QED
      BY <1>2, <2>1, <3>1
  <2> QED
    BY <1>1, <1>6, <2>2 DEF VTypeOK, VIInv
<1>9. JobInv'
  BY <1>1 DEF JobInv
<1>10. LayoutInv'
  <2>1. \A v \in Mapped' : ~ (v >= ImageEnd)
    BY <1>2, <1>3
  <2>2. \A v \in 0 .. (ImageEnd - 1) :
          pte'[v] = IF v \in RESERVED .. (SectionEnd(booted') - 1) THEN v ELSE NotPresent
    BY <1>2, <1>4, Regions
  <2>3. KERN_HEAP_START .. (cur_heap_ptr - 1) = {} /\ cur_heap_ptr \in KERN_HEAP_START .. HEAP_END
    BY <1>4, <1>7, Regions, Layout
  <2> QED
    BY <1>1, <1>3, <1>4, <1>6, <2>1, <2>2, <2>3, LayoutStays DEF LayoutInv
<1>11. FaultsByImageEnd'
  BY <1>1 DEF FaultsByImageEnd
<1>12. SlotsInv'
  <2>1. \A v \in Mapped' : ~ (v >= ImageEnd)
    BY <1>2, <1>3
  <2>2. \A v \in PageSlots \cup KstackSlots : v >= ImageEnd
    BY <1>3, <1>4, Regions
  <2>3. BootStack' = {}
    <3>1. booted' \in 0..5 /\ booted' < 4
      BY <1>1
    <3> QED
      BY <1>4, <3>1, BootStackIs, LayoutStays DEF BootStack
  <2> QED
    BY <1>1, <1>6, <2>1, <2>2, <2>3, LayoutStays DEF SlotsInv, SlotsAreHeld
<1> QED
  BY <1>1, <1>2, <1>8, <1>9, <1>10, <1>11, <1>12 DEF Kept

\* How a region takes the page that was found: it is not page 0, as the search
\* never grants a reserved one, so either the region is full or it is mapped.
LEMMA RegionTakes ==
  ASSUME VIInv, job \in {"boot", "page", "kstack"}, pc = "idle", pg_count = 1,
         NEW region \in {PageSlots, KstackSlots},
         region_map(region), region_clear(region), UNCHANGED <<bss_end, left>>
  PROVE  /\ i \in RESERVED .. (TOTAL_PAGES - 1)
         /\ [Next]_vars /\ OwnerInv' /\ NoPageTwice'
         /\ \/ /\ EmptySlots(region) = {} /\ UNCHANGED pte /\ job' = "none" /\ pc' = "idle"
            \/ /\ EmptySlots(region) # {} /\ UNCHANGED vars /\ job' \in {"none", "fault"}
               /\ pte' = [pte EXCEPT ![FirstEmpty(region)] = i]
               /\ FirstEmpty(region) \in region \ Mapped
               /\ Mapped' = Mapped \cup {FirstEmpty(region)}
               /\ job' = "fault" <=>
                    \E v \in Cleared(FirstEmpty(region)) : pte'[v] = NotPresent
<1>1. bss_end \in (4 * ImageEnd - 4) .. (4 * ImageEnd)
  BY DEF VIInv, LayoutInv
<1>2. region \subseteq VPage /\ region \subseteq Nat
  BY <1>1, Regions
<1>3. Granted = {i} /\ [first |-> i, count |-> 1] \in runs
  BY GrantedPages DEF VIInv, OwnerInv
<1>4. i \in RESERVED .. (TOTAL_PAGES - 1) /\ phys_addr # 0
  BY <1>3 DEF VIInv, IInv, TypeOK, Run, phys_addr
<1>5. CASE EmptySlots(region) = {}
  <2>1. free_pages([first |-> i, count |-> 1]) /\ UNCHANGED pte /\ job' = "none"
    BY <1>4, <1>5 DEF region_map, region_clear, phys_addr
  <2>2. pc' = "idle" /\ Next
    BY <1>3, <2>1 DEF Next, free_pages
  <2> QED
    BY <1>4, <1>5, <2>1, <2>2, GiveBackOwns
<1>6. CASE EmptySlots(region) # {}
  <2> DEFINE v == FirstEmpty(region)
  <2>1. v \in EmptySlots(region)
    BY <1>2, <1>6, FirstEmptyIsEmpty
  <2>2. v \in region /\ v \in VPage /\ pte[v] = NotPresent /\ v \notin Mapped
    BY <1>2, <2>1 DEF EmptySlots, Mapped
  <2>3. pte' = [pte EXCEPT ![v] = i] /\ UNCHANGED vars /\ job' \in {"none", "fault"}
    BY <1>4, <1>6 DEF region_map, region_clear, phys_addr
  <2>4. job' = "fault" <=> \E w \in Cleared(v) : pte'[w] = NotPresent
    BY <1>4, <1>6 DEF region_clear, phys_addr
  <2>5. UNCHANGED <<bitmap, runs>>
    BY <2>3 DEF vars
  <2> HIDE DEF v
  <2>6. OwnerInv' /\ NoPageTwice' /\ Mapped' = Mapped \cup {v}
    BY <2>2, <2>3, <2>5, MapOwns
  <2> USE DEF v
  <2> QED
    BY <1>4, <1>6, <2>2, <2>3, <2>4, <2>6
<1> QED
  BY <1>5, <1>6

\* What a region took lies in it, and its new page may be held.
LEMMA RegionKeeps ==
  ASSUME VIInv, job \in {"boot", "page", "kstack"}, pc = "idle", pg_count = 1,
         NEW region \in {PageSlots, KstackSlots},
         region_map(region), region_clear(region), UNCHANGED <<cur_heap_ptr, bss_end, left>>,
         booted \in 3..5, booted' \in 3..5, booted' > 3 \/ job' = "fault",
         held' \subseteq held \cup { v \in region : pte[v] # pte'[v] }
  PROVE  [Next]_vars /\ VTypeOK' /\ JobInv' /\ LayoutInv' /\ OwnerInv' /\ NoPageTwice'
<1> DEFINE v == FirstEmpty(region)
<1>1. bss_end \in (4 * ImageEnd - 4) .. (4 * ImageEnd)
  BY DEF VIInv, LayoutInv
<1>2. /\ region \subseteq VPage
      /\ \A w \in region : w \in Nat /\ w >= ImageEnd
  BY <1>1, Regions, Layout
<1>3. /\ i \in RESERVED .. (TOTAL_PAGES - 1)
      /\ [Next]_vars /\ OwnerInv' /\ NoPageTwice'
      /\ job' \in {"none", "fault"} /\ pc' = "idle"
  BY RegionTakes DEF vars
<1>4. \/ UNCHANGED pte
      \/ /\ pte' = [pte EXCEPT ![v] = i] /\ v \in region \ Mapped
         /\ Mapped' = Mapped \cup {v}
  BY RegionTakes
<1> HIDE DEF v
<1>5. pte' \in [VPage -> (0 .. (TOTAL_PAGES - 1)) \cup {NotPresent}]
  BY <1>2, <1>3, <1>4 DEF VIInv, VTypeOK
<1>6. \A w \in VPage : pte'[w] = pte[w] \/ (w = v /\ v \in region /\ Mapped' = Mapped \cup {v})
  BY <1>2, <1>4 DEF VIInv, VTypeOK
<1>7. Mapped \subseteq Mapped' /\ Mapped' \subseteq Mapped \cup region
  BY <1>4 DEF Mapped
<1>8. held' \subseteq PageSlots \cup KstackSlots /\ held' \subseteq Mapped'
  <2>1. \A w \in held' : w \in held \/ (w = v /\ w \in region /\ Mapped' = Mapped \cup {v})
    BY <1>2, <1>6
  <2> QED
    BY <2>1, <1>7 DEF VIInv, VTypeOK, LayoutInv
<1>9. VTypeOK'
  BY <1>3, <1>5, <1>8, LayoutStays DEF VIInv, VTypeOK
<1>10. JobInv'
  BY <1>3 DEF JobInv
<1>11. LayoutInv'
  <2>1. SectionEnd(booted) = ImageEnd /\ (SectionEnd(booted))' = ImageEnd
    BY Sections DEF SectionEnd
  <2>2. \A w \in 0 .. (ImageEnd - 1) :
          pte'[w] = IF w \in RESERVED .. (ImageEnd - 1) THEN w ELSE NotPresent
    <3>1. \A w \in 0 .. (ImageEnd - 1) : w \in VPage /\ w \notin region
      BY <1>1, <1>2, Regions, Layout
    <3> QED
      BY <1>6, <2>1, <3>1 DEF VIInv, LayoutInv
  <2>3. ASSUME NEW w \in Mapped', w >= ImageEnd
        PROVE  w \in PageSlots \cup KstackSlots \cup KERN_HEAP_START .. (cur_heap_ptr - 1)
    BY <1>7, <2>3 DEF VIInv, LayoutInv
  <2>4. KERN_HEAP_START .. (cur_heap_ptr - 1) \subseteq Mapped'
    BY <1>7 DEF VIInv, LayoutInv
  <2> QED
    BY <1>1, <1>8, <2>1, <2>2, <2>3, <2>4, LayoutStays DEF VIInv, LayoutInv
<1> QED
  BY <1>3, <1>9, <1>10, <1>11

\* When the image ends with a page, clearing a page reaches no other.
LEMMA AlignedClears ==
  ASSUME VIInv, job \in {"boot", "page", "kstack"}, pc = "idle", pg_count = 1,
         NEW region \in {PageSlots, KstackSlots}, Offset = 0,
         region_map(region), region_clear(region), UNCHANGED <<bss_end, left>>
  PROVE  job' = "none"
<1>1. i # NotPresent
  BY RegionTakes, VmmAssumption DEF VmmAssumption
<1>2. CASE EmptySlots(region) = {}
  BY <1>2, RegionTakes
<1>3. CASE EmptySlots(region) # {}
  <2> DEFINE v == FirstEmpty(region)
  <2>1. /\ pte' = [pte EXCEPT ![v] = i] /\ v \in region /\ job' \in {"none", "fault"}
        /\ job' = "fault" <=> \E w \in Cleared(v) : pte'[w] = NotPresent
    BY <1>3, RegionTakes
  <2>2. v \in VPage
    BY <2>1, Regions DEF VIInv, LayoutInv
  <2> HIDE DEF v
  <2>3. pte'[v] = i
    BY <2>1, <2>2 DEF VIInv, VTypeOK
  <2> QED
    BY <1>1, <2>1, <2>3 DEF Cleared
<1> QED
  BY <1>2, <1>3

\* The first page of the first user stack: nothing is mapped behind it yet.
LEMMA FirstPageFaults ==
  ASSUME VIInv, job = "boot", booted = 3, pc = "idle", pg_count = 1, Offset # 0,
         region_map(PageSlots), region_clear(PageSlots), UNCHANGED <<bss_end, left>>
  PROVE  job' = "fault"
<1> DEFINE v == FirstEmpty(PageSlots)
<1>1. bss_end \in (4 * ImageEnd - 4) .. (4 * ImageEnd)
  BY DEF VIInv, LayoutInv
<1>2. \A w \in Mapped : ~ (w >= ImageEnd)
  BY DEF VIInv, LayoutInv
<1>3. TASK_PAGES_START \in EmptySlots(PageSlots)
  <2>1. TASK_PAGES_START \in PageSlots /\ TASK_PAGES_START >= ImageEnd
    <3>1. /\ TASK_PAGES_START \in Nat /\ TASK_PAGES_START >= ImageEnd
          /\ NPages \in Nat /\ TASK_KSTACK_START = TASK_PAGES_START + NPages + 1
      BY <1>1, Layout
    <3> QED
      BY <3>1 DEF PageSlots
  <2>2. TASK_PAGES_START \in VPage
    BY <1>1, <2>1, Regions
  <2> QED
    BY <1>2, <2>1, <2>2 DEF EmptySlots, Mapped
<1>4. /\ pte' = [pte EXCEPT ![v] = i] /\ v \in PageSlots
      /\ job' = "fault" <=> \E w \in Cleared(v) : pte'[w] = NotPresent
  BY <1>3, RegionTakes
<1> HIDE DEF v
<1>5. v + 1 \in VPage /\ v + 1 >= ImageEnd /\ v \in Nat
  <2>1. /\ TASK_PAGES_START \in ImageEnd .. (ImageEnd + 1) /\ ImageEnd \in Nat
        /\ NPages \in Nat /\ NKstack \in Nat /\ NHeap \in Nat
        /\ TASK_KSTACK_START = TASK_PAGES_START + NPages + 1
    BY <1>1, Layout
  <2>2. v \in TASK_PAGES_START .. (TASK_KSTACK_START - 1)
    BY <1>4 DEF PageSlots
  <2> QED
    BY <2>1, <2>2 DEF VPage
<1>6. pte'[v + 1] = NotPresent
  BY <1>2, <1>4, <1>5 DEF Mapped, VIInv, VTypeOK
<1> QED
  BY <1>4, <1>6 DEF Cleared

\* vmm_init takes the first two slots, one after the other.
LEMMA BootStackSlots ==
  ASSUME VIInv, booted \in {3, 4}, job = "boot", UNCHANGED <<held, bss_end>>,
         booted' = IF job' = "fault" THEN booted ELSE booted + 1,
         pc = "idle", pg_count = 1, region_map(PageSlots), region_clear(PageSlots),
         UNCHANGED left
  PROVE  SlotsInv'
<1> DEFINE v == FirstEmpty(PageSlots)
           w == TASK_PAGES_START + booted - 3
<1>1. bss_end \in (4 * ImageEnd - 4) .. (4 * ImageEnd)
  BY DEF VIInv, LayoutInv
<1>2. /\ held = {} /\ held' = {}
      /\ Mapped \cap (PageSlots \cup KstackSlots) = TASK_PAGES_START .. (w - 1)
  <2>1. TASK_PAGES_START + booted - 4 = w - 1
    BY <1>1, BootStackIs
  <2> QED
    BY <2>1 DEF VIInv, SlotsInv, SlotsAreHeld, BootStack
<1>3. /\ TASK_PAGES_START \in Nat /\ w \in PageSlots /\ PageSlots \subseteq VPage
      /\ PageSlots \subseteq Nat /\ \A x \in PageSlots : x >= TASK_PAGES_START
  <2>1. /\ TASK_PAGES_START \in Nat /\ NPages \in Nat \ {0, 1}
        /\ TASK_KSTACK_START = TASK_PAGES_START + NPages + 1
    BY <1>1, Layout
  <2> QED
    BY <1>1, <2>1, Regions DEF PageSlots
<1> HIDE DEF w
<1>4. w \in EmptySlots(PageSlots)
  <2>1. w \notin TASK_PAGES_START .. (w - 1)
    BY <1>3
  <2> QED
    BY <1>2, <1>3, <2>1 DEF EmptySlots, Mapped
<1>5. v = w
  <2>1. v \in EmptySlots(PageSlots) /\ v <= w
    BY <1>3, <1>4, FirstEmptyIsEmpty
  <2>2. v \in PageSlots /\ v \notin Mapped
    BY <2>1 DEF EmptySlots, Mapped
  <2>3. v \notin TASK_PAGES_START .. (w - 1)
    BY <1>2, <2>2
  <2> HIDE DEF v
  <2> QED
    BY <1>3, <2>1, <2>2, <2>3
<1>6. Mapped' = Mapped \cup {w}
  BY <1>4, <1>5, RegionTakes
<1>7. Mapped' \cap (PageSlots \cup KstackSlots) = TASK_PAGES_START .. w
  <2>1. TASK_PAGES_START .. w = TASK_PAGES_START .. (w - 1) \cup {w}
    BY <1>3 DEF w
  <2> QED
    BY <1>2, <1>3, <1>6, <2>1
<1>8. job' # "fault" => BootStack' = TASK_PAGES_START .. w
  <2>1. TASK_PAGES_START + (booted + 1) - 4 = w
    BY <1>3 DEF w
  <2> QED
    BY <2>1, LayoutStays DEF BootStack
<1> QED
  BY <1>2, <1>7, <1>8, LayoutStays DEF SlotsInv, SlotsAreHeld

\* What a caller is given is the slot newly mapped.
LEMMA AllocSlots ==
  ASSUME VIInv, booted = 5, job \in {"page", "kstack"}, pc = "idle", pg_count = 1,
         NEW region \in {PageSlots, KstackSlots},
         region_map(region), region_clear(region),
         held' = held \cup { v \in region : pte[v] # pte'[v] },
         UNCHANGED <<booted, left, bss_end>>
  PROVE  SlotsInv'
<1>1. bss_end \in (4 * ImageEnd - 4) .. (4 * ImageEnd)
  BY DEF VIInv, LayoutInv
<1>2. /\ Mapped \cap (PageSlots \cup KstackSlots) = BootStack \cup held
      /\ BootStack \cap held = {} /\ BootStack' = BootStack
  BY LayoutStays DEF VIInv, SlotsInv, SlotsAreHeld, BootStack
<1>3. region \subseteq VPage /\ region \subseteq PageSlots \cup KstackSlots
  BY <1>1, Regions
<1>4. CASE EmptySlots(region) = {}
  <2>1. UNCHANGED pte
    BY <1>4, RegionTakes
  <2>2. held' = held /\ Mapped' = Mapped
    BY <2>1 DEF Mapped
  <2> QED
    BY <1>2, <2>2, LayoutStays DEF SlotsInv, SlotsAreHeld
<1>5. CASE EmptySlots(region) # {}
  <2> DEFINE v == FirstEmpty(region)
  <2>1. /\ pte' = [pte EXCEPT ![v] = i] /\ v \in region \ Mapped /\ Mapped' = Mapped \cup {v}
        /\ i \in RESERVED .. (TOTAL_PAGES - 1)
    BY <1>5, RegionTakes
  <2> HIDE DEF v
  <2>2. pte[v] = NotPresent /\ i # NotPresent
    <3>1. i \in Nat
      BY GrantedPages
    <3> QED
      BY <1>3, <2>1, <3>1, VmmAssumption DEF Mapped, VmmAssumption
  <2>3. { w \in region : pte[w] # pte'[w] } = {v}
    BY <1>3, <2>1, <2>2 DEF VIInv, VTypeOK
  <2> QED
    BY <1>2, <1>3, <2>1, <2>3, LayoutStays DEF SlotsInv, SlotsAreHeld
<1> QED
  BY <1>4, <1>5

LEMMA BootStackKeeps == ASSUME VIInv, boot_stack, UNCHANGED bss_end PROVE Kept
<1>1. /\ job = "boot" /\ pc = "idle" /\ booted \in {3, 4} /\ pg_count = 1
      /\ region_map(PageSlots) /\ region_clear(PageSlots)
      /\ UNCHANGED <<cur_heap_ptr, left, held, bss_end>>
      /\ booted' = IF job' = "fault" THEN booted ELSE booted + 1
  BY Sections DEF boot_stack, Returned, VIInv, JobInv
<1>2. booted = 4 => Offset = 0
  BY DEF VIInv, FaultsByImageEnd
<1>3. Offset = 0 => job' = "none"
  BY <1>1, AlignedClears
<1>4. Offset # 0 => job' = "fault"
  BY <1>1, <1>2, FirstPageFaults
<1>5. booted' \in 3..5 /\ (booted' > 3 \/ job' = "fault")
  BY <1>1
<1>6. FaultsByImageEnd'
  BY <1>1, <1>2, <1>3, <1>4, LayoutStays DEF FaultsByImageEnd
<1>7. SlotsInv'
  BY <1>1, BootStackSlots
<1> QED
  BY <1>1, <1>5, <1>6, <1>7, RegionKeeps DEF Kept

LEMMA RegionAllocKeeps ==
  ASSUME VIInv, vm_page_region_alloc \/ kstack_alloc, UNCHANGED bss_end PROVE Kept
<1>1. PICK region \in {PageSlots, KstackSlots} :
        /\ job \in {"page", "kstack"} /\ pc = "idle"
        /\ region_map(region) /\ region_clear(region)
        /\ held' = held \cup { v \in region : pte[v] # pte'[v] }
        /\ UNCHANGED <<cur_heap_ptr, booted, left, bss_end>>
  BY DEF vm_page_region_alloc, kstack_alloc, Returned
<1>2. booted = 5 /\ pg_count = 1 /\ Offset = 0
  BY <1>1 DEF VIInv, JobInv, FaultsByImageEnd
<1>3. job' = "none"
  BY <1>1, <1>2, AlignedClears
<1>4. FaultsByImageEnd'
  BY <1>1, <1>2, <1>3, LayoutStays DEF FaultsByImageEnd
<1>5. SlotsInv'
  BY <1>1, <1>2, AllocSlots
<1> QED
  BY <1>1, <1>2, <1>3, <1>4, <1>5, RegionKeeps DEF Kept

LEMMA FreeKeeps ==
  ASSUME VIInv, NEW v \in held, region_free_page(v), UNCHANGED bss_end PROVE Kept
<1>1. /\ booted = 5 /\ job = "none" /\ free_pages([first |-> pte[v], count |-> 1])
      /\ pte' = [pte EXCEPT ![v] = NotPresent] /\ held' = held \ {v}
      /\ UNCHANGED <<cur_heap_ptr, job, booted, left, bss_end>>
  BY DEF region_free_page
<1>2. /\ OwnerInv' /\ NoPageTwice' /\ Mapped' = Mapped \ {v}
      /\ [first |-> pte[v], count |-> 1] \in runs /\ v >= ImageEnd
  BY <1>1, FreeOwns
<1>3. [Next]_vars /\ pc' = "idle"
  BY <1>1, <1>2 DEF Next, free_pages
<1>4. v \in PageSlots \cup KstackSlots /\ bss_end \in (4 * ImageEnd - 4) .. (4 * ImageEnd)
  BY DEF VIInv, VTypeOK, LayoutInv
<1>5. v \in VPage /\ v \notin KERN_HEAP_START .. (cur_heap_ptr - 1)
      /\ v \notin 0 .. (ImageEnd - 1)
  <2>1. v \in Nat /\ v < KERN_HEAP_START /\ v \in VPage
    BY <1>4, Regions, Layout
  <2> QED
    BY <1>2, <1>4, <2>1, Regions, Layout
<1>6. VTypeOK'
  BY <1>1, LayoutStays DEF VIInv, VTypeOK
<1>7. JobInv'
  BY <1>1, <1>3 DEF JobInv
<1>8. LayoutInv'
  <2>1. SectionEnd(booted)' = SectionEnd(booted)
    BY <1>1 DEF SectionEnd
  <2>2. \A w \in 0 .. (ImageEnd - 1) : pte'[w] = pte[w]
    BY <1>1, <1>4, <1>5, Regions DEF VIInv, VTypeOK
  <2> QED
    BY <1>1, <1>2, <1>5, <2>1, <2>2, LayoutStays DEF VIInv, LayoutInv
<1>9. FaultsByImageEnd'
  BY <1>1, LayoutStays DEF VIInv, FaultsByImageEnd
<1>10. SlotsInv'
  <2>1. /\ Mapped \cap (PageSlots \cup KstackSlots) = BootStack \cup held
        /\ BootStack \cap held = {} /\ BootStack' = BootStack
    BY <1>1, LayoutStays DEF VIInv, SlotsInv, SlotsAreHeld, BootStack
  <2> QED
    BY <1>1, <1>2, <2>1, LayoutStays DEF SlotsInv, SlotsAreHeld
<1> QED
  BY <1>2, <1>3, <1>6, <1>7, <1>8, <1>9, <1>10 DEF Kept

\* The heap takes its next page where it ends, and asks for the one after it.
LEMMA KsbrkMapKeeps == ASSUME VIInv, ksbrk_map, UNCHANGED bss_end PROVE Kept
<1> DEFINE v == cur_heap_ptr
<1>1. /\ job = "sbrk" /\ pc = "idle" /\ booted = 5 /\ pg_count = 1 /\ left > 0
      /\ v + left <= HEAP_END /\ left \in 0..MaxBrk
  BY DEF ksbrk_map, Returned, VIInv, JobInv, VTypeOK
<1>2. /\ pte' = [pte EXCEPT ![v] = i] /\ cur_heap_ptr' = v + 1 /\ left' = left - 1
      /\ UNCHANGED <<booted, held, bss_end, bitmap, runs>>
      /\ \/ left > 1 /\ alloc_pages(1) /\ job' = job
         \/ left <= 1 /\ UNCHANGED vars /\ job' = "none"
  BY <1>1, VmmAssumption DEF ksbrk_map, phys_addr, alloc_pages, vars, VmmAssumption
<1>3. /\ bss_end \in (4 * ImageEnd - 4) .. (4 * ImageEnd)
      /\ v \in KERN_HEAP_START .. HEAP_END
  BY DEF VIInv, LayoutInv
<1>4. /\ v \in Nat /\ v \in VPage /\ v >= ImageEnd /\ v + 1 \in KERN_HEAP_START .. HEAP_END
      /\ v + 1 \in VPage /\ v \notin PageSlots \cup KstackSlots
  <2>1. v \in VPage /\ v \in Nat /\ HEAP_END \in Nat /\ KERN_HEAP_START \in Nat /\ left \in Nat
    BY <1>1, <1>3, Regions, VmmAssumption DEF VmmAssumption
  <2>2. v + 1 \in KERN_HEAP_START .. HEAP_END
    BY <1>1, <1>3, <2>1
  <2>3. v \notin PageSlots \cup KstackSlots
    BY <1>3, <2>1, Regions, Layout
  <2> QED
    BY <1>3, <2>1, <2>2, <2>3, Regions, Layout
<1> HIDE DEF v
<1>5. pte[v] = NotPresent
  <2>1. v \notin KERN_HEAP_START .. (cur_heap_ptr - 1)
    BY <1>4 DEF v
  <2> QED
    BY <1>4, <2>1 DEF VIInv, LayoutInv, Mapped
<1>6. OwnerInv' /\ NoPageTwice' /\ Mapped' = Mapped \cup {v} /\ pte'[v] = i
  <2>1. job' \in {"none", "fault"} \/ pc' # "idle"
    BY <1>2 DEF alloc_pages
  <2> QED
    BY <1>1, <1>2, <1>4, <1>5, <2>1, MapOwns
<1>7. [Next]_vars
  BY <1>2 DEF Next
<1>8. i \in 0 .. (TOTAL_PAGES - 1)
  BY <1>1, GrantedPages DEF VIInv, OwnerInv, IInv, TypeOK
<1>9. VTypeOK'
  <2>1. pte' \in [VPage -> (0 .. (TOTAL_PAGES - 1)) \cup {NotPresent}]
    BY <1>2, <1>8 DEF VIInv, VTypeOK
  <2>2. left' \in 0..MaxBrk
    BY <1>1, <1>2, VmmAssumption DEF VmmAssumption
  <2> QED
    BY <1>1, <1>2, <1>4, <2>1, <2>2, LayoutStays DEF VIInv, VTypeOK
<1>10. JobInv'
  <2>1. (left' > 0 /\ cur_heap_ptr' + left' <= HEAP_END) \/ job' = "none"
    <3>1. HEAP_END \in Nat /\ cur_heap_ptr \in Nat
      BY <1>3, <1>4, Regions DEF v
    <3> QED
      BY <1>1, <1>2, <3>1 DEF v
  <2> QED
    BY <1>1, <1>2, <2>1, LayoutStays DEF JobInv, alloc_pages, vars
<1>11. LayoutInv'
  <2>1. SectionEnd(booted)' = SectionEnd(booted)
    BY <1>2 DEF SectionEnd
  <2>2. \A w \in 0 .. (ImageEnd - 1) : pte'[w] = pte[w]
    BY <1>2, <1>3, <1>4, Regions, Layout DEF VIInv, VTypeOK
  <2>3. KERN_HEAP_START .. (cur_heap_ptr' - 1) = KERN_HEAP_START .. (cur_heap_ptr - 1) \cup {v}
    <3>1. KERN_HEAP_START \in Nat /\ cur_heap_ptr' = cur_heap_ptr + 1
      BY <1>2, <1>3, Regions DEF v
    <3> QED
      BY <1>3, <1>4, <3>1 DEF v
  <2> QED
    BY <1>1, <1>2, <1>3, <1>4, <1>6, <2>1, <2>2, <2>3, LayoutStays DEF VIInv, LayoutInv
<1>12. FaultsByImageEnd'
  BY <1>1, <1>2, LayoutStays DEF VIInv, FaultsByImageEnd
<1>13. SlotsInv'
  BY <1>1, <1>2, <1>4, <1>6, LayoutStays DEF VIInv, SlotsInv, SlotsAreHeld, BootStack
<1> QED
  BY <1>6, <1>7, <1>9, <1>10, <1>11, <1>12, <1>13 DEF Kept

-----------------------------------------------------------------------------
(* The theorems *)

LEMMA InitVIInv == VInit => VIInv
<1> SUFFICES ASSUME VInit PROVE VIInv
  OBVIOUS
<1>1. bss_end \in (4 * ImageEnd - 4) .. (4 * ImageEnd)
  BY DEF VInit
<1>2. Mapped = {} /\ Granted = {}
  BY DEF VInit, Mapped, Granted
<1>3. IInv /\ bitmap = 0 .. (RESERVED - 1) /\ pc = "idle" /\ ~freed
  BY InitIInv DEF VInit, Init
<1>4. KERN_HEAP_START \in VPage /\ KERN_HEAP_START \in KERN_HEAP_START .. HEAP_END
      /\ KERN_HEAP_START \in Nat
  BY <1>1, Regions, Layout
<1>5. VTypeOK
  BY <1>4, VmmAssumption DEF VInit, VTypeOK, VmmAssumption
<1>6. JobInv /\ NoPageTwice /\ FaultsByImageEnd
  BY <1>2, <1>3 DEF VInit, JobInv, NoPageTwice, FaultsByImageEnd
<1>7. OwnerInv
  BY <1>2, <1>3 DEF OwnerInv
<1>8. LayoutInv
  <2>1. \A v \in 0 .. (ImageEnd - 1) : pte[v] = NotPresent /\ v \notin RESERVED .. (SectionEnd(0) - 1)
    BY <1>1, Regions, Sections DEF VInit
  <2>2. KERN_HEAP_START .. (cur_heap_ptr - 1) = {}
    BY <1>4 DEF VInit
  <2> QED
    BY <1>1, <1>2, <1>4, <2>1, <2>2 DEF VInit, LayoutInv
<1>9. SlotsInv
  <2>1. BootStack = {}
    BY <1>1, BootStackIs DEF VInit, BootStack
  <2> QED
    BY <1>2, <2>1 DEF VInit, SlotsInv, SlotsAreHeld
<1> QED
  BY <1>3, <1>5, <1>6, <1>7, <1>8, <1>9 DEF VIInv

\* The inductive invariant holds of every behaviour.
THEOREM VmmInvariance == VSpec => []VIInv
<1>1. VIInv /\ [VNext]_<<vars, vmm>> => VIInv'
  <2> SUFFICES ASSUME VIInv, [VNext]_<<vars, vmm>> PROVE VIInv'
    OBVIOUS
  <2>1. UNCHANGED bss_end
    BY DEF VNext, vmm
  <2>2. Kept
    BY <2>1, BootCallKeeps, SectionKeeps, BootStackKeeps, CallKeeps, RegionAllocKeeps,
       FreeKeeps, KsbrkKeeps, KsbrkMapKeeps, SearchKeeps, FaultKeeps DEF VNext
  <2>3. IInv'
    BY <2>2, Preservation DEF Kept, VIInv
  <2> QED
    BY <2>2, <2>3 DEF Kept, VIInv
<1> QED
  BY <1>1, InitVIInv, PTL DEF VSpec

\* No physical page is behind two addresses.
THEOREM NoPageIsTwice == VSpec => []NoPageTwice
<1>1. VIInv => NoPageTwice
  BY DEF VIInv
<1> QED
  BY <1>1, VmmInvariance, PTL

\* Between two calls the pages in use are the reserved and the mapped ones.
THEOREM NothingLeaks == VSpec => []UsedIsMapped
<1>1. VIInv => UsedIsMapped
  BY DEF VIInv, OwnerInv, Granted, UsedIsMapped
<1> QED
  BY <1>1, VmmInvariance, PTL

\* Every kernel stack has its guard pages: stacks lie at the odd distances from
\* the start of their region, and what follows the region is never mapped.
LEMMA Guards == VIInv => StacksAreGuarded
<1> SUFFICES ASSUME VIInv, NEW v \in KstackSlots \cap Mapped
             PROVE  v - 1 \notin Mapped /\ v + 1 \notin Mapped
  BY DEF StacksAreGuarded
<1>1. bss_end \in (4 * ImageEnd - 4) .. (4 * ImageEnd)
  BY DEF VIInv, LayoutInv
<1>2. /\ v \in Nat /\ v > TASK_KSTACK_START /\ v < KERN_HEAP_START
      /\ (v - TASK_KSTACK_START) % 2 = 1
      /\ TASK_KSTACK_START \in Nat /\ TASK_KSTACK_START > ImageEnd /\ ImageEnd \in Nat
      /\ KERN_HEAP_START = TASK_KSTACK_START + NKstack + 1 /\ NKstack \in Nat /\ NKstack % 2 = 0
  BY <1>1, Layout DEF KstackSlots
<1>3. v + 1 < KERN_HEAP_START
  BY <1>2
<1>4. ASSUME NEW w \in {v - 1, v + 1} PROVE w \notin Mapped
  <2>1. w \in Nat /\ w >= ImageEnd /\ w >= TASK_KSTACK_START /\ w < KERN_HEAP_START
    BY <1>2, <1>3
  <2>2. (w - TASK_KSTACK_START) % 2 = 0
    BY <1>2
  <2>3. w \notin PageSlots /\ w \notin KstackSlots /\ w \notin KERN_HEAP_START .. (cur_heap_ptr - 1)
    BY <1>2, <2>1, <2>2 DEF PageSlots, KstackSlots
  <2> QED
    BY <2>1, <2>3 DEF VIInv, LayoutInv
<1> QED
  BY <1>4

\* The heap is one piece: what is mapped from its start on is what ksbrk mapped.
LEMMA OnePiece == VIInv => HeapIsContiguous
<1> SUFFICES ASSUME VIInv
             PROVE  Mapped \cap (KERN_HEAP_START .. HEAP_END) = KERN_HEAP_START .. (cur_heap_ptr - 1)
  BY DEF HeapIsContiguous
<1>1. /\ bss_end \in (4 * ImageEnd - 4) .. (4 * ImageEnd)
      /\ cur_heap_ptr \in KERN_HEAP_START .. HEAP_END
      /\ KERN_HEAP_START .. (cur_heap_ptr - 1) \subseteq Mapped
  BY DEF VIInv, LayoutInv
<1>2. /\ KERN_HEAP_START \in Nat /\ HEAP_END \in Nat /\ KERN_HEAP_START > ImageEnd
      /\ ImageEnd \in Nat
  BY <1>1, Regions, Layout
<1>3. ASSUME NEW v \in Mapped, v \in KERN_HEAP_START .. HEAP_END
      PROVE  v \in KERN_HEAP_START .. (cur_heap_ptr - 1)
  <2>1. v >= ImageEnd /\ v \notin PageSlots \cup KstackSlots
    BY <1>1, <1>2, <1>3, Regions, Layout
  <2> QED
    BY <2>1 DEF VIInv, LayoutInv
<1> QED
  BY <1>1, <1>2, <1>3

\* Slots are mapped for the first user stack or for who holds them, stacks have
\* their guard pages and the heap is one piece.
THEOREM RegionsCorrect == VSpec => []RegionsInv
<1>1. VIInv => RegionsInv
  BY Guards, OnePiece DEF VIInv, SlotsInv, RegionsInv
<1> QED
  BY <1>1, VmmInvariance, PTL

\* Where the image ends decides whether the kernel boots.
THEOREM BootsByImageEnd == VSpec => []FaultsByImageEnd
<1>1. VIInv => FaultsByImageEnd
  BY DEF VIInv
<1> QED
  BY <1>1, VmmInvariance, PTL
=============================================================================
