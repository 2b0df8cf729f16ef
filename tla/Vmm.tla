-------------------------------- MODULE Vmm --------------------------------
(***************************************************************************)
(* Kernel virtual memory, mm/vmm.c, on top of the page allocator Pmm: the  *)
(* kernel image, the region of single pages, the region of kernel stacks   *)
(* and the heap.  Virtual addresses count pages from KERNBASE.             *)
(*                                                                         *)
(* Each function of vmm.c asks Pmm for pages and goes on when the search   *)
(* returns: `job' is the function that waits.  `held' is what the callers  *)
(* were given and may give back; the code does not keep it.                *)
(*                                                                         *)
(* Where the image ends is the linker's choice.  PTE_ADDR, which should    *)
(* take an address down to its page, takes it down to a KB, so addresses   *)
(* in the regions lie at the same offset of their page, and what is        *)
(* cleared for a caller may reach into the next page.                      *)
(***************************************************************************)
EXTENDS Pmm

CONSTANTS CODE, DATA, BSS, \* pages of the sections of the kernel image
          NPages,          \* pages in the region of single pages
          NKstack,         \* pages in the region of kernel stacks, even
          NHeap,           \* pages in the region of the heap
          MaxBrk,          \* the most pages ksbrk is asked for at once
          NotPresent       \* an empty page table entry

ASSUME VmmAssumption ==
  /\ CODE \in 1..MaxRun /\ DATA \in 1..MaxRun /\ BSS \in 1..MaxRun
  /\ NPages \in Nat \ {0, 1} /\ NHeap \in Nat
  /\ NKstack \in Nat /\ NKstack % 2 = 0
  /\ MaxBrk \in Nat
  /\ NotPresent \notin Nat

VARIABLES pte,           \* virtual page -> physical page
          cur_heap_ptr,
          job,           \* none, or whose call of alloc_pages is not done
          booted,        \* how many of the allocations of vmm_init are done
          left,          \* the pages ksbrk still has to map
          held,
          bss_end        \* KERN_BSS_END, in KB

vmm == <<pte, cur_heap_ptr, job, booted, left, held, bss_end>>

----------------------------------------------------------------------------
\* mm/kernlayout.h and startup: the image from 1 MB on, then the regions,
\* each a page apart from the one before; all at the same offset, in KB.
ImageEnd          == RESERVED + CODE + DATA + BSS
TASK_PAGES_START  == (bss_end + 4) \div 4
TASK_KSTACK_START == TASK_PAGES_START + NPages + 1
KERN_HEAP_START   == TASK_KSTACK_START + NKstack + 1
HEAP_END          == KERN_HEAP_START + NHeap   \* 0xFFFFF000
Offset            == bss_end % 4

VPage == 0 .. (ImageEnd + NPages + NKstack + NHeap + 3)

PageSlots   == TASK_PAGES_START .. (TASK_KSTACK_START - 1)

\* A plausible slip: no page is left out between two stacks.
KstackSlots_dense == (TASK_KSTACK_START + 1) .. (KERN_HEAP_START - 1)

KstackSlots == { v \in (TASK_KSTACK_START + 1) .. (KERN_HEAP_START - 1) :
                   (v - TASK_KSTACK_START) % 2 = 1 }

\* Where the k-th section of the image ends: code, data, bss.
SectionEnd(k) ==
  RESERVED + (IF k > 0 THEN CODE ELSE 0) + (IF k > 1 THEN DATA ELSE 0) + (IF k > 2 THEN BSS ELSE 0)

\* init_kern_map: as many pages from the first page of the section on, mapped
\* to the place they were loaded at, whatever alloc_pages answered.
SectionPages(k) == SectionEnd(k - 1) .. (SectionEnd(k) - 1)

\* What the allocations of vmm_init ask for.
BootPages(k) == IF k < 3 THEN SectionEnd(k + 1) - SectionEnd(k) ELSE 1

\* Some byte of the last page of the image is its last.
VInit ==
  /\ Init
  /\ bss_end \in (4 * ImageEnd - 4) .. (4 * ImageEnd)
  /\ pte = [v \in VPage |-> NotPresent]
  /\ cur_heap_ptr = KERN_HEAP_START
  /\ job = "none" /\ booted = 0 /\ left = 0 /\ held = {}

\* The page that the search found last.
phys_addr == i

Returned(j) == job = j /\ pc = "idle"

----------------------------------------------------------------------------
(* vmm_init: three sections, then two pages for the first user stack, which *)
(* are never given back.                                                    *)

boot_call ==
  /\ booted < 5 /\ job = "none"
  /\ alloc_pages(BootPages(booted))
  /\ job' = "boot"
  /\ UNCHANGED <<pte, cur_heap_ptr, booted, left, held>>

init_kern_map ==
  /\ Returned("boot") /\ booted < 3
  /\ pte' = [v \in VPage |-> IF v \in SectionPages(booted + 1) THEN v ELSE pte[v]]
  /\ booted' = booted + 1 /\ job' = "none"
  /\ UNCHANGED <<vars, cur_heap_ptr, left, held>>

\* The first empty entry of a region gets the page; if there is none, or the
\* page is page 0, the answer is 0, and in the first case the page goes back.
EmptySlots(region) == { v \in region : pte[v] = NotPresent }
FirstEmpty(region) == CHOOSE v \in EmptySlots(region) : \A w \in EmptySlots(region) : v <= w

\* A plausible slip: the page is not given back.
region_map_leaks(region) ==
  IF phys_addr = 0 \/ EmptySlots(region) = {}
  THEN UNCHANGED <<vars, pte>>
  ELSE pte' = [pte EXCEPT ![FirstEmpty(region)] = phys_addr] /\ UNCHANGED vars

region_map(region) ==
  IF phys_addr = 0
  THEN UNCHANGED <<vars, pte>>
  ELSE IF EmptySlots(region) # {}
       THEN pte' = [pte EXCEPT ![FirstEmpty(region)] = phys_addr] /\ UNCHANGED vars
       ELSE free_pages([first |-> phys_addr, count |-> 1]) /\ UNCHANGED pte

\* A mutant: the length to clear is wrong.
Cleared_two(v) == {v, v + 1}
\* memset clears a page's length from the address of v on.
Cleared(v) == IF Offset = 0 THEN {v} ELSE {v, v + 1}

\* The page just mapped is cleared, through its address; the first page that is
\* not there is a page fault, and the handler of exceptions halts.
region_clear(region) ==
  job' = IF /\ phys_addr # 0 /\ EmptySlots(region) # {}
            /\ \E v \in Cleared(FirstEmpty(region)) : pte'[v] = NotPresent
         THEN "fault" ELSE "none"

page_fault == job = "fault" /\ UNCHANGED <<vars, vmm>>

boot_stack ==
  /\ Returned("boot") /\ booted \in {3, 4}
  /\ region_map(PageSlots) /\ region_clear(PageSlots)
  /\ booted' = IF job' = "fault" THEN booted ELSE booted + 1
  /\ UNCHANGED <<cur_heap_ptr, left, held>>

----------------------------------------------------------------------------
(* After vmm_init: tasks take and return pages and stacks, kheap.c grows.   *)

call(j) ==
  /\ booted = 5 /\ job = "none"
  /\ alloc_pages(1)
  /\ job' = j
  /\ UNCHANGED <<pte, cur_heap_ptr, booted, left, held>>

vm_page_region_alloc ==
  /\ Returned("page")
  /\ region_map(PageSlots) /\ region_clear(PageSlots)
  /\ held' = held \cup { v \in PageSlots : pte[v] # pte'[v] }
  /\ UNCHANGED <<cur_heap_ptr, booted, left>>

kstack_alloc ==
  /\ Returned("kstack")
  /\ region_map(KstackSlots) /\ region_clear(KstackSlots)
  /\ held' = held \cup { v \in KstackSlots : pte[v] # pte'[v] }
  /\ UNCHANGED <<cur_heap_ptr, booted, left>>

\* A plausible slip: the entry is left as it was.
region_free_page_keeps_entry(v) ==
  /\ booted = 5 /\ job = "none"
  /\ free_pages([first |-> pte[v], count |-> 1])
  /\ held' = held \ {v}
  /\ UNCHANGED <<pte, cur_heap_ptr, job, booted, left>>

\* __region_free_page, for vm_page_region_free and kstack_free: the address
\* kstack_alloc returned is the last byte of the stack's own page.
region_free_page(v) ==
  /\ booted = 5 /\ job = "none"
  /\ free_pages([first |-> pte[v], count |-> 1])
  /\ pte' = [pte EXCEPT ![v] = NotPresent]
  /\ held' = held \ {v}
  /\ UNCHANGED <<cur_heap_ptr, job, booted, left>>

\* Nobody asks for more heap than there is room; ksbrk does not look.
ksbrk(n) ==
  /\ booted = 5 /\ job = "none"
  /\ cur_heap_ptr + n <= HEAP_END
  /\ alloc_pages(1)
  /\ job' = "sbrk" /\ left' = n
  /\ UNCHANGED <<pte, cur_heap_ptr, booted, held>>

ksbrk_map ==
  /\ Returned("sbrk")
  /\ pte' = [pte EXCEPT ![cur_heap_ptr] = phys_addr]
  /\ cur_heap_ptr' = cur_heap_ptr + 1
  /\ left' = left - 1
  /\ IF left > 1 THEN alloc_pages(1) /\ UNCHANGED job
                 ELSE job' = "none" /\ UNCHANGED vars
  /\ UNCHANGED <<booted, held>>

\* alloc_pages itself, step by step; a panic there halts the machine.
pmm_step == (scan \/ halted) /\ UNCHANGED vmm

VNext == /\ \/ boot_call \/ init_kern_map \/ boot_stack
            \/ \E j \in {"page", "kstack"} : call(j)
            \/ vm_page_region_alloc \/ kstack_alloc
            \/ \E v \in held : region_free_page(v)
            \/ \E n \in 1..MaxBrk : ksbrk(n)
            \/ ksbrk_map
            \/ pmm_step \/ page_fault
         /\ UNCHANGED bss_end

VSpec == VInit /\ [][VNext]_<<vars, vmm>>

----------------------------------------------------------------------------
Mapped == { v \in VPage : pte[v] # NotPresent }

VTypeOK ==
  /\ pte \in [VPage -> (0 .. (TOTAL_PAGES - 1)) \cup {NotPresent}]
  /\ cur_heap_ptr \in VPage
  /\ job \in {"none", "boot", "page", "kstack", "sbrk", "fault"}
  /\ booted \in 0..5 /\ left \in 0..MaxBrk
  /\ held \subseteq PageSlots \cup KstackSlots

\* No physical page is behind two addresses: not two stacks, not a stack and
\* the heap, and nothing on top of the kernel image.
NoPageTwice == \A v, w \in Mapped : v # w => pte[v] # pte[w]

\* Between two calls the pages the allocator counts as used are the reserved
\* ones and those that are mapped: nothing leaks, neither when a region is
\* full nor across frees, and nothing mapped can be handed out again.  The
\* image is in it although init_kern_map never looks what alloc_pages gave.
UsedIsMapped ==
  job = "none" => bitmap = (0 .. (RESERVED - 1)) \cup { pte[v] : v \in Mapped }

\* A kernel stack has an unmapped page below it, where an overflow faults,
\* and above it, where the code or the next stack would be.
StacksAreGuarded ==
  \A v \in KstackSlots \cap Mapped : v - 1 \notin Mapped /\ v + 1 \notin Mapped

\* The heap is one piece, from its start to cur_heap_ptr, as kheap.c takes
\* for granted when it puts a chunk at the old end.
HeapIsContiguous ==
  Mapped \cap (KERN_HEAP_START .. HEAP_END) = KERN_HEAP_START .. (cur_heap_ptr - 1)

\* The two pages of the first user stack, as far as vmm_init has come; nobody
\* holds them, and nobody gives them back.
BootStack == TASK_PAGES_START .. (TASK_PAGES_START + booted - 4)

\* A slot of a region is mapped for the first user stack or because a caller was
\* given it and has not given it back, never for both: no slot is lost when
\* a region fills up and empties, what was given back is not there any more, and
\* only the page that could not be cleared is with nobody.
SlotsAreHeld ==
  job # "fault" => /\ Mapped \cap (PageSlots \cup KstackSlots) = BootStack \cup held
                   /\ BootStack \cap held = {}

\* Slots, stacks and heap are what their users take for granted.
RegionsInv == VTypeOK /\ StacksAreGuarded /\ HeapIsContiguous /\ SlotsAreHeld

\* The kernel boots if its image happens to end in the first KB of a page or
\* with a page; otherwise the first page it takes for the first user stack cannot
\* be cleared: PTE_ADDR leaves two bits of the offset that its users take off.
FaultsByImageEnd ==
  /\ job = "fault" => Offset # 0
  /\ booted > 3 => Offset = 0

----------------------------------------------------------------------------
(* The inductive invariant: what the four above rest on. *)

\* What the page allocator granted to the function that waits.
Granted == IF job \notin {"none", "fault"} /\ pc = "idle" THEN (i + 1 - pg_count) .. i ELSE {}

\* What the function that waits has asked for, and when it may wait.
JobInv ==
  /\ job \in {"none", "fault"} => pc = "idle"
  /\ job = "boot" => booted < 5 /\ pg_count = BootPages(booted)
  /\ job \in {"page", "kstack", "sbrk"} => booted = 5 /\ pg_count = 1
  /\ job = "sbrk" => left > 0 /\ cur_heap_ptr + left <= HEAP_END
  /\ booted < 3 => ~freed

\* What is mapped where: the image to itself, above it nothing but the regions'
\* pages, and none of these before the first user stack.
LayoutInv ==
  /\ bss_end \in (4 * ImageEnd - 4) .. (4 * ImageEnd)
  /\ cur_heap_ptr \in KERN_HEAP_START .. HEAP_END
  /\ \A v \in 0 .. (ImageEnd - 1) :
       pte[v] = IF v \in RESERVED .. (SectionEnd(booted) - 1) THEN v ELSE NotPresent
  /\ \A v \in Mapped : v >= ImageEnd =>
       /\ v \in PageSlots \cup KstackSlots \cup KERN_HEAP_START .. (cur_heap_ptr - 1)
       /\ booted > 3 \/ job = "fault"
  /\ KERN_HEAP_START .. (cur_heap_ptr - 1) \subseteq Mapped
  /\ held \subseteq Mapped

\* Callers come after vmm_init.
SlotsInv == SlotsAreHeld /\ (booted < 5 => held = {})

\* Who owns which physical page: a mapping or the function that waits, and a
\* page of a region is a run of its own, which can be given back.
OwnerInv ==
  /\ bitmap = (0 .. (RESERVED - 1)) \cup { pte[v] : v \in Mapped } \cup Granted
  /\ Granted \cap ((0 .. (RESERVED - 1)) \cup { pte[v] : v \in Mapped }) = {}
  /\ \A v \in Mapped : v >= ImageEnd => [first |-> pte[v], count |-> 1] \in runs
  /\ Granted # {} /\ pg_count = 1 => [first |-> i, count |-> 1] \in runs

VIInv == /\ IInv /\ VTypeOK /\ JobInv /\ LayoutInv /\ SlotsInv /\ OwnerInv
         /\ NoPageTwice /\ FaultsByImageEnd
=============================================================================
