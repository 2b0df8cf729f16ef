# Uxl-OS: a verification development

TLA+ specifications of [Uxl-OS](../src), a small 32-bit x86 kernel with two host tools, the
TLC runs that check them on small instances, and TLAPS proofs for every instance.
Paths such as `kernel/sched.c:94` are relative to the repository. `PROJECT.json` lists, for
tools, the components, the runs, the mutants, which definition stands for which lines, the
hazards and the theorems.

## 1. The system

The kernel boots on one processor (`startup/boot.S`, `main.c`): GDT and TSS, IDT, physical and
virtual memory, scheduler, interrupt controller, timer; it creates one ring 3 process and
enters the scheduler, never to return. There is no loader, no file system and no second
process yet; `yield`, `sleep`, `wakeup`, `task_free`, `kstack_free` and `kfree` are written but
have no caller, so the models let their callers be any task that respects the stated
discipline.

| Component | Source | State | Operations | Interacts with |
|---|---|---|---|---|
| Intrusive list | `klib/list.h` | `next`/`prev` of every node | init, add head/tail, remove, first/last, for_each | run queue |
| Scheduler and tasks | `kernel/sched.c`, `kernel/task.c` | task table, run queue, current, idle, saved `kesp` | create, enqueue, schedule, yield, sleep, wakeup, free, save/restore context | list, entry paths, `kstack_alloc`, TSS |
| Interrupt entry and exit | `sys/isr.S`, `sys/idt.c`, `sys/exception.c`, `kernel/syscall.c`, `sys/pit.c` | kernel stacks, IF, TSS `esp0` | IRQ, exception, system call, `reschedule`, `intr_leave` | scheduler, PIC |
| Physical memory | `mm/pmm.c` | bitmap, search hint, free count | init, alloc_pages, free_pages | virtual memory |
| Virtual memory | `mm/vmm.c` | kernel page tables, heap end | map, region alloc/free, kernel stacks, `ksbrk` | physical memory, heap, tasks |
| Kernel heap | `mm/kheap.c` | boundary-tagged chunks, first free chunk | kmalloc, kfree | `ksbrk`, scheduler init |
| Interrupt controller | `sys/pic_i8259.c` | masks, requests and services of two chips, handler table | init, enable, disable, set handler, dispatch, EOI | IRQ entry, devices |
| Descriptor tables | `sys/gdt.c`, `sys/idt.c`, `sys/tss.h`, `sys/x86.h` | GDT, IDT, TSS | pack, load, TSS stack | entry, tasks |
| Start-up | `startup/boot.S`, `linker.lds`, `main.c` | none of its own | the order of the `init` calls | everyone |
| Strings and formatted output | `klib/string.c`, `klib/vsprintf.c`, `debug/` | one static buffer | string functions, `vsprintf`, `dbg_printf` | everyone, for logging |
| File system tool | `tools/mkuxlfs` | disk image, block bitmap, inodes, directories | create, mount, copy in/out, sync | host files |
| Disk image tool | `tools/mkvdisk` | MBR partition table | create, append, list | host files |

### What is hard

* **Interleaving.** A timer interrupt may arrive between any two instructions of ring 3 code,
  of a kernel worker and of an exception handler (trap gates keep interrupts on), not of
  interrupt handlers and system calls (interrupt gates). `reschedule` does not disable
  interrupts itself.
* **Stale state.** A context switch moves the stack under running code. What a task is resumed
  from is spread over `task->kesp`, a local variable of `yield`, the frames on its stack and
  the TSS, and three code paths update them in three ways.
* **Protocol.** `list_remove` leaves stale pointers; `list_add` of a linked node corrupts the
  queue. Only the order in which tasks change state prevents it.
* **Bounds.** One page of kernel stack per task, a task table that panics when full, page and
  heap searches that can miss what is free.
* **Crash.** The file system tool buffers its bitmap and inodes and writes them at the end; the
  disk image tool writes a partition before its entry.
* **Numbers at an edge.** Bit fields that split addresses, the mask of `PTE_ADDR`, the tags beside a
  request of almost a page, the last index of a block of addresses, signed conversions of short types.

### What makes each component correct

* list: the links are one ring through head and nodes, equal to the sequence of insertions.
* scheduler: each runnable task is running or queued exactly once; first come first served;
  nobody starves; a sleeper is not run.
* entry and exit: whatever runs, runs on its own stack, from its own frame; ring 3 always
  leaves an empty kernel stack in the TSS; nesting is bounded.
* physical memory: no page handed out twice; a run handed out was free; it is known when the
  hint and the search hide a hole.
* virtual memory: no page is mapped twice; what is used is what is mapped; a slot is mapped
  for whoever has it and for nobody else; a stack has an unmapped page on both sides; the heap is one piece; what a caller is given is there to its end.
* heap: chunks tile the heap, live chunks are disjoint and large enough, kfree merges only
  free neighbours, and the heap grows only when no free chunk fits.
* descriptor tables and interrupt controller: an interrupt reaches its own stub and its own handler
  and is acknowledged at the chips where it is in service; masks are what callers asked for; a
  request on an open line is served.
* strings and output: each function does what C says, or differs where it is known to; a number reads
  back from what was printed; printing ends, and a line that nothing came into is whole.
* file system tool: an allocated block has one owner, a mounted image equals the synced one,
  a run that is interrupted changes nothing of what was saved.
* disk image tool: partitions do not overlap, hold their files for ever and are all listed.

## 2. Modules

| Module | What it is |
|---|---|
| `KList` | `klib/list.h` as operators on links; `Ring` says what the links mean |
| `KListUse` | one list in use; compares it with a sequence |
| `SchedAbs` | what the scheduler promises: a FIFO line, a running task, sleepers |
| `Sched` | `sched.c`, `task.c` and the entry paths; extends `KList`, refines `SchedAbs` |
| `MCSched` | the instance of `Sched` for TLC |
| `SchedPreempt` | `yield`/`sleep` of a worker one step at a time; extends `Sched` |
| `SchedProofs` | lemmas on rings, for any set of cells; the invariant of `Sched` and the refinement of `SchedAbs`, for any number of tasks |
| `SchedPreemptProofs` | the invariant of `SchedPreempt` when callers disable interrupts; builds on `SchedProofs` |
| `PageAlloc` | what the page allocator promises: a call is granted a run nobody holds, or the machine stops |
| `Pmm` | `mm/pmm.c`, one action per turn of the search; refines `PageAlloc` |
| `Vmm` | `mm/vmm.c`: boot mapping, the regions, `ksbrk`; extends `Pmm` |
| `VmmProofs` | the invariant of `Pmm` and the refinement of `PageAlloc`, then the invariant of `Vmm`, for any sizes of memory and regions |
| `KHeap` | `mm/kheap.c`: boundary tags, first fit, growth, merging |
| `KHeapProofs` | the invariant of `KHeap` under `OrderedFree`, for any page size and requests |
| `Descriptors` | `sys/gdt.c`, `sys/idt.c` and the frame: packed by the kernel, unpacked by the processor |
| `Pic` | `sys/pic_i8259.c` and the two controllers, from reset on; extends `Descriptors` |
| `PicProofs` | the invariant of `Pic`, for any lines, widths and addresses |
| `KString` | `klib/string.c` as operators on a memory, and what C says of the same functions |
| `VSprintf` | `klib/vsprintf.c` as an operator on format and arguments; uses `KString` |
| `Console` | `dbg_printf` of tasks and of a handler, over one buffer |
| `Klib` | list, strings, formats and console in use: extends `KListUse`, instantiates the three others |
| `KlibProofs` | the list, the string functions, `vsprintf` and the console, for any nodes, memories, types, tasks and lines |
| `Mbr` | `tools/mkvdisk/main.c`: an image over runs that create it, append to it or are killed |
| `MbrProofs` | the invariant of `Mbr`, for any sizes of files and any number of runs |
| `UxlTree` | what the file system tool promises: a tree that runs extend and save at one moment |
| `UxlFs` | `tools/mkuxlfs/lib/uxlfs.c`: inodes, block maps, directories, early ends; refines `UxlTree` |
| `UxlFsProofs` | the invariant of `UxlFs` and the refinement of `UxlTree`, for any sizes of an image, any names and files |

`Sched` composes the scheduler with the list (`KList`) and the entry paths; `Vmm` composes virtual
memory with the page allocator, whose actions it calls and whose search runs between them. `KHeap`
stands on its own: of `ksbrk` it needs only that the heap is one piece, which `Vmm` checks
(`HeapIsContiguous`). `Pic` composes the controller with the tables through which an interrupt passes;
`Sched` takes over where `Pic` ends, at the handler of a line. A definition whose comment says "a plausible slip" or "a mutant" is a mutated
form of the definition after it; no specification uses it.

### Sched: state and actions

`state`, `kesp`, `current`, `idle`, `runq` are the fields of that name. `esp0` is the stack
pointer of the TSS. A kernel stack is a few *frames* (`kstack`), an address on it is
`<<task, depth>>`; a frame keeps what kind of code it returns to and whose flow it is, the
values of registers are left out. `cpu` says what the processor executes.

One action is one stretch of kernel code that runs with interrupts off, with all the calls it
makes: `timer_irq` is `irq_common` + `task_save_context` + `pit_tick` + `schedule` + `intr_leave`
+ `iret`. `yield` is split where the task loses the processor: `yield` up to the switch,
`yield_return` after it. `task_free` and the wakeups are offered to callers for sleeping tasks only,
and callers of `yield`, `sleep`, `wakeup` have interrupts off; `SchedPreempt` drops the second
assumption. A slot's kernel stack is taken as fresh memory of its own.
`Init` takes the task table as `UNUSED` and `runq->current` as `NULL`. Both lie in memory from `kmalloc`
(`kernel/task.c:26`, `kernel/sched.c:33`) which neither it nor `ksbrk` (`mm/vmm.c:146`) clears: this holds
if the machine's memory is zero where nothing wrote yet, as that of an emulator is.

`SchedPreempt` cuts `sleep`, `yield`, `reschedule` and `schedule` at the points where the shared
state changes and lets ticks and wakeups in between, if `CallersDisable` is FALSE.


### Pmm: state and actions

`bitmap` (the set of pages whose bit is set), `start` and `_free_pages` are the code's; `pc`,
`pg_count`, `count` and `i` are a call of `alloc_pages` in progress. `scan_free`, `scan_found` and
`scan_used` are the three ways through the loop body, `out_of_memory` is the `PANIC` behind the
loop. `scan_used` adds 2 to `i`: the loop's own `i++` follows `i = pg_start`. `_free_pages` wraps at
`WORD`. Callers free what they hold, once. The ghosts `runs` and `freed` only remember what callers
were given and whether they ever gave anything back.

### Vmm: state and actions

`pte` maps virtual pages, counted from KERNBASE, to physical ones. A function of `vmm.c` that needs
pages is two actions, before and after `alloc_pages` (`job` says who waits); `Pmm`'s search runs in
between, so a panic half way is a behaviour too. `boot_call`, `init_kern_map` and `boot_stack` are
`vmm_init` in its order, `ksbrk_map` is one turn of the loop of `ksbrk`. Nobody asks for more heap than
the region has room for; `ksbrk` does not look. `bss_end` is where the image happens to end, in KB,
because `PTE_ADDR` keeps the KB within a page: `region_clear` is the `memset` of what was mapped, with
the page fault it may take. Each page table is memory of its own, filled with one table per 4 MB
before the first access; flags, `cr3` and the TLB are left out. The ghost `held` is what callers were
given by the regions; `vmm_init` keeps the table and the page of the first user stack for itself (`BootStack`).

### KHeap: state and actions

`tag` is the memory of the heap as far as it holds headers and footers, in words of 8 bytes; `p` and
`size` are a call of `kmalloc` in its search. What lies between a header and its footer is `Garbage`
after every write of a tag, so a walk that relies on a stale header is caught by `TypeOK`.
`kmalloc_overrun` is the growth whose chunk is too small; the model stops there. `OrderedFree` is a
discipline of the callers (see *Findings*).

### UxlFs: state and actions

The functions below the commands (`balloc`, `iget_phys_block`, `ilookup`, `iname`, `dir_write`,
`ialloc`, `dir_create_entity`) are operators that take a state of inodes, bitmap, counts and blocks to
the next one, and say whether the program stopped inside and how: `PANIC` saves and exits, `exit` does
not save. A command is one action (`cli_mkdir`, `cpin`), the copying loop of `cpin` is one action per
block, `sync_fs` one per `disk_write`, also where it is of the whole table of inodes, about 1000 blocks by
default: a signal in the middle of these is left out. `killed` ends a run between two such actions, by a
host file that cannot be opened in the middle of `cpdir_in` or by a signal; inside a command only the stops
of the code itself, `PANIC` and `exit`, are modelled. `meta` is in memory, `image` on disk; blocks go to the
disk at once. A file's block holds one value, and lengths count blocks or entries: all accesses
are aligned to their size. Block 0 stands for the superblock's, i.e. for "no address".
Two disciplines are assumed: parents are directories (`ilookup` does not look), and an image that an
unfinished run wrote to is not written again, unless `WriteAfterAbort` is set. Paths have up to `MaxDepth`
names. `CapacityAssumption` says that a directory of all inodes is within what an inode can address: by the
defaults of `mkuxlfs` (10000 blocks of 512 bytes) there are 8000 inodes, and an inode addresses 132160
entries. No command adds an entry without taking an inode, so directories never meet the index that leads
too far; in an image some fifteen times as large one directory could.

### Descriptors and Pic: state and actions

`Descriptors` writes the fields of a segment descriptor, of the TSS's and of a gate with the code's masks
and shifts, and reads them back as the processor does; four bits have `NIBBLE` values and all widths
follow, so that a field that is too narrow loses something in a small instance too. `Frame` is what
stub and `SAVE_REGS` push, `regs` the structure the handlers read it with.

`imr`, `irr`, `isr` and `icw2` are registers of the two chips (external: fixed priority, edge requests, a
non-specific EOI that ends the highest service, spurious requests as bit 7), `gdt` and `idt` what the
processor reads, `handlers` the table. `ctx` is the stack of contexts on the processor: boot code or
task, and the handler above (gates of lines turn interrupts off, so handlers do not nest; `PicInv`). `reset`, `gdt`, `idt`, `idle` are the stations of `main`. `accept` is an
interrupt up to the handler; calls of `irq_enable`, `irq_disable` and `set_handler` by boot code and by
handlers read a mask in one step and write it in another; `main_handler_end` acknowledges. Lines 0 to 14
may be used: the handler table has no entry 15.

### KString, VSprintf, Console, Klib: state and actions

The string functions take a memory and return the one they leave; loops that copy
are recursive functions, loops that search a least or greatest place. A memory holds bytes, numbers below `CHAR`; `Plain` is what a byte is as a plain `char`, which has a
sign on i386: `strcmp` and `strncmp` subtract, `strchr` and `strrchr` compare such chars. An int passed for a
character is any of `Passed` or its negative; `memset` keeps its lowest byte. What C says (`InC`) converts the
int to a char, finds the end too, and compares strings as unsigned bytes. `vsprintf` is
`Turn` after `Turn` over the format: flags, width, precision, length and conversion are found where the
code looks for them, `number` builds the field in the order of the code. `Klib` calls them with every
small memory and a set of directives; a call is one action, since nothing is shared. In `Console` a
character is a step, between any two of which another task may go on, or the handler print.

### Mbr: state and actions

The image is a sequence of blocks of 2 KB, each with the run and the number of the block that wrote it;
`table` is the partition table. A run is `create_open`/`create_write` or `append_open`, `append_copy` once
per block, `append_entry`; `killed` ends one between any two of these. `lba_first` is a byte offset (the code never
divides it by the sector size), lengths are sectors, both wrap at `WORD`. An image is appended to
only if a run that creates one finished.

## 3. Runs

| Run | What is checked | What it shows |
|---|---|---|
| `klib` | `ListIsOrder`, `AsInC`, `FormatsAsMeant`, `PrintsItsLine` | a list is the sequence of what was added and not removed, both ways; the string functions do what C says but for `Differs`; what is printed reads back; mixed lines end, others are whole |
| `sched` | `RunqInv`, `OwnContext`, `TssInv`, `IInv`, `Implements`, `NoStarvation` | queue, contexts, stacks and TSS agree under every interleaving; the scheduler is first come first served; nobody starves |
| `preempt_disabled` | `NoTaskLost`, `OwnContextAtRest` | `yield` and `sleep`, cut into steps, are right if their callers disabled interrupts |
| `preempt_enabled` | `QueueIsRing`, violated | they are not with interrupts on, as workers start |
| `pic` | `PicInv`, `ReachesOwnHandler`, `MaskAsAsked`, `EndsItsOwn`, `Served` | interrupts are on only when every gate leads to its stub; a request comes to its own handler, is acknowledged once and at the right chips, spurious ones included; open lines are served |
| `pmm` | `BitmapInv`, `PanicJustified`, `BootInOrder`, `IInv`, `Implements`, `CallReturns` | no page is handed out twice; when the search gives up; it ends |
| `vmm` | `NoPageTwice`, `UsedIsMapped`, `RegionsInv`, `FaultsByImageEnd` | what is mapped is what is allocated, once; a slot is mapped exactly for the boot stack or its holder, stacks have their guard pages, the heap is one piece; for which ends of the image the kernel does not boot |
| `kheap` | `ChunksInv`, `LiveInv`, `Coalesced`, `GrowsWhenFull`, `FaultsAtPageEdge`, `CallReturns` | the chunks tile the heap and the callers' ones stay theirs; the one size that overruns |
| `kheap_free` | `FreesItsOwn`, violated | freeing above a block in use frees that block |
| `uxlfs` | `ImageInv`, `NoOrphans`, `IndexFaultsAtEnd`, `NdirectHoldsAddresses`, `Implements` | no block is lost or shared even when the disk fills up in a call; the one index that leads too far; what is saved changes at one moment |
| `uxlfs_ndirect` | `NdirectHoldsAddresses`, violated | after an unfinished run a new block of addresses holds old data |
| `mbr` | `TableInv`, `AppendsOnly` | partitions are apart, whole, listed, and stay, over runs that fail or are killed |

Types are part of the first invariant of each run (`IInv`, `PicInv`, `RegionsInv`, `ChunksInv`, `ImageInv`,
`TableInv`). `FaultsByImageEnd`, `FaultsAtPageEdge`, `IndexFaultsAtEnd` and `Differs` in `AsInC` say of a
fault that the code has exactly when it strikes; the run shows that it does so in no other case.

### Bounds, and why they are enough

* `sched`: `NTASKS = 4`, `DEPTH = 2`. Idle and init take a slot each; two workers are the least with
  which one waits while another runs or sleeps, and with which a slot is freed and reused. Two frames
  are what an exception interrupted by a tick needs; a third would break `TypeOK`. The safety properties
  are proved for every number of tasks and every `DEPTH` of at least 2.
* `pmm`: 8 pages of which 2 reserved (256 of the code, an even number too: what counts is its parity, as
  used pages are passed by twos), runs up to 3, and a count that wraps at 16. All properties but
  `CallReturns` are proved for every memory.
* `vmm`: 12 pages, so that the page allocator panics within the reachable histories; a region of four
  single pages and one of two stacks can be full, emptied and reused; the heap grows by one or two
  pages at a time, up to 2; the image ends in each KB of a page, or with it.
* `kheap`: pages of 6 words, up to 4; requests of 1, 3, 5, 7 and 8 words: an exact fit, a rest too small
  to split off, one that is split off, the size at the edge of a page, and more than a page.
* `uxlfs`: inodes with one direct address, blocks of two addresses and two entries, 14 blocks, 3 inodes
  beside the root, files of 1, 7 and 8 blocks, paths of at most two of two names. A file of 7 is the
  largest an inode can address, with single and double indirect blocks, and one of 8 asks for the index
  behind the last, for which there is just room; two of them fill the disk inside a double indirect block; a directory of the second
  level needs a block of its own for its third entry.
* `pic`: lines 0 and 1 (one above the other), 2 (the cascade) and 8 (through the second chip); line 1 may
  drop its request, while one of line 8 waits or is handled. `NIBBLE = 2` makes
  addresses 8 bits wide, the stubs lie above the half of them, the TSS near the end.
* `klib`: four nodes (first, last, and two in the middle); five cells of four characters out of the sixteen of
  `CHAR` (the end, one that counts as positive and two as negative) and ints passed for them of either sign, up
  to beyond a char; room for two overlapping ranges and a string behind another; numbers of three hexadecimal digits, with short and char
  types of their own, at both ends of the ranges of each; two tasks and a handler, lines up to 2.
* `mbr`: sectors of 2 bytes, a WORD of 64; files of no byte, of one, of a block and of one more; six runs,
  enough for a create, the three partitions the table takes, one that is killed and one too many.

### Fairness

Only `NoStarvation`, `CallReturns` and `Served` need any.

* `timer_irq` is strongly fair: the timer runs at a fixed rate for ever (`sys/pit.c:30`), the interrupt
  controller keeps a request while interrupts are off, and interrupts are on again and again. Weak
  fairness would not do, as the tick is disabled between; nothing else is assumed about its rate.
* The boot steps, `syscall_leave` and `yield_return` are weakly fair: straight-line code of the
  running flow with interrupts off.
* In `Pic`, `accept` of each line is strongly fair: the processor takes a request that it can take before
  its next instruction, and every handler ends with interrupts on again. The steps of a handler are
  weakly fair. That the lines above a line fall quiet again and again is a premise of `Served`.
* The loops of `alloc_pages` and of `kmalloc`'s search are weakly fair: code that runs, goes on.

No device interrupt, wakeup, system call, allocation or free has to happen.

## 4. Findings

* `preempt_enabled`: workers start with interrupts on (`kernel/task.c:61`) and neither `yield` nor
  `sleep` nor `reschedule` (`sys/isr.S:68`) turns them off; a tick at the wrong point queues a task
  twice, and the run queue is no ring any more. No worker that calls them exists yet.
* `kheap_free`: `kfree` merges with the chunk below whether that is free or not
  (`mm/kheap.c:167`), so a block in use is handed out again. With `OrderedFree` (nobody frees a
  block above one in use) the heap is right. `kfree` has no caller.
* `uxlfs_ndirect`: a block that becomes a block of addresses is not cleared. Blocks are zero after
  `disk_create` and are never freed, so that is right (`uxlfs` checks it) until a run ends by `exit`
  after it wrote; the same image written again can then take file data for block numbers.

Characterised exactly by a property that holds:

* `alloc_pages` (`mm/pmm.c:71`) skips the page after each used one and never looks below the hint, so it
  panics with "Out of memory" while there is a run that is long enough: `PanicJustified`.
* `kmalloc` of a size 8 bytes short of whole pages writes past the heap (`mm/kheap.c:98`):
  `FaultsAtPageEdge`.
* `PTE_ADDR` (`mm/mmu.h:18`) masks ten bits instead of twelve. `KERN_BSS_END` goes through it, so
  unless the image ends in the first KB of a page, or with a page, the regions start inside a page and
  the kernel faults while it clears the page for the first user stack: `FaultsByImageEnd`.
* `i > BINS * BINS` (`tools/mkuxlfs/lib/uxlfs.c:118`) lets one index too many pass: `IndexFaultsAtEnd`.
* Seven functions of `klib/string.c` differ from C, as `Differs` in `AsInC` says: `strlen` counts the final NUL;
  `strncpy` does not fill up; `strcat` does not end its result; `strncmp` compares one character more and goes
  on behind the end of both strings; `strcmp` and `strncmp` (lines 63 and 72) order bytes from 128 on before the
  others, as `char` has a sign; `strchr` and `strrchr` (lines 91 and 107) return NULL for the end of the string, and for
  a byte from 128 on that is passed unsigned. `klib/vsprintf.c:198` relies on the NULL: with C's `strchr` a
  format that ends in a `%` would have the end for a length.

Seen on the way, without a property:

* `klib/vsprintf.c`: `%%` and unknown conversions also print an argument; `%s` pads with its whole width
  whatever the length; a null string prints its NUL; the sign is not counted in the width.
* `sys/pic_i8259.c`: no kernel code enables line 2, so lines of the second chip never open (callers in
  `Pic` do enable it); ICW3 is written to the wrong chips (lines 37-38); line 15 has no handler entry, and
  a spurious request of the second chip would arrive as line 15.
* `intr_leave` (`sys/isr.S:122`) loads `cr3` with what it holds already, not with the frame's value, so a
  task with page tables of its own would not get them; all tasks share one directory so far.
* `sys/idt.c:59` keeps 8 of the upper 16 bits of a stub's address, `sys/gdt.c` the low 4 bits of the TSS's
  limit instead of the high ones: both harmless where the linker puts things.
* `tools/mkvdisk/main.c`: for an empty partition file the length is all sectors there are and the next
  partition starts at the same place; `create` empties the image before it opens the boot file; results
  of `fwrite` are ignored.
* `tools/mkuxlfs/main.c:87-99`: `cpin` and `cpout` call `cpdir_out`.
* `ksbrk` has no bound (`mm/vmm.c:150`), `free_pages` does not count what it frees (`mm/pmm.c:83` and on),
  `wakeup` does not look whether the task sleeps (`kernel/task.c:175`), `task_init_kstack` does not look
  whether it got a stack (`kernel/task.c:127`). Callers of the models respect what these take for granted.

## 5. Proofs

All of it is checked by `tlapm`, with the SMT, Zenon and LS4 backends, from the named
assumptions about constants and nothing else.

* **`SchedProofs`** begins with rings of any set of cells: `list_init` makes an empty one, `list_add_tail`
  appends an outside node, and removing the first node leaves the ring of the others. It proves `TypeOK`, `RunqInv`, `OwnContext` and `TssInv` of `Spec` for every `NTASKS`
  and every `DEPTH >= 2`, from `NTASKSAssumption`, `DEPTHAssumption` and `LowMemAssumption` (the word that
  the first `schedule` reads through a null pointer is not `RUNNING`). The inductive invariant is
  `IInv`: types, facts about idle, init and the current task (`TaskInv`), the queue (`RunqInv`) and, for
  each task that may be resumed, what its saved `kesp` and its stack must hold (`ContextInv`). The last
  is what makes `OwnContext` inductive: that a switch lands in the right flow depends on what was saved
  long before, by whichever of the three paths saved it. `LeaveResumes` says that a saved context
  that satisfies it leads `intr_leave` to the right flow, `SaveMakesResumable` that saving
  establishes it, `ScheduleHolds` that `schedule` keeps the queue; then there is one lemma per action.
* **`VmmProofs`**, first part, proves `BitmapInv`, `PanicJustified` and `BootInOrder`, and that `Pmm` implements
  `PageAlloc`, from `PmmAssumption` (a memory of at least the reserved pages, an even number of them, a
  count that can hold them). `IInv` adds to these what the search knows while it runs: the counted pages are free and every
  hole large enough lies ahead (`ScanInv`), and, until something is freed, where among the reserved
  pages it can be (`ScanInOrder`). The latter is what `BootInOrder` needs: passing used pages by
  twos steps over no free one because the number of reserved pages is even.
* `SchedProofs` also proves `Implements`: `Sched` refines `SchedAbs`, step by step. The line of the
  abstract scheduler is the sequence that the ring of `runq` stands for; `RingUnique`
  says that there is only one, so adding at the tail and removing the first are what they look like.
* **`SchedPreemptProofs`** proves `NoTaskLost` and `OwnContextAtRest` under `CallersDisable = TRUE`; without
  it they are false, which `preempt_enabled` shows. Outside a call of `yield` or `sleep` `PIInv` is the
  `IInv` of `Sched`, so every action of `Sched` keeps it by `SchedProofs`. In a call the state is none of
  `Sched`'s, and `CallTypes`, `CallTasks`, `CallContext` and `NoTaskLost` say for each step of the call how
  far it has come: who is in the queue, and what is already saved.
* **`VmmProofs`**, second part, proves `NoPageTwice`, `UsedIsMapped`, `RegionsInv` and `FaultsByImageEnd` from
  `VmmAssumption` (no section of the image is empty, an even number of stack pages) and those of `Pmm`.
  `Pmm`'s actions are `Vmm`'s too, and `IInv` of `Pmm` is a part of `VIInv`. `JobInv` says what the function
  that waits for `alloc_pages` is about to do with the pages, `LayoutInv` what is mapped where, `OwnerInv`
  that what callers of the page allocator hold is what is mapped, or granted and not mapped yet. `SlotsInv` says of the regions' slots whose they are: the entry that a
  region finds empty is nobody's, and one it gives back is its caller's. Without `OwnerInv`,
  `NoPageTwice` is not inductive: that a page is not mapped twice depends on what the bitmap says of it.
* **`KHeapProofs`** proves all five safety properties from `KHeapAssumption` and `OrderedFree = TRUE`, which
  `kheap_free` shows to be needed. The chunks are a *tiling* (`Tiled`): header and footer agree, and the
  end of one is the next. `Split`, `Join`, `Extend` and `Mark` say what writing a tag at the right
  places makes of a tiling, and the actions are made of these four. The search needs that it passed
  by nothing that fits and that no free chunk lies before the first (`SearchInv`); `kfree` needs `Coalesced`, since it
  merges with one neighbour on each side only, and `GrowsWhenFull` needs `SearchInv`.
* **`PicProofs`** proves `PicInv`, `ReachesOwnHandler`, `MaskAsAsked` and `EndsItsOwn` from
  `DescriptorsAssumption` (the stubs lie below the 24 bits that `sys/idt.c:59` keeps, the TSS's size fits in the
  low half of its limit) and `PicAssumption`. A first part divides: a field is a quotient or a remainder by a
  power of `NIBBLE`, and what was cut in pieces is put together again (`Halves`, `Gates`, `CodeCovers`, `TssCovers`).
  A second part is `IInv`: which contexts may lie on which (`ContextInv`), what is loaded at which
  station (`TablesInv`), that a mask read is still the mask when it is written (`MaskInv`), and that the
  services of the chips are the handlers on the stack (`InServiceIsHandled`). The last is what makes a
  non-specific EOI, which names no line, end the right service.
* **`MbrProofs`** proves `TableInv` and `AppendsOnly` from `MbrAssumption`: a `uint32_t` is a whole number
  of blocks, and the boot block with three of the largest files fits in it (nothing checks that: the code adds
  in 32 bits, and a larger image would wrap). The
  invariant is in blocks where the code is in bytes and sectors: `EntriesInv` (the entries are one behind
  the other), `BlocksInv` (what each holds) and `JobInv` (what a run in progress has copied, behind all
  partitions). `FirstByte` says that the sum of the code is that place although an empty file's entry adds
  a whole lap of 32 bits, `Sectors` that the rounding of the code is `BlocksFor`.

* **`UxlFsProofs`** proves `ImageInv`, `NoOrphans`, `IndexFaultsAtEnd` and `NdirectHoldsAddresses` from
  `UxlFsAssumption`, `CapacityAssumption` and `WriteAfterAbort = FALSE`; with TRUE the last is false, which
  `uxlfs_ndirect` shows. The functions of the tool are nested, so the proof follows them from the inside out, with what each makes of
  a state: a fresh block stored at one empty place (`StoreInInode`, `StoreInBlock`), `balloc`, one address
  of an inode or of a block (`InodeAddr`, `BlockAddr`), `iget_phys_block` through all its levels (`BlockReached`),
  one entry or one block written (`DirWriteIs`, `WriteBlockIs`), a new inode and its name (`MadeIs`,
  `EnteredIs`), a whole command (`CreateIs`, `WrittenFile`). `Owned` is not inductive alone: that a fresh block adds no owner but one
  needs that a free block is still zero (`Clean`), that a write to a leaf changes no block of
  addresses needs that no leaf is one (`LeafNoTable`), and that it changes nobody else's data needs that a block
  is a leaf once (`LeafOnce`). That every inode has a name needs that lookups find what they found
  before (`LookupKept`, which needs `Filled`), and that the walk down a path does too (`WalkKept`). That a directory never reaches the
  index that leads too far needs a bound on its entries by the inodes taken (`Unused`). `Synced` and
  `Copying` say what of this a run leaves behind that a `killed` ends.
* `UxlFsProofs` also proves `Implements`: `UxlFs` refines `UxlTree`, for names other than `.` and `..` (with
  these in it a path is one of many names of a node; `cpdir_in` and `cpdir_out` skip them, `uxlfs.c:552` and `:617`).
  `Reaches` is `iname` without its recursion. Three things make a step of the tool a step of the tree. One
  path at most leads to an inode (`OneWay`): each entry of the tree has an inode of its own (`Sole`, a part of
  the inductive invariant), so that a new name adds one node (`TreeMade`) and a new block changes one
  (`TreeExtended`). What a step leaves alone it leaves where it was, down to the addresses (`Kept`,
  `NodeKept`, `TreeSame`), also where a full disk stopped it half way. And a second invariant, `Saved`: the
  inodes on disk, read over the blocks as they are now, are still what they were (`Past`), since a run
  only adds (`PastStays`). The tree is saved by the write of the inodes alone; the bitmap after it and the
  counts before it are no part of the tree.

* **`KlibProofs`** proves `ListIsOrder`, `AsInC`, `FormatsAsMeant` and `PrintsItsLine` from `NodesAssumption` (finitely many
  nodes, the head is none of them) and `KlibAssumption` (characters are numbers below `CHAR`, 0 is one, ints passed for them any numbers or their negatives; the types have an
  even number of values and a long the most; widths and precisions have one digit; no task is the handler). For the list, `AddRing` and `RemoveRing` say that `__list_add` and `__list_del` put a node in, or
  take it out, anywhere in a ring, and `WalkVisits` that `list_for_each` passes by each node once, in order, and
  stops at the head. For the strings there is a lemma for each of the thirteen functions (`strcpy_Right` to
  `strncmp_Right`): on any memory, with any arguments that C defines, overlapping ones of `memmove` included,
  what the loop leaves is what C says unless `Differs`, and is something else where `Differs`.
  `PlainOrder` says when the order of two bytes as plain chars is another than that of the bytes. A loop is a
  recursive function; what it computes is given in closed form (`CopyUpIs`, `CopyDownIs`, `BeforeIs`), which is shown
  to be a solution of the recursion, and that there is no other by the least argument at which two would differ
  (`LeastNat`), an induction for one formula at a time. `FormatsRead` goes through `vsprintf` from both ends.
  `DirectiveIs` says that the scan finds in a format the directive it was spelled from, and `VsprintfIs` that the
  loop copies what stands before and behind it. `KeepsValue` says that an argument cut to its type and widened
  to a long stands for what it meant (the most negative one included), `DigitsSpell` that the digits of a
  number spell it, and `FieldIs` where blanks, sign, prefix and zeros go; `NumberIsRead` that a reader who
  skips all of these gets the number. `FormatInv` keeps this of the last call. For the console the invariant is `ConsoleInv`: the last place of the
  buffer never holds anything but the end (`Ended`), which is why every `puts` stops however lines mix;
  calls that overlap are counted as mixed (`Mixed`); and the others are as far as they say (`SoFar`). That a
  handler's line is always whole needs `Mixed` of its own: it comes between the steps of others, never others between its.

Each inductive invariant was checked by TLC on an instance of its module before it was proved; two are among
the runs (`sched`, `pmm`).

Only model-checked: liveness (`NoStarvation`, `CallReturns`, `Served`), which the backends do not do under
fairness. Every invariant and every action property a passing run checks is proved as well.

## 6. Not modelled

* `startup/boot.S` (clears `.bss`, maps the first 4 MB twice) and the macros of `debug/`: straight-line code
  and layout. The order of the calls of `main` is in `Pic` (tables, controller), `Vmm` and `Sched`.
* Options of the tools and what they print; the image `mkvdisk` is given if it is shorter than a table.
* The TSS's fields other than `esp0`, which is in `Sched`; line 15 of the controllers.
* Register values, contents of user memory, the TLB, page directories and the first user stack's table;
  names and process numbers.
* A `create_fs` that is killed before its `sync_fs` is done, or that is run on an image in use; empty host files.
* The layout that `create_fs` computes, offsets in the image, the host directory walk of `cpdir_in`.

## 7. Plan

Everything the inventory names is modelled as far as section 6 says; what is left is to prove more.

1. `KHeap` on top of the part of the heap that `Vmm` maps, as one specification.
