# PZOS in TLA+

PZOS is a small x86-64 kernel in C.  One processor runs two kinds of context:
the boot thread, which initialises everything (`kinit`, kernel/src/init.c) and
then runs the shell (`kmain`, kernel/src/main.c) for ever, and interrupt
handlers, which run with the interrupts off.  After boot only the keyboard
interrupt (IRQ 1) and page faults occur; the timer interrupt is masked again at
the end of its calibration (kernel/arch/x86_64/time.c:104-106).  There is no
scheduler, no second thread and no persistent state.

The repository's TODO list names "thread safety and re-entrancy (especially in
memory management)".  This project states what the kernel's parts are meant to do,
checks it with TLC on small instances, and proves some of it with TLAPS.

All paths below are relative to `src/`.

## Inventory

| Component | Source | State | Operations | Module |
|---|---|---|---|---|
| Physical page allocator | kernel/arch/x86_64/mman.c | bitmap of the pages below LOWMEM_SIZE, stack of the page numbers above | alloc_page, free_page, alloc_aligned, alloc_contig, free_contig, mman_init | PhysMem, BootMem (mman_init) |
| Paging | kernel/arch/x86_64/paging.c | four levels of tables, a reference counter per frame | early_map, map_page, unmap_page, page_fault_handler | Paging, AddressMap |
| Kernel virtual area | kernel/src/vmem.c | ordered list of VMAs, free list of their nodes | vmem_init, vmalloc, vmalloc_at, vfree | Vmem, AddrSpace; the pages vmem_init takes, in BootMem |
| Slab and kmalloc | kernel/src/slab.c, kmalloc.c | a free list per slab through the objects, owner of each page | slab_create, slab_alloc, slab_free, kmalloc, kfree | Slab |
| Keyboard driver | kernel/src/kbd.c | ring of keystrokes, queue of commands, parser state, retry counter | kbd_isr, kbd_read, kbd_write, kbd_init | Kbd |
| PS/2 controller | kernel/src/ps2.c, arch/x86_64/ps2.c | configuration byte, output buffer, handler | ps2_init, ps2_register_kbd_isr, ps2_send_kbd, ps2_read_data | Ps2 (initialisation), Kbd (sending and reading) |
| Shell | kernel/src/main.c | line buffer, history | the loop of kmain, eval | Shell, LineEdit, Kbd (the loop) |
| Terminal | kernel/src/tty.c | cells, used part of each row, cursor, colours, escape sequence buffer, tty_lock | tty_putchar, tty_puts, tty_write, tty_panic_unlock | Terminal (screen), Tty (parser, colours, lock) |
| Strings and printf | libc/ | none | copying, comparing, formatting | Printf; the copies, in Shell |
| Time | arch/x86_64/time.c | TSC frequency, state of the calibration | time_init, calibrate_tsc | Clock |
| PCI | arch/x86_64/pci.c | tree of buses and devices | pci_init, pci_register_driver | Pci |
| NVMe | kernel/src/nvme.c | list of controllers; registers and queues of each | nvme_init, nvme_attach | Nvme |
| ACPI | arch/x86_64/acpi.c | the root table; pages mapped beside the direct map | acpi_init, acpi_get_table | Acpi |
| Boot, panic, serial log | init.c, panic.c, serial.c | none that matters | kinit, _panic | Boot, Machine; the panic's output in Tty |
| Locks | include/kernel/spinlock.h | lock words, the saved interrupt flag | acquire, release | tty_lock in Tty; elsewhere a critical section is one step |
| Interrupt dispatch | arch/x86_64/isr.* | handler table | registration, dispatch | not modelled |

How they interact:

- The thread calls down: Shell -> keyboard driver and terminal; drivers -> kmalloc ->
  slab -> alloc_page, or kmalloc -> vmalloc.
- vmalloc only reserves addresses.  The first access faults; page_fault_handler
  takes a frame from alloc_page and calls map_page.  vfree calls unmap_page for the
  pages that are mapped.  pageinfo, in which slab and paging keep owner and
  counter of a frame, is itself such an area.
- kbd_isr and the thread share the ring, the command queue and `active`; a handler that
  logs and a panic share the terminal with the thread.
- kinit calls the parts' initialisations in a fixed order: the clock, mman_init, vmem_init and kmalloc_init, ACPI,
  PCI, NVMe, PS/2.  ACPI maps and unmaps pages beside the direct map that mman_init has made; PCI reads the
  MCFG table; the NVMe driver takes devices from PCI's list, pages from alloc_page and time
  from the clock; ps2_init asks ACPI's FADT whether there is a controller.
- Each shared structure has a spinlock taken with the interrupts off.

What is hard here, and which properties make each part correct:

| Component | Hard because | Correct when |
|---|---|---|
| PhysMem | single pages and runs overlap in one bitmap, two stores, limits | no page has two owners; free and owned pages are always the memory map |
| Paging | tables are shared between pages and freed by counting | counters are exact; a table lives exactly as long as it has entries; a call changes one page's mapping |
| Vmem | VMAs grow to either side, merge, shrink, split | the list is ordered and equals what the clients hold; nodes are conserved |
| Slab | free lists run through memory that clients overwrite | no two allocations overlap; each list holds exactly the free objects |
| Kbd | interrupt against thread, answers against scancodes, refusals, timeouts, a wrapping ring | one keystroke per press, in order; one command byte outstanding, accepted in order, in the end; an awake thread reads everything |
| Boot: memory | stores reserved inside the memory they describe, odd borders, the loader's memory reclaimed while in use, tables of the direct map freed by ACPI | each page has one use from start to end; the direct map covers each page once |
| Boot: devices | late, missing or duplicate answers; a recursion over bridges; interrupts enabled before handlers | only usable controllers are listed; each function is found once; the keyboard is connected; the initialisation ends |
| Clock | two ticks against two hlt, stray ticks, CPUID arithmetic | the clock counts in Hz |
| Tty | sequences cut by calls, handlers and panics inside them, one lock for all | the screen is that of the complete items; nobody waits in vain; a panic is shown |
| Printf | flags, width, precision and length interact; printed and counted apart | the count is what is printed; the field is C's |
| Shell, Terminal | lines wrap, the screen scrolls, unterminated arrays | the screen shows the line; Enter executes it; the buffer is a line editor |

`PROJECT.json` lists each hazard at its line, with the properties that cover it.

## Modules

Every module of the code declares its constants with named assumptions, its
variables, one action per operation, `Init`, `Next`, `Spec` and then its
properties.  The `MC...` modules and the `.cfg` files give the constants values
and do nothing else.  Operators whose name ends in an underscore and a word
(`Marked_OneShort`) are defined next to the one they vary; they are plausible
mistakes, used to test that a property notices them, and nothing else refers
to them.

**PhysMem** (mman.c).  `lowFree` is the set of the bitmap's set bits, `stack` the
page stack.  `held` counts, per page, the allocations not given back; it is a
history of the clients.  alloc_page is split into its branches: from the stack,
from the bitmap (`AllocFromBitmap`), past its end (`AllocPastBitmap`), and the panic.
`Bslr` computes what `_bslr_u64` computes, the index of the highest bit, which
then replaces the word (mman.c:259).  `AddressedPage` is the 32-bit product of mman.c:269.

**Paging** (paging.c).  `entry[t][i]` is the frame that entry i of table t names,
`refcount` the pageinfo counter, `free` what alloc_page can return.  A virtual page is
its four indices.  The operators work on a record of the memory, so that map_page
is `WithTables`, then the leaf; unmap_page goes up the levels while a counter
drops to zero.  early_map maps the pages of mman_init and vmem_init (`pending`) before the
first other call, and counts nothing: its tables count only what map_page adds to them, so that unmap_page
may free one that early pages need, or meet a counter that is 0 and panic.  Both happen in the model, and
in the run; it stops where the first of them has (`Working`), since the kernel does not outlive the loss of its
direct map.  What Boot does with such a loss is in Acpi.  **AddressMap** is the abstraction: a partial function from
pages to frames of which each call changes one entry.

**Vmem** (vmem.c, and page_fault_handler's look at the list).  The doubly linked
list is a sequence; a VMA whose prev pointer is out of date is `stale`.
`owner` is what clients hold, `mapped` what has been paged in, `stopped` the reason why the
kernel came to a stop.  **AddrSpace** is the abstraction: runs of pages are
allocated where none was allocated, and freed by name.

**Slab** (slab.c, kmalloc.c).  Addresses are numbers; `link` is the first word of
every object ever made, which its owner overwrites (`Data`).  Slab descriptors are
objects of the slab `Global` as in the code, so slab_create is slab_alloc plus
the rounding of sizes.

**Kbd** (kbd.c, the loop of kmain, ps2_send_kbd).  Three actors: `thread` (kbd_init's
writes one by one, the store to `active`, hlt, kbd_read), `kbd_isr` (one
action per path through the handler), and the keyboard, which answers command bytes and
sends the bytes of keys.  `wbuf`, `rbuf`, their indices, `retry_cnt`,
`current_state`, `prev` and `keystates` are the code's variables; the remaining
ones record what was typed, heard, read and lost.

**Shell** (main.c) over **Terminal** (tty.c).  One action per key; each takes `buf`,
`history` and the terminal `term` through everything the code does for it, the redrawing
included.  The arrays keep what lies behind the end of the line, because the code
leaves it there and sometimes reads it.  Terminal has one operator per control
character or escape sequence the shell sends.  **LineEdit** is the abstraction:
insert, erase, move, replace.

**Machine, Clock, BootMem, Acpi, Pci, Nvme, Ps2, Boot** (kinit and what it calls).  Machine
declares the record of what firmware, loader and devices present (`machine`) and the
position in kinit (`stage`); each further module extends it by the variables and actions of
one source file, and Boot puts them together: one processor, whose steps are `Kernel`, beside
devices and time, which take theirs at any moment.  The modules are composed by
extension because they hand each other state: Acpi maps pages beside what `DirectMap` of BootMem has mapped and frees
tables onto BootMem's `page_stack`, and Nvme pops pages from it and writes to Pci's list.
- *Clock* (time.c): CPUID's frequency, or unmask, two hlt and mask against `calibrate_tsc`
  at each tick, also at ticks nobody waited for (`strays`); a processor without a counter stops at the first message.
- *BootMem* (mman_init): `mem_size`, the place of the two stores, the order in which pages are
  pushed, page tables, the direct map by pages of three sizes, the framebuffer,
  the reclaim, and the pages that vmem_init and kmalloc_init take.  `Span` rounds an entry's borders as the code does.
- *Acpi* (acpi.c, and map_page and unmap_page as it calls them): both searches for the root pointer, with checksums and
  revisions.  `count` holds the counters of the tables on the ways to the firmware's pages, which map_page has to raise from 0
  where early_map made the table; `UnmapPage` climbs as long as a counter was 1, gives the tables it frees back to the stack, and
  panics at a counter of 0.  `lost` is what was mapped below a table of the direct map that is freed.  On a BIOS machine
  unmap_page of page 0 (acpi.c:40) always ends the boot: in dec_page's panic (paging.c:277), at once when the direct map
  has page 0 and otherwise at the first table of early_map above those that it frees, or with the direct map gone.  On an EFI
  machine the same may happen after a root pointer with a wrong checksum (acpi.c:91), and Boot then lets the kernel
  come to a page fault at any later access (`LostAccess`), or not, as the TLB may still hold the mapping.
- *Pci* (pci.c): a stack of `frames` for the recursion of pci_enumerate_bus, one frame per bus.
- *Nvme* (nvme.c, and pci_register_driver as it calls it): one attach after the other, with the two waits,
  the queues it allocates, and controllers that answer, fail or do not.
- *Ps2* (ps2.c of both directories, the registrations of kbd_init): bytes are sets of bits;
  the controller's buffer holds one byte and its answers come in order.

**Tty** (tty.c) over Terminal.  A stream of items (characters, cursor movements, colours) is turned into
characters and written in calls of any size; `Call` takes tty_lock and saves the interrupt
flag, `Finish` feeds the characters one by one through `parsecontrol` and `parseescape`.
`Interrupt` and `Log` are a handler that logs, `Fault` to `PanicPrints` a
panic at any point of it.  `meant` is what the complete items amount to when they are
carried out whole: the reference the parser is compared with.

**Printf** (printf.c).  One action per iteration of vprintf's loop: a literal character, or
a directive, parsed by a fold (`Parse`) and printed by the branch of its type.  `Standard` lays the same
field out from the C standard.  Widths of types are scaled down.

**PhysMemProofs**, **PagingProofs**, **VmemProofs**, **KbdProofs**, **SlabProofs** and **BootProofs** hold the
theorems about the module they are named after, **TerminalProofs** those about Shell and Tty, and
**CommonLemmas** the facts about numbers and sequences that several of them need.

## What the runs check

| Run | Properties | Shows |
|---|---|---|
| phys_core | TypeOK, Exclusive, Conserved | single pages and runs, allocated and freed in any order, never have two owners nor get lost, until alloc_page falls back on the bitmap |
| paging | CountsExact, TablesInUse, ImplementsAddressMap | tables are made and freed when they must be, over pages that share tables at each level and lie beside those of early_map, until an early page is lost or dec_page panics |
| vmem_core | TypeOK, NodesConserved, ListOrdered, OwnersCovered, ImplementsAddrSpace | the list stays ordered and faithful while VMAs grow, merge, shrink at the end and go; nodes are conserved whatever happens |
| slab | TypeOK, HeldApart, ListsComplete | objects do not overlap and none is lost |
| kbd_events | TypeOK, KeystrokesFaithful, RingFaithful, ReadsInOrder | six kinds of codes become the right keystrokes and come out of the ring in order, a ring of two slots that overflows |
| kbd_commands | OneOutstanding, CommandsInOrder, AllAccepted, Drained | the command queue under refusals and a failed send, and the two liveness properties |
| shell | TypeOK, ScreenFaithful, ExecutesLine, ImplementsLineEdit | ten keys of any kind on three rows of four columns |
| boot | TypeOK, ClockRight, DirectMapExact, PagesOnce, TreeFaithful, ListedUsable, KeyboardConnected, BootEnds | kinit on machines that differ in processor, memory map, firmware, buses and controllers |
| tty | TtyTypeOK, ParserFaithful, NeverStuck, PanicShown | items cut into calls anywhere, a handler that logs, an exception at any point |
| printf | CountExact, ConformsToC | all flags with several widths and precisions, all lengths at the borders of their types, malformed directives |

Two runs show where the code departs from what it says:

| Run | Property | The code |
|---|---|---|
| phys_fallback | FallbackExclusive | mman.c:259 replaces a bitmap word by the index of its highest bit: a page in use is handed out again |
| boot_stack | StackNotReclaimed | mman.c:236 means to keep the stack's page from being reclaimed, and compares a physical page number with a virtual address: the page kinit runs on is free |

### Bounds

- PhysMem: two words of four bits, three pages on the stack, runs of up to
  three pages, alignment up to two.  That is enough for runs across a word border,
  runs around a used page and both borders of the bitmap.  After the stack is empty
  three calls are followed (`MaxFallbacks`).
- Paging: three entries per table and nine pages.  Four are anonymous, below a PML4 entry of their own: two in one page
  table, one in another table of the same directory, one in another directory.  Two are early_map's, in two directories of one
  PDPT, and three device pages lie beside the first of them, in its page table and in two other ones of its directory.  All
  but one early page are unmapped, in any order, so that tables of early_map are kept, freed while early pages need them, and
  met with a counter of 0.  The twelve frames never run out.  The state space (28,689 states) is finite without any further bound.
- Vmem: five pages, five nodes, two sets of flags, calls of up to three pages.
  A merge of three VMAs, differing flags on either side and the exhaustion of
  nodes and of room all occur.  Once a vfree has cut off the start or the middle of
  a VMA, one further call is followed (`MaxLate`).
- Slab: pages of eight units, objects of one to four, four frames, eight calls:
  lists run empty and are refilled, and the frames run out.
- Kbd: the ring has two slots for three keystrokes; the real 256 differ only in how
  often it overflows.  Codes of one to eight bytes, three presses or
  releases; in kbd_commands up to five refusals, more than the retry limit of
  three, and one failed send.
- Shell: four columns, three rows, lines of up to five characters after a prompt of
  two, two stored lines (HIST_SIZE 3), ten keys.  Lines wrap once, the screen
  scrolls, the history fills and is shifted.  `MaxLine` is a bound of the model: the
  code does not bound the line.

- Boot: low memory of four pages, large pages of two and huge ones of eight, eight of these to a PDPT, at most three pages for
  tables, nodes and slabs, four page numbers to a page of the stack, three regions of each kind, buses of two devices of two functions, waits of
  at most one tick, two stray ticks, one key.  Each machine (`MCMachines`) differs
  from an ordinary one in one part: all values of a part are combined with every timing, but
  not with all values of the other parts, which meet only through the pages, the mapped memory and the list
  of devices that the ordinary parts hand over.
- Tty: a screen of two rows of three columns, streams of up to three items, one log.  The
  buffer (24) is longer than any sequence, as the real one (64) is than those of the kernel; the
  notice a handler logs is long enough to fill it, and does.
- Printf: char, short, int and long of 4, 6, 8 and 12 bits, so that every type has values that the
  next smaller one cuts off; widths and precisions up to 8.

CHECK_DEADLOCK is off where the system may stop: the model bounds its inputs, the kernel
panics, or the thread waits for a key that nobody presses.  In the run tty it is on:
whoever waits for tty_lock gets it.

### Fairness

*Kbd* (`FairSpec`).  The thread runs whenever it is not halted, since there
is nothing else to run; a pending interrupt is delivered, since every critical section
ends and the thread's hlt comes with the interrupts on; and the keyboard answers
each command byte.  Nobody is obliged to press a key.  `AllAccepted` is claimed for at
most three refusals and no failed send: after the fourth, or after a
failed send, no later event moves the queue, as the code has it.

*Boot* (`Spec`).  The processor goes on, which includes that the timer ticks while it is
halted in time_init, and the clock that nvme_attach reads goes on.  Nothing is assumed of controllers and keyboard:
`BootEnds` rests on the time-outs.

*Tty* has none.  Its steps are the calls themselves, and no one must make one; that nobody is left
waiting is the invariant NeverStuck and the absence of deadlock.

## What is proved

For every value of the constants that the named assumptions allow:

| Theorem | States | Rests on |
|---|---|---|
| PhysMemProofs!TypeCorrect | TypeOK | inductive by itself |
| PhysMemProofs!ExclusiveOwnership | Exclusive | the conjunction of TypeOK, Exclusive and Conserved |
| PhysMemProofs!Conservation | Conserved | the same |
| VmemProofs!TypeCorrect | TypeOK | ListInv, OwnInv |
| VmemProofs!NodesKept | NodesConserved | ListInv |
| VmemProofs!Order | ListOrdered | ListInv, OwnInv, AreaInv |
| VmemProofs!Owners | OwnersCovered | the same |
| VmemProofs!Implements | ImplementsAddrSpace | the same |
| KbdProofs!TypeCorrect | TypeOK | inductive by itself |
| KbdProofs!RingCorrect | RingFaithful | inductive together with TypeOK |
| KbdProofs!ReadOrder | ReadsInOrder | the same: the first of the unread keystrokes |
| KbdProofs!Outstanding | OneOutstanding | CmdInv |
| KbdProofs!CommandOrder | CommandsInOrder | CmdInv |
| KbdProofs!PressesBecomeKeystrokes | KeystrokesFaithful | KeysInv, TypeOK |
| PagingProofs!ExactCounts | CountsExact | Invariant |
| PagingProofs!TreeOfTables | TablesInUse | Invariant |
| PagingProofs!NoUnderflow | which calls of unmap_page panic or lose an early page | Invariant |
| PagingProofs!Implements | ImplementsAddressMap | Invariant |
| TerminalProofs!LineCorrect | EditorInv: arrays, cursor and indices | inductive by itself |
| TerminalProofs!Executes | ExecutesLine | EditorInv |
| TerminalProofs!Implements | ImplementsLineEdit | EditorInv |
| TerminalProofs!WithinBounds | TypeOK of Shell | EditorInv, LineShown |
| TerminalProofs!ShowsLine | ScreenFaithful | EditorInv, LineShown |
| SlabProofs!TypeCorrect | TypeOK | SlabInv |
| SlabProofs!Apart | HeldApart | SlabInv |
| SlabProofs!Lists | ListsComplete | SlabInv |
| BootProofs!ClockIsRight | ClockRight | ClockInv |
| BootProofs!KeyboardIsConnected | KeyboardConnected | KbdInv |
| BootProofs!TreeIsFaithful | TreeFaithful | TreeInv |
| BootProofs!ListedAreUsable | ListedUsable | NvmeInv, TreeInv |
| BootProofs!DirectMapIsExact | DirectMapExact | DirectMapLemma, about one call of DirectMap |
| BootProofs!PagesHaveOneUse | PagesOnce | PagesInv, NvmeInv |
| BootProofs!TypeCorrect | TypeOK | TypeInv, PagesInv, NvmeInv |
| TerminalProofs!LockFree | NeverStuck | Holder |

*PhysMem.*  Neither Exclusive nor Conserved is inductive: that an allocation gives no
page a second owner needs that free pages are unowned, and that a freed page is not yet
free needs the converse.  Their theorems assume a memory map below 4 GiB
(`FitsIn32`), as AddressedPage loses pages above it, and claim nothing after the
bitmap fallback, as phys_fallback shows why.

*Paging.*  None of the three properties is inductive: that a counter is right after unmap_page says nothing
unless the table it frees has exactly one name.  `Invariant` asserts that the memory is a
tree (`Tree`) as long as it is `Working`: there is a level for each frame, 0 for those that are no tables, such that an
entry of a table of level 1 to 3 names a table of the next one (`Links`), no two entries name the same frame (`OneName`),
no table but the PML4 is empty (`Used`), and a counter is the number of the table's entries that map_page has made
(`Counted`, by the entries in `Tally`).  The others are those that name a table of a set E or an early page; `EarlyMade` says
that E is closed upwards, so that a table of map_page has none of them, and that each table of E has one.  Hence
E are just the tables on the ways to early_map's pages (`EarlyWay`).  Within a call one table may be out of order: after WithTable
the new one is empty, and while unmap_page climbs (`Climbs`) the one it has come to counts one more than it
has entries.  `NodeChange` says what a change of one entry does to the ways through the tables, and LinkMade, LeafSet,
LeafClear, TableFreed and TableKept take the tree through each change.

When the climb frees a table of E there is no tree any more.  What is left to show is that an early page is lost (TableLost) and
stays so while unmap_page goes on with whatever it finds (`Breaks`, BreaksOn): it then only takes entries away (ShrinkWays).
NoUnderflow is the result: dec_page panics, or an early page is lost, only when unmap_page is called for a page of early_map or for
the last of map_page's pages below a table of early_map (`LastBeside`).  The calls at acpi.c:40, 62 and 91 are of this kind;
vmalloc's area has PML4 entries of its own (vmem.h:26-30), so vfree's are not.

*Vmem.*  Two layers.  Whatever vfree cuts off, the list ends with the pageinfo area and its
nodes and the free ones add up (`ListInv`).  Until vfree cuts off a start or a middle, the VMAs
are disjoint and in the order of their addresses (`Ordered`) and cover what the clients own
(`Represents`), which is `AreaInv`.  ListOrdered speaks of neighbours; `Ordered` speaks of any two VMAs,
and only that is inductive without an induction along the list.  `FlagsAssumption` says that no
client asks for the flags of the pageinfo area: kmalloc, the only client, does not set VMA_ZERO (kmalloc.c:46), and
a client that did could be merged with that area.  The step to AddrSpace takes the pages a VMA
covers for those of its run.

*Kbd.*  RingFaithful relates the ring to the history of all keystrokes:
their number is read + lost + unread, and the unread slots hold the last of them.  A
store that catches up with the reader turns a full ring into an empty one, which the
proof follows as a case of its own.  `CmdInv` says where the byte at wbuf_ridx is: nowhere
(a send failed, or it was given up), on the line, accepted with the acknowledgement unread,
or refused with the refusal unread; with it `wbuf_widx` is determined by the thread's
position, and the queued bytes are those of kbd_init.  Both properties follow from
it, and without it neither is inductive, since an acknowledgement would then be allowed to
refer to a byte that was never sent.

KeystrokesFaithful compares the events stored with the presses heard, and says nothing of a code of
which some bytes are still to come.  `KeysInv` does.  It takes for every byte that waits in the port
its position in the code of its press (`ScanIs`), and from the first of them the press n and the position p
that come next.  `SeenIs` says which presses have been heard at all and which one the store to `active` has cut.
`ParserIs` says that current_state and prev are what the first p - 1 bytes of press n leave behind
(`StatesBefore`, `PrevBefore`), and `EventsMatch` that each event is its press, with the Shift state
of that moment.  That the next byte then does the right thing is a statement about the codes (`Decides`),
proved byte by byte for the codes of `KeysAssumption`, which names the keys whose codes the model gives.
Which keys are down is a set over all presses in Kbd; the proof says of Shift alone when it is
in that set (`ShiftDown`), for which only the last press matters.

*Shell.*  strlen of an array means something only if a NUL ends the array.  `EditorInv` says that buf and
all rows of the history are ended at MaxLine at the latest, although no function of main.c
clears what lies behind the end of a line, that buf holds characters only below buflen, and where the
indices are.  From it follow what strcpy and memmove do to a line, that Enter executes exactly the line, and that
each key is one step of LineEdit.

`LineShown` is about the terminal: prompt and line stand on it from the start of some row, blanks
follow, and the cursor is at the character of bufpos.  Its cells are numbered row by row (`Place`), so that a line that
wraps is one interval.  ScreenFaithful speaks of the columns that a reader sees; what makes it inductive is
`Tidy`, that behind the used cells of a row there are only blanks: a scroll copies no others, and without `Tidy` it
would leave characters of the old row behind.  One character extends the line by a place, wraps, or scrolls and moves the row
of the prompt up by one (PutLemma); a string does so character by character, by the least index at which it
would not (WriteLemma).  BackwardLemma and ForwardLemma are about the row and the column to which the cursor moves.
clearline leaves a terminal on which everything from its row on is blank (`Fresh`), and redraw
writes the line again from there.  All that this needs of the sizes is that the terminal has room for
the prompt, the longest line and the cursor behind it (`ShellAssumption`).

*Slab.*  `SlabInv` says of each slab that following the links from free_list visits exactly its
objects that nobody holds, once each (`IsList`, a sequence without repetitions); that
what is held lies in an object of the size asked for or more; that a page is divided into objects of one size;
and that the descriptors are held objects of `Global`.  HeldApart is not
inductive without it: that a new object overlaps no other comes from its being on a list of which no member is held.
The sizes of page, smallest object and descriptor are powers of two (`PowerOfTwo`,
stated through divisors), which is why the objects fill the page.  ListsComplete
walks the list with a recursive function; `WalkLemma` ties the walk to the sequence,
by the least index at which they would differ.

*Boot.*  Each theorem has an invariant of its own and lets every step of the other parts pass by what it
leaves alone.  `ClockInv`: the parity of `strays` and calibrate_state at each stage; `CpuidAssumption` says that
CPUID's product is the frequency before it is cut off to 32 bits.  `KbdInv`: what is in the
output buffer and on the way while no key has been pressed (`Undisturbed`); `Ps2Assumption` says that bits 3
and 7 of the configuration byte are 0, as the controller's documentation has them, so that the byte is none a keyboard
sends.  `TreeInv`: the listed devices are exactly those that the frames have passed, every frame belongs to
a bus that was entered through its bridge, and no two frames to one bus; `TreeAssumption` says that firmware has numbered
the buses as trees, each within one region of the MCFG table, without which the recursion need not
end.  `NvmeInv`: which controllers are driven, in hand or enabled, with the bits of each while it answers late or
not; `NvmeAssumption` only gives a bit its type.

DirectMapExact is about one step, and all of its difficulty is in the arithmetic.  `Tiles` says that a set of mappings
covers an interval exactly and aligned; the empty set does (TilesNone), k mappings of one size from a multiple of that size do
(TilesMappings), and two that meet do together (TilesJoin).  `PadLemma` and `PadToLemma` say that each of the five runs of an
entry ends where the next size is aligned or the entry ends; all that it takes is that the large
size is a multiple of the middle one.

PagesOnce follows from `PagesInv`.  The stack is one sequence glued together from one per entry of the map, pushed
in reverse, and extended at the reclaim; `FlattenLemma` says where each element of such a sequence comes from
and that none occurs twice.  With it `Divided` says that stack, reserved pages, tables and queues are disjoint and make up
the memory: the usable one until the reclaim (`Pool`), that of the loader too from then on.  A page
taken from the stack for a table or a queue keeps it until unmap_page gives the table back, which puts it on top of the
stack (`ExchangeLemma`, about the pages that one call of map_page or unmap_page takes and gives back), provided that the controller has no queues yet: for that `Ahead` says
that no controller from the one in hand on has any, and NvmeInv that no controller comes up twice in the list.
That the reserved pages lie within one entry, and that Pushed skips exactly these (`PlaceLemma`, `PushedLemma`), is where the
borders of low memory matter.  StackFits is counted from the map, as every page on the stack is one of `mem_size`.

TypeOK takes what it says of the pages and of the list from these invariants; `TypeInv` is about the rest, and
follows byte by byte through the buffer of the keyboard controller.  `ClockAssumption` states that 2 to the number of bits of a
register is a natural number other than 0, as the provers know nothing of powers.

`MemoryAssumption` types the map and says that memory ends below the offset of the direct map, hence that the comparison at
mman.c:236 never hits; `MapAssumption` is what the boot loader guarantees of usable and loader entries, that they
do not overlap.  All the assumptions of Boot are about the machine, not about
the kernel, and TLC evaluates them for all machines of the run.

*Tty.*  NeverStuck by itself allows a handler to begin while the lock is taken.  `Holder` adds
why it cannot: the lock is held only by a call or by the thread that a panic has stopped, and a
call that writes has the interrupts off.  It holds for any stream, screen and buffer.

Only model-checked:

- *Liveness* (AllAccepted, Drained, BootEnds): fairness and ENABLED are beyond the provers here.
- *The parser of Tty* (TtyTypeOK, ParserFaithful, PanicShown): these speak of the streams and the notice that the run
  gives, and TtyTypeOK is false of arbitrary ones, since ESC[nD with a large n leaves row 0 with any column
  (tty.c:249).  They compare folds over the characters of such a stream.
- *Printf*: digits and padding are folds and recursive functions over the value that is printed.

The recursive functions in ListsComplete, Write and clearline are ones that could be handled, as what is shown of them
is a statement about one step and a least counterexample; others of that kind may be too.

## Abstractions and limits

- A function that holds its lock with the interrupts off is one step.  This is
  exact for one processor.  On a second processor page_fault_handler would use a VMA
  after releasing vma_lock (paging.c:41).
- PhysMem: past the end of an empty bitmap the loop at mman.c:256 reads what the page
  stack left in memory, because bitmap_size counts bytes.  Which page comes of it, and
  after how many calls the loop reaches the panic, is left open.  free_page panics when
  the stack is empty, even for a valid page (mman.c:281, `FreeRefused`).
- Paging: the frames of unmapped anonymous pages are not given back by the
  code, and so not by the model.  inc_page may fault on the pageinfo area while map_page
  runs; that path ends in early_map, takes no lock and changes no modelled table.  All three properties are
  claimed until unmap_page has taken away a table that an early page needs (paging.c:195-201) or panicked with "Invalid page decrement"
  (paging.c:277); the model stops there.
- Vmem: sizes are integers; a size below zero stands for the wrapped size_t.  When the
  nodes run out, alloc_vma calls vmalloc with vma_lock held and the kernel hangs
  (`stopped = "alloc_vma"`); destroy_vma through a stale prev pointer is not followed further
  (`stopped = "stale prev"`).  The gap search compares with the next VMA only, not with
  VMEM_VIRT_END, so the gap in front of the pageinfo area is used to its last page.  `Unmapped`
  unmaps the first page of a call in every turn of the loop (vmem.c:261), so the others stay
  mapped for their next owner, although the comment says "Unmap all mapped pages".
  vfree of the first pages of a VMA moves base and leaves size (vmem.c:240), and a split gives
  the right part a wrong size (vmem.c:249): from then on a VMA reaches past what is allocated, so
  ListOrdered, OwnersCovered and ImplementsAddrSpace are claimed until the first such call.
- Slab: sizes above the largest slab go to vmalloc and are left out.  kfree of
  such a block computes a pageinfo address outside the table and passes npages, which
  nothing ever sets, to vfree (kmalloc.c:54).
- Kbd: nothing resets retry_cnt when a byte is acknowledged (kbd.c:87-91): a byte is reported as
  failed "after 3 attempts" (kbd.c:98) after fewer when an earlier one was refused.
- Kbd: the modelled keyboard sends no fake Shift codes around the navigation keys
  and no E1 sequence but that of Pause.  The maps are restricted to the keys in use; Alt and the
  codepoint are left out.  Two entries of the full maps look odd and are not modelled: keypad Enter
  maps to Enter, and Shift with the keypad's point acts as Enter.
- Shell: draft lines saved by Up are not terminated (main.c:146); Down may bring them back
  with the tail of an older line, which LineEdit allows as a replacement.  When prompt, line
  and one more character fill a row exactly, Up and Down clear a row above the prompt too;
  ScreenFaithful is about the rows from the prompt on.  A full history copies the line without
  ending it (main.c:107).  The tests for an empty line and for a repetition look at
  the wrong bytes (main.c:101): buf is not terminated there.
- Terminal: pixels and the drawn cursor are left out.  Shell sends its sequences whole; Tty shows
  that cutting them makes no difference.
- Tty: parameters are small numbers, so their decimal overflow is left out, as are sequences of
  64 characters and more, which the copy at tty.c:203 leaves unterminated.  An ESC that a call ends with and
  no bracket follows swallows what comes, until the buffer is full; PanicShown excepts a panic right behind such
  an ESC.
  A log inside a sequence corrupts it, and ParserFaithful then claims only that the
  parser recovers.  Colours that lack their components read behind the parameters given; the model takes the 0
  that the code's array holds.  The loop of tty_write reads a control character's whole sequence even
  behind the size it was given (tty.c:455-483), which a precision of %s can cut short; the streams of the model
  are cut at the end of a string.
- Printf: ConformsToC names in `Agrees` where vprintf departs from C: '-' with '0' pads with
  zeros on the right, '0' counts with a precision, '+' and ' ' act on unsigned numbers, '#x' prefixes 0 and
  '#o' does not act, a negative '*' width does not mean '-', %c ignores the width, %p
  prints 16 digits, and with length L an unsigned number is never set (printf.c:201).
- BootMem: pages are taken while the stack has some (`Pop`); what alloc_page does without is in PhysMem.
  mman_init loops for ever over a framebuffer whose aligned rest is below a large page
  (mman.c:135; stage `endless`).  Page tables are counted, not filled.
- Clock: the product of CPUID's numbers is one of 32 bits (time.c:79), and when that leaves
  0, the time stamp of the next message divides by it (time.c:29).  An odd number of stray
  ticks leaves a counter reading in place of the frequency.  ClockRight excepts both.
- Acpi: that the BIOS path unmaps what it has not counted ends each such boot, as described above, so
  the search of the ROM (acpi.c:42-64) and the use of the root pointer after its page is unmapped (acpi.c:102) are not in the model.
  Of the EBDA only what the direct map and page 0 cover is mapped; reading more is a page fault.  Where a lost part of the direct map is next
  touched is left open.  In the rest of kinit the pages that map_page takes for the MCFG regions and the registers of controllers
  are part of Pci and Nvme.
- Pci: buses form trees, as firmware numbers them; a bridge back to a bus above it would be
  enumerated without end (pci.c:60).  The devices of every bus that a segment group starts with hang below the
  one root and get its number 0 (pci.c:27, 135), which TreeFaithful allows for.  mmio_bases is indexed by bus alone, so bus numbers of two segment groups
  must differ.
- Nvme: queues taken by an attach that fails are never given back, and remain known to the
  controller.  The driver record is on the stack of nvme_init and stays in the list
  of drivers (nvme.c:160), of which only the head is used later, as a link.
- Ps2: the configuration byte is read without waiting (arch ps2.c:55).  A key pressed at that moment is
  written back as configuration; KeyboardConnected excepts it, and rests on the controller
  working its commands off in order.  ps2_send_mse has no caller.
- Interrupt dispatch is not modelled: it consists of register set-up and port writes, and its effect on
  the others is that handlers run with the interrupts off.  isr.asm:53 lists which exceptions push an error code,
  and the list is not the processor's.
- The reader-writer lock of spinlock.h has no user; its count of readers is not changed
  atomically.  The serial log and the register dump of a panic are output only.

## Plan

1. *More of the system.*  A composition of Vmem, Paging and PhysMem: the frames behind the pages of
   an area, from vmalloc over the fault to vfree.  ps2_send_mse and snprintf if they
   find users.
2. *More proofs.*  ParserFaithful and the layout of Printf's fields, whose folds would first have to become
   functions that the provers can unfold.
