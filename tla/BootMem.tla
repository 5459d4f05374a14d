------------------------------- MODULE BootMem -------------------------------
(***************************************************************************)
(* mman_init of kernel/arch/x86_64/mman.c: from the boot loader's memory   *)
(* map to the bitmap, the page stack and the first mappings, of which the  *)
(* allocator (PhysMem) and paging (Paging) start.                          *)
(*                                                                         *)
(* Addresses are counted in pages.  The map is a sequence of entries that  *)
(* do not overlap; machine.top is the page above the boot stack.           *)
(***************************************************************************)
EXTENDS Machine, SequencesExt, FiniteSetsExt

CONSTANTS
  LowPages,      \* pages below LOWMEM_SIZE
  BitmapPages,   \* pages of the bitmap
  PerPage,       \* page numbers that fit in one page: 1024
  Mid, Big,      \* pages in 2 MiB and in 1 GiB
  Hhdm,          \* hhdm_off, the offset of the direct map
  MaxTables      \* bound: pages in use as page tables and the like

ASSUME MemoryAssumption ==
  /\ LowPages \in Nat /\ BitmapPages \in Nat /\ MaxTables \in Nat /\ Hhdm \in Nat
  /\ PerPage \in Nat \ {0} /\ Mid \in Nat \ {0} /\ Big \in Nat \ {0} /\ Big % Mid = 0
  /\ \A m \in Machines :
       /\ m.mmap \in Seq([type : STRING, base : Nat, n : Nat]) /\ m.top \in Nat
       /\ \A i \in DOMAIN m.mmap : m.mmap[i].base + m.mmap[i].n <= Hhdm

VARIABLES
  bitmap,       \* the low pages whose bit is set
  page_stack,   \* the top last
  place,        \* the first of the pages that hold the bitmap and the stack
  tables,       \* pages in use as page tables, page infos, stack or slabs
  direct        \* the mappings of the direct map: first page and size of each

memVars == <<bitmap, page_stack, place, tables, direct>>

Span(e) == e.base .. e.base + e.n - 1
ASSUME MapAssumption ==
  \A m \in Machines : \A i, j \in DOMAIN m.mmap :
    i # j /\ {m.mmap[i].type, m.mmap[j].type} \subseteq {"usable", "bootloader"}
      => Span(m.mmap[i]) \cap Span(m.mmap[j]) = {}

Entries(types) == {i \in DOMAIN machine.mmap : machine.mmap[i].type \in types}
PagesOf(types) == UNION {Span(machine.mmap[i]) : i \in Entries(types)}

CountedTypes == {"usable", "bootloader", "acpi"}
mem_size == Cardinality(PagesOf(CountedTypes))
reserve  == BitmapPages + (mem_size + PerPage - 1) \div PerPage
Reserved == place .. place + reserve - 1

HighStart_Base(e) == e.base
HighStart(e) == Larger(e.base, LowPages)
Candidates ==
  {i \in Entries({"usable"}) :
     machine.mmap[i].base + machine.mmap[i].n
       > HighStart(machine.mmap[i]) + reserve}

\* The pages of an entry are pushed from its end down to its first high page
\* that is not reserved.
Pushed_Reserved(e, at) == [k \in 1 .. e.base + e.n - HighStart(e) |-> e.base + e.n - k]
Pushed(e, at) ==
  LET first == IF HighStart(e) = at THEN at + reserve ELSE HighStart(e)
  IN  [k \in 1 .. e.base + e.n - first |-> e.base + e.n - k]

BuildStores ==
  /\ At("mman")
  /\ IF Candidates = {}
       THEN Go("panic") /\ UNCHANGED <<place, bitmap, page_stack>>
       ELSE LET m == machine.mmap
            IN  /\ place' = HighStart(m[Min(Candidates)])
                /\ bitmap' = PagesOf({"usable"}) \cap 0 .. LowPages - 1
                /\ page_stack' = FlattenSeq(Reverse([i \in DOMAIN m |->
                     IF m[i].type = "usable" THEN Pushed(m[i], place') ELSE <<>>]))
                /\ Go("page_tables")
  /\ UNCHANGED <<tables, direct>>

\* What alloc_page returns while the stack is not empty.  The stack is bounded
\* from below: that it runs out before kmain is left to PhysMem.
Top(k) == {page_stack[i] : i \in Len(page_stack) - k + 1 .. Len(page_stack)}
Pop(k) == k <= Len(page_stack) /\ page_stack' = SubSeq(page_stack, 1, Len(page_stack) - k)

\* For page tables, page infos, nodes of vmem, slabs and the rest of the kernel's
\* own stack: none of these come back, but for tables that unmap_page frees.
MayTake(k) == k <= Len(page_stack) /\ Cardinality(tables) + k <= MaxTables
Take(k) == MayTake(k) /\ Pop(k) /\ tables' = tables \cup Top(k)

----------------------------------------------------------------------------
(* The first mappings *)

Mappings(at, size, k) == {[at |-> at + i * size, size |-> size] : i \in 0 .. k - 1}

\* Up to the next multiple of 2 MiB, from there to the next of 1 GiB, and then
\* the largest mappings that fit.
PadTo_None(at, n) == 0
PadTo(at, n) == Smaller(n \div Mid, ((-at) % Big) \div Mid)

DirectMap(at, n) ==
  LET pad  == Smaller(n, (-at) % Mid)
      mids == PadTo(at + pad, n - pad)
      at3  == at + pad + mids * Mid
      n3   == at + n - at3
      bigs == n3 \div Big
      more == (n3 % Big) \div Mid
      at5  == at3 + bigs * Big + more * Mid
  IN  Mappings(at, 1, pad) \cup Mappings(at + pad, Mid, mids)
        \cup Mappings(at3, Big, bigs) \cup Mappings(at3 + bigs * Big, Mid, more)
        \cup Mappings(at5, 1, at + n - at5)

\* The first loop over the framebuffer only ends when an aligned rest of at
\* least 2 MiB is left; otherwise it maps on until nothing is left to map with.
framebuffer == machine.mmap[Min(Entries({"framebuffer"}))]
FramebufferFits == framebuffer.n >= ((-framebuffer.base) % Mid) + Mid

MapMemory ==
  /\ At("page_tables")
  /\ \E k \in 1 .. MaxTables - 1 : Take(k)
  /\ IF FramebufferFits
       THEN /\ direct' = UNION {DirectMap(machine.mmap[i].base, machine.mmap[i].n) :
                                  i \in Entries({"usable", "bootloader"})}
            /\ Go("reclaim")
       ELSE Go("endless") /\ UNCHANGED direct
  /\ UNCHANGED <<bitmap, place>>

\* The page left out is that of the virtual address of the stack.
Reclaimed == PagesOf({"bootloader"}) \ {Hhdm + machine.top}

HighPages(e) ==
  FlattenSeq([k \in 1 .. e.n |->
    LET p == e.base + k - 1
    IN  IF p \in Reclaimed /\ p >= LowPages THEN <<p>> ELSE <<>>])

Reclaim ==
  /\ At("reclaim")
  /\ bitmap' = bitmap \cup (Reclaimed \cap 0 .. LowPages - 1)
  /\ page_stack' = page_stack \o FlattenSeq([i \in DOMAIN machine.mmap |->
       IF machine.mmap[i].type = "bootloader" THEN HighPages(machine.mmap[i]) ELSE <<>>])
  /\ Go("vmem")
  /\ UNCHANGED <<place, tables, direct>>

\* vmem_init takes a page for its nodes and those of the rest of the stack,
\* kmalloc_init creates the slabs.
vmem_init ==
  /\ At("vmem")
  /\ \E k \in 1 .. MaxTables : Take(k)
  /\ Go("acpi")
  /\ UNCHANGED <<bitmap, place, direct>>

MemInit ==
  bitmap = {} /\ page_stack = <<>> /\ place = 0 /\ tables = {} /\ direct = {}

MemNext == BuildStores \/ MapMemory \/ Reclaim \/ vmem_init

----------------------------------------------------------------------------
(* Properties *)

Free == bitmap \cup Range(page_stack)

\* The page stack never grows out of the pages reserved for it, the pages of
\* the boot loader included, although they are pushed last.
StackFits == Len(page_stack) <= (reserve - BitmapPages) * PerPage

\* Whatever the borders of the entries, mman_init maps each page of usable and
\* loader memory exactly once, by mappings aligned to their sizes.
Extent(d) == d.at .. d.at + d.size - 1
DirectMapExact ==
  direct # {} =>
    /\ \A d \in direct : d.at % d.size = 0
    /\ \A c, d \in direct : c # d => Extent(c) \cap Extent(d) = {}
    /\ UNION {Extent(d) : d \in direct} = PagesOf({"usable", "bootloader"})

\* The comment at mman.c:235 reads "Make sure we don't reclaim the page for the
\* top of stack": the page below the top of the stack kinit runs on is not
\* free.
StackNotReclaimed == machine.top - 1 \notin Free

=============================================================================
