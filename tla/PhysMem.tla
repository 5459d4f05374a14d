------------------------------- MODULE PhysMem -------------------------------
(***************************************************************************)
(* The physical page allocator of kernel/arch/x86_64/mman.c.               *)
(*                                                                         *)
(* Pages below LOWMEM_SIZE are kept in a bitmap, one bit per page; pages   *)
(* above it on a stack of page numbers.  alloc_page and free_page work on  *)
(* single pages, alloc_aligned (alloc_contig is alloc_aligned with         *)
(* align = 1) and free_contig on runs of low pages.  Every function holds  *)
(* alloc_lock, taken with the interrupts off, from its first read to its   *)
(* last write, so each is one atomic step.                                 *)
(*                                                                         *)
(* A page is its number (address / 0x1000).  The bitmap is the set lowFree *)
(* of the pages whose bit is set; bit p % 64 of word p / 64 is page p.     *)
(***************************************************************************)
EXTENDS Integers, Sequences, FiniteSets

CONSTANTS
  WordBits,      \* bits of a bitmap word: 64
  WordBytes,     \* bytes of a bitmap word: 8
  LowWords,      \* words of the bitmap: LOWMEM_SIZE / 0x1000 / 64
  WrapPages,     \* pages that 32 bits of address reach: 2^32 / 0x1000
  MaxPage,       \* largest page number the allocator can be asked about
  UsableLow,     \* low pages mman_init marks free
  BootStack,     \* page numbers on the stack after mman_init, the top last
  MaxRun,        \* bound: longest run of pages a client asks for
  MaxAlign,      \* bound: largest alignment a client asks for
  MaxFallbacks   \* bound: how often alloc_page runs on after the stack is empty

LowCount   == LowWords * WordBits
LowPages   == 0 .. LowCount - 1
Page       == 0 .. MaxPage
UsableHigh == {BootStack[i] : i \in 1 .. Len(BootStack)}
Usable     == UsableLow \cup UsableHigh

\* Page 0 is never in the map: its address doubles as the null result.
ASSUME SizesAssumption ==
  /\ WordBits \in Nat \ {0}
  /\ WordBytes \in Nat \ {0}
  /\ LowWords \in Nat \ {0}
  /\ WrapPages \in Nat \ {0}
  /\ MaxPage \in Nat
  /\ MaxRun \in Nat /\ MaxAlign \in Nat /\ MaxFallbacks \in Nat
  /\ LowPages \subseteq Page
  /\ WrapPages > LowCount
ASSUME MapAssumption ==
  /\ UsableLow \subseteq LowPages \ {0}
  /\ BootStack \in Seq(Page \ LowPages)
  /\ \A i, j \in 1 .. Len(BootStack) : BootStack[i] = BootStack[j] => i = j

VARIABLES
  lowFree,    \* bitmap: the low pages whose bit is set
  stack,      \* page_stack_base .. page_stack, the top last
  held,       \* held[p]: allocations of p that their callers have not freed
  fallbacks,  \* how often alloc_page went to the bitmap with the stack empty
  panicked    \* the function that called panic(), or "no"

vars == <<lowFree, stack, held, fallbacks, panicked>>

Running == panicked = "no"

\* The pages of bitmap word w, and the lowest and highest page of a set.
WordPages(w) == {p \in LowPages : p \div WordBits = w}
Lowest(S)    == CHOOSE p \in S : \A q \in S : p <= q
Highest(S)   == CHOOSE p \in S : \A q \in S : q <= p

Hold(S) == held' = [p \in Page |-> IF p \in S THEN held[p] + 1 ELSE held[p]]
Drop(S) == held' = [p \in Page |-> IF p \in S THEN held[p] - 1 ELSE held[p]]

----------------------------------------------------------------------------
(* alloc_page *)

\* *(page_stack--) * 0x1000 is a product of 32-bit operands: the address
\* loses what does not fit.
AddressedPage(n) == n % WrapPages

AllocFromStack ==
  /\ Running
  /\ stack # <<>>
  /\ LET p == AddressedPage(stack[Len(stack)]) IN Hold({p})
  /\ stack' = SubSeq(stack, 1, Len(stack) - 1)
  /\ UNCHANGED <<lowFree, fallbacks, panicked>>

\* _bslr_u64 is the instruction bsr: the word becomes the index of its highest
\* set bit, read as a bit pattern.
BitSet(n, b) == (n \div 2^b) % 2 = 1
Bslr(w) ==
  LET top == Highest(lowFree \cap WordPages(w)) % WordBits
  IN  {p \in WordPages(w) : BitSet(top, p % WordBits)}

AllocFromBitmap ==
  /\ Running
  /\ stack = <<>>
  /\ fallbacks < MaxFallbacks
  /\ \E w \in 0 .. LowWords - 1 :
       /\ lowFree \cap WordPages(w) # {}
       /\ \A v \in 0 .. w - 1 : lowFree \cap WordPages(v) = {}
       /\ Hold({Lowest(lowFree \cap WordPages(w))})
       /\ lowFree' = (lowFree \ WordPages(w)) \cup Bslr(w)
  /\ fallbacks' = fallbacks + 1
  /\ UNCHANGED <<stack, panicked>>

\* bitmap_size counts bytes, the loop words: after an empty bitmap it goes on
\* through the slots of the page stack that lies behind it.  The numbers left
\* there decide which page past the bitmap comes back; each call runs one of
\* them down, and when all are zero the loop ends.  Which page, and after how
\* many calls the loop ends, is left open.
OverrunPages == LowCount .. WordBytes * LowCount - 1
AllocPastBitmap ==
  /\ Running
  /\ stack = <<>>
  /\ lowFree = {}
  /\ fallbacks < MaxFallbacks
  /\ \E p \in OverrunPages \cap Page : Hold({p})
  /\ fallbacks' = fallbacks + 1
  /\ UNCHANGED <<lowFree, stack, panicked>>

AllocExhausted ==
  /\ Running
  /\ stack = <<>>
  /\ lowFree = {}
  /\ panicked' = "alloc_page"
  /\ UNCHANGED <<lowFree, stack, held, fallbacks>>

alloc_page ==
  AllocFromStack \/ AllocFromBitmap \/ AllocPastBitmap \/ AllocExhausted

----------------------------------------------------------------------------
(* free_page: the caller returns a page it holds *)

IsLow_Inclusive(p) == p \in 0 .. LowCount
IsLow(p) == p \in LowPages

FreeLow(p) ==
  /\ IsLow(p)
  /\ lowFree' = lowFree \cup {p}
  /\ Drop({p})
  /\ UNCHANGED <<stack, panicked>>

FreeHigh(p) ==
  /\ ~ IsLow(p)
  /\ stack # <<>>
  /\ stack' = Append(stack, p)
  /\ Drop({p})
  /\ UNCHANGED <<lowFree, panicked>>

\* An empty stack (page_stack < page_stack_base) is taken for a wrong pointer.
FreeRefused(p) ==
  /\ ~ IsLow(p)
  /\ stack = <<>>
  /\ panicked' = "free_page"
  /\ UNCHANGED <<lowFree, stack, held>>

free_page(p) ==
  /\ Running
  /\ held[p] > 0
  /\ FreeLow(p) \/ FreeHigh(p) \/ FreeRefused(p)
  /\ UNCHANGED fallbacks

----------------------------------------------------------------------------
(* alloc_aligned and free_contig *)

Run(start, n) == start .. start + n - 1

\* The starts at which the search would stop.
Fits(n, align) ==
  {s \in LowPages : /\ s % align = 0
                    /\ s + n <= LowCount
                    /\ Run(s, n) \subseteq lowFree}

Unmarked_FirstOnly(start, n) == lowFree \ {start}
Unmarked(start, n) == lowFree \ Run(start, n)

alloc_aligned(n, align) ==
  /\ Running
  /\ IF Fits(n, align) # {}
       THEN LET start == Lowest(Fits(n, align))
            IN  /\ lowFree' = Unmarked(start, n)
                /\ Hold(Run(start, n))
                /\ UNCHANGED panicked
       ELSE /\ panicked' = "alloc_aligned"
            /\ UNCHANGED <<lowFree, held>>
  /\ UNCHANGED <<stack, fallbacks>>

\* The pages whose bits free_contig sets; a block at address 0 is taken for a
\* null pointer and stays marked as used.
Marked_OneShort(start, n) == IF start = 0 THEN {} ELSE Run(start, n - 1)
Marked(start, n) == IF start = 0 THEN {} ELSE Run(start, n)

free_contig(start, n) ==
  /\ Running
  /\ \A p \in Run(start, n) : p \in LowPages /\ held[p] > 0
  /\ lowFree' = lowFree \cup Marked(start, n)
  /\ Drop(Run(start, n))
  /\ UNCHANGED <<stack, fallbacks, panicked>>

----------------------------------------------------------------------------

Init ==
  /\ lowFree = UsableLow
  /\ stack = BootStack
  /\ held = [p \in Page |-> 0]
  /\ fallbacks = 0
  /\ panicked = "no"

Next ==
  \/ alloc_page
  \/ \E p \in Page : free_page(p)
  \/ \E n \in 1 .. MaxRun, align \in 1 .. MaxAlign : alloc_aligned(n, align)
  \/ \E n \in 1 .. MaxRun, start \in LowPages : free_contig(start, n)

Spec == Init /\ [][Next]_vars

----------------------------------------------------------------------------
(* Properties *)

Panics == {"no", "alloc_page", "free_page", "alloc_aligned"}

\* The bitmap names low pages only, the stack high pages only, and no page is
\* freed more often than it was handed out.
TypeOK ==
  /\ lowFree \subseteq LowPages
  /\ stack \in Seq(Page \ LowPages)
  /\ held \in [Page -> Nat]
  /\ fallbacks \in Nat
  /\ panicked \in Panics

FreePages == lowFree \cup {stack[i] : i \in 1 .. Len(stack)}
NoDuplicates(s) == \A i, j \in 1 .. Len(s) : s[i] = s[j] => i = j

\* Through any sequence of single-page and run allocations and frees no page
\* has two owners, and no page that has an owner can be handed out again; it
\* holds as long as alloc_page has not had to fall back on the bitmap.
Exclusive ==
  fallbacks = 0 =>
    /\ \A p \in Page : held[p] <= 1
    /\ \A p \in FreePages : held[p] = 0
    /\ NoDuplicates(stack)

\* No page of the memory map is lost and none is invented: the free pages and
\* the held pages together are exactly the usable ones.
Conserved ==
  fallbacks = 0 =>
    FreePages \cup {p \in Page : held[p] > 0} = Usable

\* The comment at mman.c:255 says that with the stack empty a page is allocated from the
\* bitmap: the page it gives must not already have an owner.
FallbackExclusive == \A p \in LowPages : held[p] <= 1

=============================================================================
