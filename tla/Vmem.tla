-------------------------------- MODULE Vmem --------------------------------
(***************************************************************************)
(* The kernel virtual area, kernel/src/vmem.c, and the demand paging of    *)
(* page_fault_handler (kernel/arch/x86_64/paging.c).                       *)
(*                                                                         *)
(* The allocated areas are a doubly linked list of VMAs ordered by base.   *)
(* Here it is a sequence; a VMA whose prev pointer does not name its       *)
(* predecessor is marked stale.  vma_list never becomes empty: the area of *)
(* the pageinfo structures, made by vmem_init, is never freed, and as its  *)
(* flags are not those of a client no VMA ever merges with it.  The nodes  *)
(* of the list come from a free list, of which only the length matters.    *)
(*                                                                         *)
(* vmalloc and vfree hold vma_lock with the interrupts off, and a fault    *)
(* runs with the interrupts off: each is one step.  Addresses and sizes    *)
(* are counted in pages.  Sizes are integers: a size_t that wraps below    *)
(* zero is read as negative, which leaves every sum base + size as it is.  *)
(***************************************************************************)
EXTENDS Integers, Sequences, FiniteSets

CONSTANTS
  VirtBase, VirtEnd,    \* VMEM_VIRT_BASE, VMEM_VIRT_END
  InfoBase, InfoSize,   \* VMEM_PAGEINFO_BASE, VMEM_PAGEINFO_MAXSIZE
  NodeCount,            \* VMAs in one page: PAGE_SIZE / sizeof(vma_list_t)
  FlagSets,             \* the flags clients allocate with
  InfoFlags,            \* VMA_READ | VMA_WRITE | VMA_ZERO
  MaxPages,             \* bound: pages of one call
  MaxLate               \* bound: calls from the first vfree that cuts off the
                        \* start or the middle of a VMA on

ASSUME LayoutAssumption ==
  /\ VirtBase \in Nat /\ VirtEnd \in Nat /\ InfoBase \in Nat
  /\ VirtBase < VirtEnd /\ VirtEnd <= InfoBase
  /\ InfoSize \in Nat \ {0} /\ NodeCount \in Nat \ {0}
  /\ MaxPages \in Nat /\ MaxLate \in Nat

\* kmalloc, the only client, does not ask for zeroed pages (kmalloc.c:46).
ASSUME FlagsAssumption == InfoFlags \notin FlagSets

VARIABLES
  vma_list,   \* the VMAs in list order
  nfree,      \* nodes on vma_free_list
  owner,      \* the flags of each page its client has allocated and not freed
  mapped,     \* pages of the area that have a page table entry
  stopped,    \* why the kernel came to a stop, or "no"
  late        \* calls since vfree first cut off a start or a middle, 0 before

vars == <<vma_list, nfree, owner, mapped, stopped, late>>

Running == stopped = "no"
Run(addr, n) == addr .. addr + n - 1
Owned == DOMAIN owner

Vma(base, size, flags) ==
  [base |-> base, size |-> size, flags |-> flags, stale |-> FALSE]
End(v) == v.base + v.size
Covers(v, p) == v.base <= p /\ p < End(v)

Give(addr, n, f) ==
  owner' = [p \in Owned \cup Run(addr, n) |->
              IF p \in Run(addr, n) THEN f ELSE owner[p]]
Take(addr, n) == owner' = [p \in Owned \ Run(addr, n) |-> owner[p]]

Before(i)  == SubSeq(vma_list, 1, i - 1)
From(i)    == SubSeq(vma_list, i, Len(vma_list))
Fresh(s)   == IF s = <<>> THEN s ELSE [s EXCEPT ![1].stale = FALSE]
Stale(s)   == IF s = <<>> THEN s ELSE [s EXCEPT ![1].stale = TRUE]

CountLate(cut) ==
  /\ late' = IF late > 0 \/ cut THEN late + 1 ELSE 0
  /\ late' <= MaxLate

Stop(why) == /\ stopped' = why
             /\ UNCHANGED <<vma_list, nfree, owner, mapped>>

----------------------------------------------------------------------------
(* alloc_vma and create_vma *)

\* With no node left alloc_vma calls vmalloc, which waits for the vma_lock its
\* caller holds.  (The next pointer of the last node is never set: it may also
\* lead to whatever the page contained before.)
WithNode(list) ==
  IF nfree > 0
    THEN vma_list' = list /\ nfree' = nfree - 1 /\ UNCHANGED stopped
    ELSE stopped' = "alloc_vma" /\ UNCHANGED <<vma_list, nfree>>

\* The first VMA that does not lie below addr: where create_vma inserts.
Position(addr) ==
  CHOOSE i \in 1 .. Len(vma_list) :
    /\ vma_list[i].base >= addr
    /\ \A j \in 1 .. i - 1 : vma_list[j].base < addr

create_vma(base, size, flags) ==
  LET i == Position(base)
  IN  WithNode(Before(i) \o <<Vma(base, size, flags)>> \o Fresh(From(i)))

----------------------------------------------------------------------------
(* vmalloc *)

\* Only the pageinfo area is allocated.
VmallocFirst(n, f) ==
  /\ Len(vma_list) = 1
  /\ IF VirtBase + n <= vma_list[1].base
       THEN /\ WithNode(<<Vma(VirtBase, n, f)>> \o Fresh(vma_list))
            /\ IF nfree > 0 THEN Give(VirtBase, n, f) ELSE UNCHANGED owner
            /\ UNCHANGED mapped
       ELSE Stop("vmalloc")

\* The room between VMA i and its successor; the search stops at a VMA past
\* the end of the area, not at a gap past it.
HasRoom_Overlap(i, n) == End(vma_list[i]) + n <= vma_list[i + 1].base + 1
HasRoom(i, n) == End(vma_list[i]) + n <= vma_list[i + 1].base

Gaps(n) == {i \in 1 .. Len(vma_list) - 1 :
              /\ End(vma_list[i]) >= VirtBase
              /\ HasRoom(i, n)
              /\ \A j \in 1 .. i - 1 :
                   /\ ~ (End(vma_list[j]) >= VirtBase /\ HasRoom(j, n))
                   /\ ~ (End(vma_list[j]) >= VirtBase
                         /\ vma_list[j].base >= VirtEnd)}

\* free_vma of the right VMA when the two merge.
FreedOnMerge_Leak == 0
FreedOnMerge_Twice == 2
FreedOnMerge == 1

GrowLeft(i, n, f) ==
  LET left   == vma_list[i]
      right  == vma_list[i + 1]
      grown  == left.size + n
      merges == left.base + grown = right.base /\ right.flags = f
  IN  /\ left.flags = f
      /\ IF merges
           THEN /\ vma_list' = Before(i)
                     \o <<[left EXCEPT !.size = grown + right.size]>>
                     \o Fresh(From(i + 2))
                /\ nfree' = nfree + FreedOnMerge
           ELSE /\ vma_list' = [vma_list EXCEPT ![i].size = grown]
                /\ UNCHANGED nfree
      /\ UNCHANGED stopped

MeetsRight(i, n, f) ==
  End(vma_list[i]) + n = vma_list[i + 1].base /\ vma_list[i + 1].flags = f

GrowRight(i, n, f) ==
  /\ vma_list[i].flags # f
  /\ MeetsRight(i, n, f)
  /\ vma_list' = [vma_list EXCEPT ![i + 1].base = End(vma_list[i]),
                                  ![i + 1].size = @ + n]
  /\ UNCHANGED <<nfree, stopped>>

NewInGap(i, n, f) ==
  /\ vma_list[i].flags # f
  /\ ~ MeetsRight(i, n, f)
  /\ create_vma(End(vma_list[i]), n, f)

VmallocGap(n, f) ==
  /\ Len(vma_list) > 1
  /\ \E i \in Gaps(n) :
       /\ GrowLeft(i, n, f) \/ GrowRight(i, n, f) \/ NewInGap(i, n, f)
       /\ IF stopped' = "no" THEN Give(End(vma_list[i]), n, f)
                             ELSE UNCHANGED owner
  /\ UNCHANGED mapped

\* The last VMA is the pageinfo area, which ends past VirtEnd: there is never
\* room at the end.
VmallocExhausted(n) ==
  /\ Len(vma_list) > 1
  /\ Gaps(n) = {}
  /\ Stop("vmalloc")

vmalloc(n, f) ==
  /\ Running
  /\ VmallocFirst(n, f) \/ VmallocGap(n, f) \/ VmallocExhausted(n)
  /\ CountLate(FALSE)

----------------------------------------------------------------------------
(* vfree *)

\* The VMA vfree looks at: the last one in front of the first that starts past
\* addr, or the first one.
FreeIndex(addr) ==
  LET past == {i \in 2 .. Len(vma_list) : vma_list[i].base > addr}
  IN  IF past = {} THEN Len(vma_list)
      ELSE (CHOOSE i \in past : \A j \in past : i <= j) - 1

\* Which part of the VMA v the n pages from addr are.
PartOf(v, addr, n) ==
  IF addr = v.base THEN IF n = v.size THEN "whole" ELSE "start"
                   ELSE IF addr + n = End(v) THEN "end" ELSE "middle"

FreeWhole(i) ==
  IF vma_list[i].stale
    THEN stopped' = "stale prev" /\ UNCHANGED <<vma_list, nfree>>
    ELSE /\ vma_list' = Before(i) \o Fresh(From(i + 1))
         /\ nfree' = nfree + 1
         /\ UNCHANGED stopped

FreeStart(i, n) ==
  /\ vma_list' = [vma_list EXCEPT ![i].base = @ + n]
  /\ UNCHANGED <<nfree, stopped>>

ShrunkSize_OneMore(v, n) == v.size - n - 1
ShrunkSize(v, n) == v.size - n

FreeEnd(i, n) ==
  /\ vma_list' = [vma_list EXCEPT ![i].size = ShrunkSize(vma_list[i], n)]
  /\ UNCHANGED <<nfree, stopped>>

\* The size of the right part is computed from the left one's new size, its
\* flags stay what they were in the recycled node, and its successor's prev
\* pointer keeps naming the left part.
FreeMiddle(i, addr, n) ==
  LET left == [vma_list[i] EXCEPT !.size = addr - vma_list[i].base]
  IN  \E flags \in FlagSets \cup {InfoFlags} :
        WithNode(Before(i)
          \o <<left, Vma(addr + n, End(left) - (addr + n), flags)>>
          \o Stale(From(i + 1)))

\* "Unmap all mapped pages": each turn of the loop unmaps the page at addr.
Unmapped(addr, n) ==
  IF Run(addr, n) \cap mapped # {} THEN mapped \ {addr} ELSE mapped

\* A client frees pages of its own that belong to one VMA.
OneVma(addr, n) ==
  \E i \in 1 .. Len(vma_list) :
    \A p \in Run(addr, n) : Covers(vma_list[i], p)

FreePart(part, i, addr, n) ==
  /\ \/ part = "whole" /\ FreeWhole(i)
     \/ part = "start" /\ FreeStart(i, n)
     \/ part = "end" /\ FreeEnd(i, n)
     \/ part = "middle" /\ FreeMiddle(i, addr, n)
  /\ CountLate(part \in {"start", "middle"})

vfree(addr, n) ==
  LET i == FreeIndex(addr)
      v == vma_list[i]
  IN  /\ Running
      /\ Run(addr, n) \subseteq Owned
      /\ OneVma(addr, n)
      /\ IF v.base <= addr /\ addr + n <= End(v)
           THEN /\ FreePart(PartOf(v, addr, n), i, addr, n)
                /\ IF stopped' = "no"
                     THEN Take(addr, n) /\ mapped' = Unmapped(addr, n)
                     ELSE UNCHANGED <<owner, mapped>>
           ELSE Stop("vfree") /\ CountLate(FALSE)

----------------------------------------------------------------------------

\* A client uses a page of its own: page_fault_handler maps a page if the
\* address lies in some VMA.
page_fault_handler(p) ==
  /\ Running
  /\ p \in Owned \ mapped
  /\ IF \E i \in 1 .. Len(vma_list) : Covers(vma_list[i], p)
       THEN /\ mapped' = mapped \cup {p}
            /\ UNCHANGED <<vma_list, nfree, owner, stopped>>
       ELSE Stop("page fault")
  /\ UNCHANGED late

Init ==
  /\ vma_list = <<Vma(InfoBase, InfoSize, InfoFlags)>>
  /\ nfree = NodeCount - 1
  /\ owner = [p \in {} |-> 0]
  /\ mapped = {}
  /\ stopped = "no"
  /\ late = 0

Pages == VirtBase .. InfoBase - 1

Next ==
  \/ \E n \in 1 .. MaxPages, f \in FlagSets : vmalloc(n, f)
  \/ \E p \in Pages, n \in 1 .. MaxPages : vfree(p, n)
  \/ \E p \in Pages : page_fault_handler(p)

Spec == Init /\ [][Next]_vars

----------------------------------------------------------------------------
(* Properties *)

\* Every VMA has a base and a size, the pageinfo area is among them, and the
\* owned and mapped pages are pages of the area.
TypeOK ==
  /\ vma_list # <<>>
  /\ \A i \in 1 .. Len(vma_list) :
       vma_list[i] \in [base : Nat, size : Int,
                       flags : FlagSets \cup {InfoFlags}, stale : BOOLEAN]
  /\ nfree \in 0 .. NodeCount
  /\ owner \in [Owned -> FlagSets] /\ Owned \subseteq Pages
  /\ mapped \subseteq Pages
  /\ stopped \in {"no", "alloc_vma", "vmalloc", "vfree", "stale prev",
                  "page fault"}

\* The list stays in the order of the addresses and no two VMAs overlap, so
\* that vfree and page_fault_handler find the one VMA of an address; and each
\* prev pointer names the predecessor.  This, and what follows of it, holds
\* until vfree cuts a start or a middle off: from then on the VMA does not
\* cover what is left of it (vmem.c:240 and 249).
ListOrdered == late = 0 =>
  /\ \A i \in 1 .. Len(vma_list) : vma_list[i].size > 0 /\ ~ vma_list[i].stale
  /\ \A i \in 1 .. Len(vma_list) - 1 :
       End(vma_list[i]) <= vma_list[i + 1].base

\* What the list says of the pages below the pageinfo area: which are
\* allocated, and with what flags.
Covered == {p \in Pages : \E i \in 1 .. Len(vma_list) : Covers(vma_list[i], p)}
Allocated ==
  [p \in Covered |->
    vma_list[CHOOSE i \in 1 .. Len(vma_list) :
               /\ Covers(vma_list[i], p)
               /\ \A j \in 1 .. i - 1 : ~ Covers(vma_list[j], p)].flags]

\* Growing, merging, shrinking and deleting VMAs keeps the list equal to what
\* the clients hold: no page of a client loses its VMA or changes its flags,
\* and none that was freed stays allocated.
OwnersCovered == late = 0 => owner = Allocated

\* No node is lost, by whatever calls: each of the page's nodes is in the list or free.
NodesConserved == Len(vma_list) + nfree = NodeCount

\* The list implements the promise of vmem.h: every vmalloc allocates a run of
\* pages of which none was allocated, every vfree frees pages that were.
AS == INSTANCE AddrSpace WITH VirtPages <- Pages, owner <- Allocated
ImplementsAddrSpace == AS!Init /\ [][AS!Next \/ late' > 0]_Allocated

=============================================================================
