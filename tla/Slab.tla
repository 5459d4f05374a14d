--------------------------------- MODULE Slab ---------------------------------
(***************************************************************************)
(* The slab allocator and kmalloc, kernel/src/slab.c and kmalloc.c.        *)
(*                                                                         *)
(* A slab cuts pages into objects of one size.  Its free objects form a    *)
(* list through their own first words, which the owner of an object        *)
(* overwrites.  The slab descriptors are themselves objects, of the slab   *)
(* global_slab; pageinfo names the slab a page belongs to.                 *)
(*                                                                         *)
(* Only the boot thread allocates: each call is one step.  kmalloc leaves   *)
(* sizes above the largest slab to vmalloc (module Vmem).                  *)
(***************************************************************************)
EXTENDS Integers, Sequences, FiniteSets

CONSTANTS
  PageSize,    \* PAGE_SIZE
  MinSize,     \* 2^SLAB_MIN_ORDER, which holds a pointer
  DescSize,    \* sizeof(slabinfo_t)
  Sizes,       \* the sizes of the kmalloc slabs
  Frames,      \* numbers of the pages alloc_page can return
  MaxSlabs,    \* bound: slabs that clients create besides those of kmalloc
  MaxCalls     \* bound: allocations and frees of clients

Global == -1   \* the descriptor of global_slab, which is not in a page
Null   == -2
Data   == -3   \* a first word that its owner has written

\* A number without an odd divisor besides 1.
PowerOfTwo(n) ==
  n \in Nat \ {0} /\ \A d, e \in 1 .. n : d * e = n => d = 1 \/ d % 2 = 0

ASSUME SlabAssumption ==
  /\ PageSize \in Nat \ {0} /\ MinSize \in Nat \ {0} /\ MaxCalls \in Nat
  /\ PowerOfTwo(PageSize) /\ PowerOfTwo(MinSize) /\ PowerOfTwo(DescSize)
  /\ MinSize <= DescSize /\ DescSize <= PageSize
  /\ Sizes \in Seq(1 .. PageSize \div 2)
  /\ \A i \in 1 .. Len(Sizes) - 1 : Sizes[i] < Sizes[i + 1]
  /\ Frames \subseteq Nat

VARIABLES
  slabs,    \* the slabs: address of the descriptor -> obj_size and free_list
  kmalloc_slabs,
  link,     \* the first word of each object that was ever made
  owner,    \* pageinfo: the slab of a page, of those that have PAGEINFO_SLAB
  free,     \* pages alloc_page has not handed out
  held,     \* the objects clients hold: address -> size asked for
  calls

vars == <<slabs, kmalloc_slabs, link, owner, free, held, calls>>

PageOf(obj) == obj \div PageSize

\* One value of a function, and a function with those of another behind it.
At(x, value) == [y \in {x} |-> value]
Over(f, g) ==
  [x \in DOMAIN f \cup DOMAIN g |-> IF x \in DOMAIN f THEN f[x] ELSE g[x]]

Slab(size) == [obj_size |-> size, free_list |-> Null]

----------------------------------------------------------------------------
(* slab_alloc *)

\* The objects of a fresh page, each linked to the next.
LastOffset_Full(size) == PageSize
LastOffset(size) == PageSize - size

Chain(page, size) ==
  LET base == page * PageSize
  IN  [o \in {base + k * size : k \in 0 .. LastOffset(size) \div size} |->
         IF o = base + LastOffset(size) THEN Null ELSE o + size]

\* A call works on a record m of the memory; m.obj is the object it returns,
\* whose first word its new owner then writes.  Which page alloc_page returns
\* (module PhysMem) makes no difference here.
Refilled(m, s) ==
  LET page == CHOOSE p \in m.free : \A q \in m.free : p <= q
  IN  [slabs |-> [m.slabs EXCEPT ![s].free_list = page * PageSize],
       link  |-> Over(Chain(page, m.slabs[s].obj_size), m.link),
       owner |-> Over(At(page, s), m.owner),
       free  |-> m.free \ {page},
       obj   |-> m.obj]

Taken(m, s) ==
  LET obj == m.slabs[s].free_list
  IN  [m EXCEPT !.slabs[s].free_list = m.link[obj], !.link[obj] = Data,
                !.obj = obj]

slab_alloc(m, s) ==
  Taken(IF m.slabs[s].free_list = Null THEN Refilled(m, s) ELSE m, s)

CanAlloc(s) == slabs[s].free_list # Null \/ free # {}

Now == [slabs |-> slabs, link |-> link, owner |-> owner, free |-> free,
        obj |-> Null]
Become(m) == slabs' = m.slabs /\ link' = m.link /\ owner' = m.owner
             /\ free' = m.free

----------------------------------------------------------------------------
(* slab_create and kmalloc_init *)

RoundedSize_NoMinimum(size) ==
  CHOOSE p \in 1 .. PageSize :
    /\ PowerOfTwo(p) /\ size <= p
    /\ \A q \in 1 .. p - 1 : ~ (PowerOfTwo(q) /\ size <= q)
RoundedSize(size) ==
  CHOOSE p \in MinSize .. PageSize :
    /\ PowerOfTwo(p) /\ size <= p
    /\ \A q \in MinSize .. p - 1 : ~ (PowerOfTwo(q) /\ size <= q)

slab_create(size) ==
  LET m == slab_alloc(Now, Global)
  IN  /\ CanAlloc(Global)
      /\ Become([m EXCEPT !.slabs = Over(At(m.obj, Slab(RoundedSize(size))), @)])
      /\ held' = Over(At(m.obj, DescSize), held)

Initialised == Len(kmalloc_slabs) = Len(Sizes)

kmalloc_init ==
  /\ ~ Initialised
  /\ slab_create(Sizes[Len(kmalloc_slabs) + 1])
  /\ kmalloc_slabs' = Append(kmalloc_slabs, slab_alloc(Now, Global).obj)
  /\ UNCHANGED calls

----------------------------------------------------------------------------
(* Clients *)

Call == Initialised /\ calls < MaxCalls /\ calls' = calls + 1

\* A slab for objects of a size of its own.
Create(size) ==
  /\ Call
  /\ Cardinality(DOMAIN slabs) <= Len(Sizes) + MaxSlabs
  /\ slab_create(size)
  /\ UNCHANGED kmalloc_slabs

Allocate(s, size) ==
  /\ CanAlloc(s)
  /\ Become(slab_alloc(Now, s))
  /\ held' = Over(At(slab_alloc(Now, s).obj, size), held)
  /\ UNCHANGED kmalloc_slabs

\* A client of a slab of its own asks for objects of the slab's size.
AllocateFrom(s) ==
  /\ Call
  /\ s \notin {kmalloc_slabs[i] : i \in 1 .. Len(kmalloc_slabs)}
  /\ Allocate(s, slabs[s].obj_size)

\* The first slab whose objects are large enough.
Suffices_Smaller(i, size) == size <= 2 * Sizes[i]
Suffices(i, size) == size <= Sizes[i]

kmalloc(size) ==
  /\ Call
  /\ \E i \in 1 .. Len(Sizes) :
       /\ Suffices(i, size)
       /\ \A j \in 1 .. i - 1 : ~ Suffices(j, size)
       /\ Allocate(kmalloc_slabs[i], size)

\* The slab that kfree gives the object to: the owner of its page.
Relinked(s, obj) == [link EXCEPT ![obj] = slabs[s].free_list]

kfree(obj) ==
  /\ Call
  /\ obj \in DOMAIN held \ DOMAIN slabs
  /\ LET s == owner[PageOf(obj)]
     IN  /\ link' = Relinked(s, obj)
         /\ slabs' = [slabs EXCEPT ![s].free_list = obj]
  /\ held' = [o \in DOMAIN held \ {obj} |-> held[o]]
  /\ UNCHANGED <<kmalloc_slabs, owner, free>>

----------------------------------------------------------------------------

Init ==
  /\ slabs = [s \in {Global} |-> Slab(DescSize)]
  /\ kmalloc_slabs = <<>>
  /\ link = [o \in {} |-> Null] /\ owner = [p \in {} |-> Global]
  /\ free = Frames
  /\ held = [o \in {} |-> 0]
  /\ calls = 0

Next ==
  \/ kmalloc_init
  \/ \E size \in 1 .. PageSize \div 2 : Create(size) \/ kmalloc(size)
  \/ \E s \in DOMAIN slabs \ {Global} : AllocateFrom(s)
  \/ \E obj \in DOMAIN held : kfree(obj)

Spec == Init /\ [][Next]_vars

----------------------------------------------------------------------------
(* Properties *)

Objects == {p * PageSize + k : p \in Frames, k \in 0 .. PageSize - 1}

\* Lists and links are objects or null, every page with an owner belongs to an
\* existing slab, and the pages handed out are those with an owner.
TypeOK ==
  /\ \A s \in DOMAIN slabs : /\ slabs[s].obj_size \in MinSize .. PageSize
                            /\ slabs[s].free_list \in Objects \cup {Null}
  /\ DOMAIN link \subseteq Objects
  /\ \A o \in DOMAIN link : link[o] \in Objects \cup {Null, Data}
  /\ \A p \in DOMAIN owner : owner[p] \in DOMAIN slabs
  /\ DOMAIN owner = Frames \ free
  /\ DOMAIN held \subseteq Objects

\* The words on the way along the free list of s.
Successor(o) == IF o \in DOMAIN link THEN link[o] ELSE o
ListedIn(s) ==
  LET walk[k \in 0 .. Cardinality(DOMAIN link)] ==
        IF k = 0 THEN slabs[s].free_list ELSE Successor(walk[k - 1])
  IN  {walk[k] : k \in DOMAIN walk} \ {Null}

\* No two allocations overlap, and none is smaller than what was asked for or
\* goes past its page: rounded sizes, chained objects and reused objects agree.
HeldApart ==
  \A o \in DOMAIN held :
    /\ (o % PageSize) + held[o] <= PageSize
    /\ \A other \in DOMAIN held \ {o} :
         o + held[o] <= other \/ other + held[other] <= o

\* The free list of a slab runs to null through objects that nobody holds, in
\* pages of this slab, at multiples of its object size; and each object of its
\* pages is held or in the list: none is lost.
ListsComplete ==
  \A s \in DOMAIN slabs :
    LET size == slabs[s].obj_size
        made == {o \in Objects : /\ PageOf(o) \in DOMAIN owner
                                 /\ owner[PageOf(o)] = s
                                 /\ (o % PageSize) % size = 0}
    IN  ListedIn(s) = made \ DOMAIN held

=============================================================================
