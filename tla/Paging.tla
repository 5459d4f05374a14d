-------------------------------- MODULE Paging --------------------------------
(***************************************************************************)
(* The page tables of kernel/arch/x86_64/paging.c: map_page and unmap_page, *)
(* the reference counts by which unmap_page finds out that a table is      *)
(* empty, and the demand paging that uses them.                            *)
(*                                                                         *)
(* A virtual page is the sequence of its four table indices.  map_page and *)
(* unmap_page hold paging_lock with the interrupts off, so each is a step. *)
(* (The counter of a frame may itself have to be paged in, which takes     *)
(* frames from alloc_page but changes no table modelled here.)             *)
(*                                                                         *)
(* Tables come from alloc_page and go back with free_page (module PhysMem). *)
(***************************************************************************)
EXTENDS Integers, FiniteSets

CONSTANTS
  Index,       \* indices of a table: 0 .. 511
  Anonymous,   \* virtual pages that are paged in on demand (vmalloc)
  Device,      \* virtual pages of devices and firmware tables
  Early,       \* virtual pages mapped with early_map, by mman_init and vmem_init
  FrameOf,     \* the frame of each device and early page
  Released,    \* the pages that clients unmap
  Root,        \* the frame of the PML4
  BootFrames   \* the free frames when mman_init sets up the tables

Virtual == Anonymous \cup Device \cup Early
Ram     == {Root} \cup BootFrames
Fixed   == {FrameOf[v] : v \in Device \cup Early}
Frame   == Ram \cup Fixed

ASSUME PagesAssumption ==
  /\ Virtual \subseteq [1 .. 4 -> Index] /\ IsFiniteSet(Index)
  /\ Anonymous \cap Device = {} /\ Early \cap (Anonymous \cup Device) = {}
  /\ Released \subseteq Virtual
  /\ \A u, v \in Device \cup Early : FrameOf[u] = FrameOf[v] => u = v
  /\ Fixed \cap Ram = {} /\ Frame \subseteq Nat
ASSUME FramesAssumption == Root \notin BootFrames /\ IsFiniteSet(BootFrames)

VARIABLES
  entry,     \* entry[t][i]: the frame that entry i of table t names, or Absent
  refcount,  \* pageinfo refcount of each frame
  free,      \* the frames alloc_page can return
  pending,   \* the pages that mman_init and vmem_init have yet to map
  panicked

vars == <<entry, refcount, free, pending, panicked>>

\* An entry without PAGE_PRESENT.
Absent == -1
Empty  == [i \in Index |-> Absent]

\* The memory that a call works on.
Now == [entry |-> entry, refcount |-> refcount, free |-> free]
Become(m) == entry' = m.entry /\ refcount' = m.refcount /\ free' = m.free

\* Which of the free frames alloc_page returns makes no difference here.
FreeFrame(m) == CHOOSE f \in m.free : TRUE
Taken(m) == [m EXCEPT !.free = @ \ {FreeFrame(m)}]

inc_page(m, f) == [m EXCEPT !.refcount[f] = @ + 1]

\* The table at a level, 1 to 4, on the way from the root to the entry of v.
Entry(m, t, i) == IF t = Absent THEN Absent ELSE m.entry[t][i]
Pdpt(m, v) == m.entry[Root][v[1]]
Pd(m, v)   == Entry(m, Pdpt(m, v), v[2])
Pt(m, v)   == Entry(m, Pd(m, v), v[3])
Table(m, v, level) == CASE level = 1 -> Root       [] level = 2 -> Pdpt(m, v)
                        [] level = 3 -> Pd(m, v)   [] level = 4 -> Pt(m, v)

\* What is mapped at v.
Leaf(m, v) == Entry(m, Pt(m, v), v[4])

\* The tables of early_map have counts of map_page's entries only, so that
\* unmap_page can free one that early pages still need.  The model goes on until
\* then: the kernel does not outlive its direct map (see LostAccess of Boot).
Intact  == \A v \in Early \ pending : Leaf(Now, v) = FrameOf[v]
Working == panicked = "no" /\ Intact

----------------------------------------------------------------------------
(* map_page *)

\* A missing table is allocated and cleared.
Linked(m, v, level) ==
  LET new == FreeFrame(m)
  IN  [Taken(m) EXCEPT !.entry[Table(m, v, level)][v[level]] = new,
                       !.entry[new] = Empty]

\* The table that names it counts it, but for the PML4.
Counts(level) == level > 1

WithTable(m, v, level) ==
  LET t == Table(m, v, level)
  IN  IF m.entry[t][v[level]] # Absent THEN m
      ELSE IF Counts(level) THEN inc_page(Linked(m, v, level), t)
      ELSE Linked(m, v, level)

WithTables(m, v) == WithTable(WithTable(WithTable(m, v, 1), v, 2), v, 3)

\* Mapping a page to the frame it has is no second mapping.
AlreadyMapped_Never(old, f) == FALSE
AlreadyMapped(old, f) == old = f

Mapped(m, v, f) ==
  LET n   == WithTables(m, v)
      t   == Table(n, v, 4)
      old == n.entry[t][v[4]]
      set == inc_page([n EXCEPT !.entry[t][v[4]] = f], f)
  IN  IF AlreadyMapped(old, f) THEN n
      ELSE IF old = Absent THEN inc_page(set, t) ELSE set

MissingTables(v) == Cardinality({l \in 2 .. 4 : Table(Now, v, l) = Absent})

\* A device or firmware table is mapped, once or again; it may lie in a page that
\* the direct map has.
map_page(v) ==
  /\ Working /\ pending = {}
  /\ v \in Device \cup Early
  /\ Cardinality(free) >= MissingTables(v)
  /\ Become(Mapped(Now, v, FrameOf[v]))
  /\ UNCHANGED <<pending, panicked>>

\* page_fault_handler maps a frame of its own at the page.
page_fault_handler(v) ==
  /\ Working /\ pending = {}
  /\ v \in Anonymous /\ Leaf(Now, v) = Absent
  /\ Cardinality(free) > MissingTables(v)
  /\ Become(Mapped(Taken(Now), v, FreeFrame(Now)))
  /\ UNCHANGED <<pending, panicked>>

----------------------------------------------------------------------------
(* unmap_page *)

\* unmap_page works upwards through the counters.  It goes on (s.on) while the
\* counter it takes one from was the last, and panics at one that is 0 already.
IsLast_OneEarly(n) == n <= 2
IsLast(n) == n = 1

dec_page(s, f) ==
  IF ~ s.on THEN s
  ELSE IF s.m.refcount[f] = 0 THEN [s EXCEPT !.on = FALSE, !.panic = TRUE]
  ELSE [s EXCEPT !.m.refcount[f] = @ - 1, !.on = IsLast(s.m.refcount[f])]

ClearLeaf(s, v) ==
  IF s.on THEN [s EXCEPT !.m.entry[Table(s.m, v, 4)][v[4]] = Absent] ELSE s

Unlinked_Not(m, v, level) == m
Unlinked(m, v, level) ==
  [m EXCEPT !.entry[Table(m, v, level - 1)][v[level - 1]] = Absent]

\* The table at this level has lost an entry: with its last one it is freed and
\* its own entry in the table above cleared.
FreeTable(s, v, level) ==
  LET t == Table(s.m, v, level)
      d == dec_page(s, t)
  IN  IF d.on THEN [d EXCEPT !.m = [Unlinked(d.m, v, level) EXCEPT
                                      !.free = @ \cup {t}, !.entry[t] = Empty]]
              ELSE d

Unmapped(v) ==
  LET start == [m |-> Now, on |-> TRUE, panic |-> FALSE]
      leaf  == ClearLeaf(dec_page(start, Leaf(Now, v)), v)
  IN  FreeTable(FreeTable(FreeTable(leaf, v, 4), v, 3), v, 2)

unmap_page(v) ==
  /\ Working /\ pending = {}
  /\ v \in Released
  /\ Leaf(Now, v) # Absent
  /\ Become(Unmapped(v).m)
  /\ panicked' = IF Unmapped(v).panic THEN "dec_page" ELSE "no"
  /\ UNCHANGED pending

----------------------------------------------------------------------------
(* early_map *)

\* It makes the tables it needs and counts nothing.
EarlyTable(m, v, level) ==
  IF m.entry[Table(m, v, level)][v[level]] # Absent THEN m ELSE Linked(m, v, level)

EarlyMapped(m, v, f) ==
  LET n == EarlyTable(EarlyTable(EarlyTable(m, v, 1), v, 2), v, 3)
  IN  [n EXCEPT !.entry[Table(n, v, 4)][v[4]] = f]

\* The pages are mapped before the first call of map_page.
early_map(v) ==
  /\ Working
  /\ v \in pending /\ pending' = pending \ {v}
  /\ Cardinality(free) >= MissingTables(v)
  /\ Become(EarlyMapped(Now, v, FrameOf[v]))
  /\ UNCHANGED panicked

----------------------------------------------------------------------------

Init ==
  /\ entry = [t \in Ram |-> Empty]
  /\ refcount = [f \in Frame |-> 0]
  /\ free = BootFrames
  /\ pending = Early
  /\ panicked = "no"

Next ==
  \/ \E v \in Early : early_map(v)
  \/ \E v \in Device \cup Early : map_page(v)
  \/ \E v \in Anonymous : page_fault_handler(v)
  \/ \E v \in Released : unmap_page(v)

Spec == Init /\ [][Next]_vars

----------------------------------------------------------------------------
(* Properties *)

Present(t)  == {i \in Index : entry[t][i] # Absent}
TablesOf(S) ==
  (UNION {{Pdpt(Now, v), Pd(Now, v), Pt(Now, v)} : v \in S}) \ {Absent}
MappedPages == {v \in Virtual : Leaf(Now, v) # Absent}

\* Through any sequence of faults, maps and unmaps the counter of a table says
\* how many entries map_page has made in it, which but for early_map's tables are
\* all its entries, and that of a frame at how many pages it is mapped:
\* unmap_page relies on it to free a table no sooner and no later than it is
\* empty.
MadeEarly   == TablesOf(Early) \cup {FrameOf[v] : v \in Early}
CountsExact == Working =>
  /\ \A t \in TablesOf(Virtual) :
        refcount[t] = Cardinality({i \in Present(t) : entry[t][i] \notin MadeEarly})
  /\ \A v \in MappedPages \ Early : refcount[Leaf(Now, v)] = 1

\* No table is named by two entries, none that is in use is free for another
\* use, and none is kept when it has become empty.
TablesInUse == Working =>
  LET tables == TablesOf(Virtual)
      links  == {l \in (tables \cup {Root}) \X Index : entry[l[1]][l[2]] \in tables}
  IN  /\ Cardinality(links) = Cardinality(tables)
      /\ \A t \in tables : t \notin free /\ Present(t) # {}

\* map_page and unmap_page change the mapping of the page they name and of no
\* other, whatever tables they make and free.
map == [v \in MappedPages \ Early |-> Leaf(Now, v)]
AM  == INSTANCE AddressMap WITH VirtualPages <- Virtual, Frames <- Frame
ImplementsAddressMap == AM!Init /\ [][AM!Next \/ ~ Working']_map

=============================================================================
