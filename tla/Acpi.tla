--------------------------------- MODULE Acpi ---------------------------------
(***************************************************************************)
(* kernel/arch/x86_64/acpi.c: the search for the root table, and           *)
(* acpi_get_table.  The search maps pages of the firmware and unmaps some, *)
(* beside the direct map, whose tables early_map made without counting     *)
(* their entries.  unmap_page (paging.c) therefore frees tables of the     *)
(* direct map, or panics at a counter that is 0.                           *)
(*                                                                         *)
(* machine.fw.rsdps are the entries of the EFI configuration table that    *)
(* have the right GUID, others behind them: the page of each root pointer, *)
(* its revision and whether its two checksums are right.  fw.sys and       *)
(* fw.conf are the pages of the EFI system table and the configuration     *)
(* table, fw.ebda is that of the BIOS's data area.  fw.tables are the      *)
(* tables that the extended root table lists.                              *)
(***************************************************************************)
EXTENDS BootMem

CONSTANT Huge   \* pages in 512 GiB

\* Firmware keeps what it offers out of usable and loader memory; the first
\* 2 MiB of a BIOS machine are not all memory.  None of these pages lies in a
\* large page, then.
Offered(f) ==
  IF f.efi THEN f.sys \cup f.conf \cup {f.rsdps[i].page : i \in DOMAIN f.rsdps} ELSE {0}

ASSUME FirmwareAssumption ==
  /\ Huge \in Nat \ {0} /\ Huge % Big = 0
  /\ \A m \in Machines :
       LET ram == UNION {Span(m.mmap[i]) : i \in
                    {j \in DOMAIN m.mmap : m.mmap[j].type \in {"usable", "bootloader"}}}
       IN  IF m.fw.efi THEN Offered(m.fw) \cap ram = {} ELSE ~ (0 .. Mid - 1) \subseteq ram

VARIABLES
  rsdt,    \* whether the root table was found
  entry,   \* the index in fw.rsdps of the next pointer
  lost,    \* mappings of the direct map whose tables unmap_page has freed
  pages,   \* pages of the firmware that map_page has mapped
  count    \* the counters of the tables on the way to them and of their frames

acpiVars == <<rsdt, entry, lost, pages, count>>

fw == machine.fw

----------------------------------------------------------------------------
(* map_page and unmap_page beside the direct map *)

\* A page lies in one table of each level from 2, the PDPT, to 4; level 5 is its
\* own frame.
Size(level) == CASE level = 2 -> Huge [] level = 3 -> Big [] level = 4 -> Mid [] level = 5 -> 1
Table(p, level) == <<level, p \div Size(level)>>

Within(y, x) == Table(y[2] * Size(y[1]), x[1]) = x

Now == [lost |-> lost, pages |-> pages, count |-> count]
Become(m) == lost' = m.lost /\ pages' = m.pages /\ count' = m.count

\* What is mapped below a table: parts of the direct map and other pages.
Below(m, x) ==
  [direct |-> {d \in direct \ m.lost : d.size <= Size(x[1]) /\ Table(d.at, x[1]) = x},
   pages  |-> {p \in m.pages : Table(p, x[1]) = x}]
Exists(m, x) == Below(m, x).direct # {} \/ Below(m, x).pages # {}

\* A table counts each new entry: a table of the next level or a page, and the
\* frame counts the page.
MapPages(m, S) ==
  LET new(l) == {x \in {Table(p, l) : p \in S} : ~ Exists(m, x)}
  IN  [m EXCEPT !.pages = @ \cup {x[2] : x \in new(5)},
                !.count = [x \in DOMAIN @ |-> @[x] +
                  IF x[1] = 5 THEN Cardinality(new(5) \cap {x})
                              ELSE Cardinality({y \in new(x[1] + 1) : Within(y, x)})]]

\* unmap_page goes up from the frame as long as the counter was 1.  The PML4 has
\* none.
Stop(m, p) == Max({1} \cup {l \in 2 .. 5 : m.count[Table(p, l)] # 1})
Panics(m, p) == Stop(m, p) > 1 /\ m.count[Table(p, Stop(m, p))] = 0
Freed(m, p)  == Cardinality(Stop(m, p) + 1 .. 4)

\* With the topmost table that it frees, all is lost that is mapped below.
UnmapPage(m, p) ==
  LET stop    == Stop(m, p)
      top     == Table(p, stop + 1)
      Gone(x) == x[1] > stop /\ (x = Table(p, 5) \/ (x[1] < 5 /\ Within(x, top)))
  IN  [lost  |-> IF stop = 5 THEN m.lost ELSE m.lost \cup Below(m, top).direct,
       pages |-> IF stop = 5 THEN m.pages ELSE m.pages \ Below(m, top).pages,
       count |-> [x \in DOMAIN m.count |->
                   IF Gone(x) THEN 0
                   ELSE IF x[1] = stop /\ Within(Table(p, 5), x) THEN Larger(m.count[x] - 1, 0)
                   ELSE m.count[x]]]

\* Tables that are made come from the stack, and those that are freed go there.
Exchange(freed) ==
  /\ \E k \in 0 .. MaxTables :
       /\ MayTake(k)
       /\ \E back \in SUBSET (tables \cup Top(k)) :
            /\ Cardinality(back) = freed
            /\ tables' = (tables \cup Top(k)) \ back
            /\ \E q \in SetToSeqs(back) :
                 page_stack' = SubSeq(page_stack, 1, Len(page_stack) - k) \o q
  /\ UNCHANGED <<bitmap, place, direct>>

----------------------------------------------------------------------------
(* acpi_init *)

EfiTables ==
  /\ At("acpi") /\ fw.efi
  /\ Become(MapPages(Now, fw.sys \cup fw.conf)) /\ Exchange(0)
  /\ Go("rsdp")
  /\ UNCHANGED <<rsdt, entry>>

\* A pointer is mapped.  When both checksums are right and the revision is 2 or
\* more, the root table is too, with all that it lists.
RightRsdp(r) ==
  /\ r.sum /\ r.sum2
  /\ Become(MapPages(Now, {r.page})) /\ Exchange(0)
  /\ rsdt' = (r.revision >= 2)
  /\ Go("pci")

\* Otherwise it is unmapped, and the loop reads both EFI tables again.  When one
\* of them lies in the same page, that is a page fault.
WrongRsdp(r) ==
  \E m \in {MapPages(Now, {r.page})} :
      /\ ~ (r.sum /\ r.sum2)
      /\ Become(UnmapPage(m, r.page)) /\ Exchange(Freed(m, r.page))
      /\ Go(IF Panics(m, r.page) THEN "panic"
            ELSE IF r.page \in (fw.sys \cup fw.conf) \ pages' THEN "page_fault" ELSE "rsdp")
      /\ UNCHANGED rsdt

VendorTable ==
  /\ At("rsdp") /\ entry <= Len(fw.rsdps) /\ entry' = entry + 1
  /\ RightRsdp(fw.rsdps[entry]) \/ WrongRsdp(fw.rsdps[entry])

NoRsdp ==
  /\ At("rsdp") /\ entry > Len(fw.rsdps)
  /\ Go("pci")
  /\ UNCHANGED <<acpiVars, memVars>>

\* Page 0 is mapped, the BIOS's data area read, and page 0 unmapped.  That always
\* ends in dec_page's panic, at page 0 itself or at the first table of early_map
\* above it, or with the PDPT freed and the whole direct map lost.  The search
\* of the ROM and what follows it are never reached.
acpi_init_bios ==
  /\ At("acpi") /\ ~ fw.efi
  /\ \E m \in {MapPages(Now, {0})} :
      IF \E d \in direct : fw.ebda \in {0} \cup Extent(d)
           THEN /\ Become(UnmapPage(m, 0)) /\ Exchange(Freed(m, 0))
                /\ Go(IF Panics(m, 0) THEN "panic" ELSE "page_fault")
           ELSE Become(m) /\ Exchange(0) /\ Go("page_fault")
  /\ UNCHANGED <<rsdt, entry>>

\* The table itself or 0: the first with the signature and the right checksum.
FirstOf(found) == IF found = {} THEN 0 ELSE Min(found)
acpi_get_table(sig) ==
  IF ~ rsdt THEN 0
  ELSE FirstOf({i \in DOMAIN fw.tables : fw.tables[i].sig = sig /\ fw.tables[i].sum})

AcpiInit ==
  /\ rsdt = FALSE /\ entry = 1 /\ lost = {} /\ pages = {}
  /\ count = [x \in {Table(p, l) : p \in Offered(fw), l \in 2 .. 5} |-> 0]
AcpiNext == EfiTables \/ VendorTable \/ NoRsdp \/ acpi_init_bios

=============================================================================
