--------------------------------- MODULE Pci ---------------------------------
(***************************************************************************)
(* kernel/arch/x86_64/pci.c: the recursive enumeration of the buses and    *)
(* the registration of a driver.                                           *)
(*                                                                         *)
(* machine.functions maps the addresses <<group, bus, dev, fun>> of the    *)
(* functions that are there to what their headers say.  The C stack of the *)
(* recursion is frames; a frame is a loop of pci_enumerate_bus, with the   *)
(* loop over the functions of a device inside it.                          *)
(***************************************************************************)
EXTENDS Acpi

CONSTANTS Devs, Funs   \* devices of a bus: 32; functions of a device: 8

ASSUME PciAssumption == Devs \in Nat \ {0} /\ Funs \in Nat \ {0}

\* As firmware numbers them, the buses of a region form a tree: each bus belongs
\* to one segment group, and but for the first has one bridge, in its own region.
Tree(functions, regions) ==
  LET Bus(g) == regions[g].start .. regions[g].end
  IN  /\ regions \in Seq([start : Nat, end : Nat])
      /\ \A g \in DOMAIN regions : regions[g].start <= regions[g].end
      /\ \A g, h \in DOMAIN regions : g # h => Bus(g) \cap Bus(h) = {}
      /\ \A a \in DOMAIN functions, g \in DOMAIN regions :
           /\ a[2] \in Bus(g) => a[1] = g
           /\ functions[a].type = "bridge" /\ functions[a].secondary \in Bus(g) =>
                /\ a[2] \in Bus(g) /\ functions[a].secondary # regions[g].start
                /\ \A b \in DOMAIN functions :
                     functions[b].type = "bridge" /\ functions[b].secondary
                                                      = functions[a].secondary
                     => b = a

ASSUME TreeAssumption ==
  \A m \in Machines :
    /\ DOMAIN m.functions \subseteq Nat \X Nat \X (0 .. Devs - 1) \X (0 .. Funs - 1)
    /\ DOMAIN m.fw.tables \subseteq Nat \ {0}
    /\ \A i \in DOMAIN m.fw.tables :
         m.fw.tables[i].sig = "MCFG" /\ m.fw.tables[i].sum
           => Tree(m.functions, m.fw.tables[i].entries)

VARIABLES
  mmio_bases,    \* the segment group whose region a bus was found in
  pci_devices,   \* the list of all devices, its head first
  buses,         \* the nodes of pci_tree, the root first
  frames,        \* the calls of pci_enumerate_bus, the innermost first
  groups         \* segment groups that are done

pciVars == <<mmio_bases, pci_devices, buses, frames, groups>>

NoDriver == "none"

mcfg == IF acpi_get_table("MCFG") = 0 THEN <<>>
        ELSE fw.tables[acpi_get_table("MCFG")].entries

Frame(group, bus, node) ==
  [group |-> group, bus |-> bus, node |-> node, dev |-> 0, fun |-> 0]

StartGroup ==
  /\ At("pci") /\ frames = <<>> /\ groups < Len(mcfg)
  /\ LET g == mcfg[groups + 1]
     IN  /\ mmio_bases' = [b \in DOMAIN mmio_bases \cup g.start .. g.end |->
                            IF b \in g.start .. g.end THEN groups + 1
                                                      ELSE mmio_bases[b]]
         /\ frames' = <<Frame(groups + 1, g.start, 1)>>
  /\ groups' = groups + 1
  /\ UNCHANGED <<pci_devices, buses, stage, page_stack, tables>>

\* Where the loops of a frame go from a function; only function 0 tells
\* whether there are others.
Onwards(f, multi) ==
  IF (f.fun > 0 \/ multi) /\ f.fun + 1 < Funs THEN [f EXCEPT !.fun = @ + 1]
  ELSE [f EXCEPT !.dev = @ + 1, !.fun = 0]

\* addr stands for the address of its header; the number kept is that of its
\* node, 0 below the root.
Device(addr, node) ==
  [addr |-> addr, node |-> node, bus |-> buses[node].bus, driver |-> NoDriver]

\* The header is mapped and a device allocated, which may take pages.  A bridge
\* to a bus without a region is skipped; any other one becomes a new
\* node, enumerated before the rest of this bus.
Child_Same(f) == f.node
Child(f) == Len(buses) + 1

pci_check_func ==
  /\ At("pci") /\ frames # <<>> /\ Head(frames).dev < Devs
  /\ LET f    == Head(frames)
         addr == <<f.group, f.bus, f.dev, f.fun>>
         h    == machine.functions[addr]
         rest == Tail(frames)
     IN  IF addr \notin DOMAIN machine.functions
           THEN /\ frames' = <<Onwards(f, FALSE)>> \o rest
                /\ UNCHANGED <<pci_devices, buses>>
           ELSE /\ pci_devices' = <<Device(addr, f.node)>> \o pci_devices
                /\ IF h.type = "bridge" /\ h.secondary \in DOMAIN mmio_bases
                     THEN /\ buses' = Append(buses, [bus |-> h.secondary, bridge |-> addr])
                          /\ frames' = <<Frame(mmio_bases[h.secondary], h.secondary, Child(f)),
                                         Onwards(f, h.multi)>> \o rest
                     ELSE /\ frames' = <<Onwards(f, h.multi)>> \o rest
                          /\ UNCHANGED buses
  /\ \E k \in 0 .. MaxTables : Take(k)
  /\ UNCHANGED <<mmio_bases, groups, stage>>

Return ==
  /\ At("pci") /\ frames # <<>> /\ Head(frames).dev = Devs
  /\ frames' = Tail(frames)
  /\ UNCHANGED <<mmio_bases, pci_devices, buses, groups, stage, page_stack, tables>>

PciDone ==
  /\ At("pci") /\ frames = <<>> /\ groups = Len(mcfg)
  /\ \E k \in 0 .. MaxTables : Take(k)   \* the root of the tree
  /\ Go("nvme")
  /\ UNCHANGED pciVars

\* What pci_register_driver compares of a header that has no driver yet.
PCI_ID_ANY == "any"
Matches(driver, h) ==
  /\ driver.vendor \in {PCI_ID_ANY, h.vendor}
  /\ driver.device \in {PCI_ID_ANY, h.device}
  /\ driver.class = h.class

PciInit ==
  /\ mmio_bases = [b \in {} |-> 0] /\ pci_devices = <<>>
  /\ buses = <<[bus |-> 0, bridge |-> <<>>]>> /\ frames = <<>> /\ groups = 0

PciNext == StartGroup \/ pci_check_func \/ Return \/ PciDone

----------------------------------------------------------------------------
(* Properties *)

\* What there is to be found: the buses reached from a start bus over bridges,
\* and on them the functions 0 and, where function 0 says so, the others.
Present == DOMAIN machine.functions
Regions == UNION {g.start .. g.end : g \in Range(mcfg)}
Visible(a) ==
  LET zero == <<a[1], a[2], a[3], 0>>
  IN  zero \in Present /\ (a[4] > 0 => machine.functions[zero].multi)
Closed(B) ==
  /\ \A g \in Range(mcfg) : g.start \in B
  /\ \A a \in Present :
       /\ a[2] \in B /\ Visible(a) /\ machine.functions[a].type = "bridge"
       /\ machine.functions[a].secondary \in Regions
       => machine.functions[a].secondary \in B
Reached == {b \in Regions : \A B \in SUBSET Regions : Closed(B) => b \in B}

\* Each function that can be reached is listed exactly once, over bridges, gaps,
\* devices of several functions and segment groups.
EachFunctionOnce ==
  At("nvme") =>
    \A a \in Present :
      Cardinality({i \in DOMAIN pci_devices : pci_devices[i].addr = a})
        = IF a[2] \in Reached /\ Visible(a) THEN 1 ELSE 0

\* A device has the number of its own bus and hangs below its node, and that
\* below its bridge; those of the start buses of all groups share the root, and
\* its number 0.
BelowItsBus ==
  \A i \in DOMAIN pci_devices :
    LET d == pci_devices[i]
        n == buses[d.node]
    IN  IF n.bridge = <<>>
          THEN d.addr[2] = mcfg[d.addr[1]].start /\ d.bus = 0
          ELSE d.bus = d.addr[2] /\ machine.functions[n.bridge].secondary = d.bus

\* However the recursion goes on after a bridge, pci_init finds every function
\* it can reach, finds it once, and hangs it where it belongs.
TreeFaithful == EachFunctionOnce /\ BelowItsBus

=============================================================================
