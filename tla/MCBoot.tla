------------------------------- MODULE MCBoot -------------------------------
(***************************************************************************)
(* Boot for TLC: machines that differ from an ordinary one in one part     *)
(* each, so that every path of every part is taken.                        *)
(***************************************************************************)
EXTENDS Boot

Region(type, base, n) == [type |-> type, base |-> base, n |-> n]

Plaincpu == [tsc |-> TRUE, invariant |-> TRUE, eax |-> 2, ebx |-> 6, ecx |-> 2, hz |-> 6]
Cpus ==
  {Plaincpu,
   [Plaincpu EXCEPT !.invariant = FALSE],
   [Plaincpu EXCEPT !.tsc = FALSE],
   [Plaincpu EXCEPT !.ebx = 5],                  \* no bit in common
   [Plaincpu EXCEPT !.ebx = 15, !.ecx = 15, !.hz = 112],     \* the product is cut off
   [Plaincpu EXCEPT !.ebx = 6, !.ecx = 6, !.hz = 18]}

\* Low memory ends at page 4, a large page has 2 pages, a huge one 8.
Plainmmap == <<Region("usable", 0, 2), Region("bootloader", 2, 1),
           Region("usable", 3, 13), Region("bootloader", 16, 3),
           Region("acpi", 19, 1), Region("framebuffer", 25, 3)>>
Maps ==
  {Plainmmap,
   \* Odd borders, a reservation in the second entry.
   <<Region("usable", 1, 4), Region("bootloader", 5, 1), Region("usable", 6, 13),
     Region("bootloader", 19, 3), Region("framebuffer", 22, 2)>>,
   \* Everything above low memory, much of it the loader's.
   <<Region("reserved", 0, 5), Region("usable", 5, 12), Region("acpi", 17, 2),
     Region("bootloader", 19, 7), Region("framebuffer", 26, 4)>>,
   \* No room for the stores; a framebuffer with an unaligned rest.
   <<Region("usable", 0, 6), Region("bootloader", 6, 4), Region("framebuffer", 10, 2)>>,
   <<Region("usable", 0, 14), Region("bootloader", 14, 4), Region("framebuffer", 19, 2)>>}

\* On a BIOS machine not all of the first large page is memory: page 0 is, page 1
\* is, neither is, or nothing below the first huge page.
Above(p) == <<Region("usable", p, 16 - p), Region("bootloader", 16, 3),
              Region("framebuffer", 25, 3)>>
BiosMaps ==
  {<<Region("usable", 0, 1)>> \o Above(2), <<Region("usable", 1, 1)>> \o Above(4),
   Above(2), Above(8)}

Rsdp(page, revision, sum, sum2) ==
  [page |-> page, revision |-> revision, sum |-> sum, sum2 |-> sum2]
Good(page)  == Rsdp(page, 2, TRUE, TRUE)
Wrong(page) == Rsdp(page, 2, TRUE, FALSE)
Mcfg(sum, entries) == [sig |-> "MCFG", sum |-> sum, entries |-> entries]
Facp(i8042) == [sig |-> "FACP", sum |-> TRUE, i8042 |-> i8042]

Plainfw == [efi |-> TRUE, ebda |-> 0, sys |-> {40}, conf |-> {42}, rsdps |-> <<Good(41)>>,
        tables |-> <<Facp(TRUE), Mcfg(TRUE, <<[start |-> 0, end |-> 2]>>)>>]
\* Page 18 has a table of the direct map; the huge page of 16 has one, too.
Besidefw == [Plainfw EXCEPT !.sys = {20}, !.conf = {22}]
Firmwares ==
  {Plainfw,
   [Plainfw EXCEPT !.rsdps = <<>>],
   [Plainfw EXCEPT !.rsdps = <<Rsdp(41, 1, TRUE, TRUE)>>],
   [Plainfw EXCEPT !.tables = <<Mcfg(FALSE, <<>>), Facp(FALSE)>> \o @],
   \* A wrong pointer in a table that is kept, in tables of its own, in the page of
   \* the system table.
   [Plainfw EXCEPT !.rsdps = <<Wrong(43)>> \o @],
   [Plainfw EXCEPT !.rsdps = <<Rsdp(48, 0, FALSE, FALSE)>> \o @],
   [Plainfw EXCEPT !.rsdps = <<Wrong(40)>> \o @],
   \* A wrong pointer beside the direct map: a table of it is lost, the next
   \* counter is 0, or the only one that is not comes to 0 at the PDPT.
   [Besidefw EXCEPT !.rsdps = <<Wrong(19), Good(23)>>],
   [Besidefw EXCEPT !.rsdps = <<Wrong(19), Good(23)>>, !.conf = {20}],
   [Besidefw EXCEPT !.rsdps = <<Wrong(48), Good(23)>>]}
Biosfw(ebda) == [Plainfw EXCEPT !.efi = FALSE, !.ebda = ebda]

Ctrl == [on |-> FALSE, css |-> "iocs", mps |-> TRUE, to |-> 1]
Function(type, multi, secondary, class, c) ==
  [type |-> type, multi |-> multi, secondary |-> secondary, vendor |-> "v",
   device |-> "d", class |-> class, ctrl |-> c]
Disk(c)     == Function("device", FALSE, 0, "nvme", c)
Bridge(bus) == Function("bridge", FALSE, bus, "bridge", Ctrl)
Other(multi) == Function("device", multi, 0, "other", Ctrl)

Plainfunctions == (<<1, 0, 0, 0>> :> Other(FALSE)) @@ (<<1, 0, 1, 0>> :> Disk(Ctrl))
Functions ==
  {Plainfunctions,
   \* Two disks behind a bridge, one left on by the firmware.
   (<<1, 0, 0, 0>> :> Bridge(1)) @@ (<<1, 0, 1, 0>> :> Other(FALSE))
     @@ (<<1, 1, 0, 0>> :> Disk([Ctrl EXCEPT !.on = TRUE]))
     @@ (<<1, 1, 1, 0>> :> Disk([Ctrl EXCEPT !.css = "ncss"])),
   \* A device of several functions one of which is a bridge to another bridge;
   \* functions 1 that do not count.
   (<<1, 0, 0, 0>> :> Other(TRUE)) @@ (<<1, 0, 0, 1>> :> Bridge(1))
     @@ (<<1, 0, 1, 0>> :> Other(FALSE)) @@ (<<1, 0, 1, 1>> :> Other(FALSE))
     @@ (<<1, 1, 0, 0>> :> Bridge(2)) @@ (<<1, 1, 1, 1>> :> Other(FALSE))
     @@ (<<1, 2, 1, 0>> :> Disk([Ctrl EXCEPT !.to = 0])),
   \* A bridge to a bus without a region, disks that cannot be used.
   (<<1, 0, 0, 0>> :> [Bridge(5) EXCEPT !.multi = TRUE])
     @@ (<<1, 0, 0, 1>> :> Disk([Ctrl EXCEPT !.mps = FALSE]))
     @@ (<<1, 0, 1, 0>> :> Disk([Ctrl EXCEPT !.css = "noio"])),
   <<>>}
TwoGroups == [Plainfw EXCEPT !.tables = <<Mcfg(TRUE, <<[start |-> 0, end |-> 0],
                                                   [start |-> 3, end |-> 4]>>)>>]
GroupFunctions ==
  (<<1, 0, 0, 0>> :> Bridge(1)) @@ (<<2, 3, 0, 0>> :> Bridge(4))
    @@ (<<2, 4, 1, 0>> :> Disk(Ctrl)) @@ (<<2, 3, 1, 0>> :> Other(FALSE))

Plainmachine ==
  [responses |-> {"revision", "hhdm", "framebuffer", "memory_map"},
   cpu |-> Plaincpu, mmap |-> Plainmmap, top |-> 18, fw |-> Plainfw,
   functions |-> Plainfunctions, i8042 |-> [config |-> {0, 1, 2, 6}, out |-> <<>>]]

MCMachines ==
  {[Plainmachine EXCEPT !.responses = @ \ {r}] : r \in Plainmachine.responses}
    \cup {[Plainmachine EXCEPT !.cpu = c] : c \in Cpus}
    \cup {[Plainmachine EXCEPT !.mmap = m, !.top = 20] : m \in Maps}
    \cup {[Plainmachine EXCEPT !.fw = f] : f \in Firmwares}
    \cup {[Plainmachine EXCEPT !.fw = Biosfw(e), !.mmap = b] : e \in {0, 2, 50}, b \in BiosMaps}
    \cup {[Plainmachine EXCEPT !.functions = f] : f \in Functions}
    \cup {[Plainmachine EXCEPT !.fw = TwoGroups, !.functions = GroupFunctions]}
    \cup {[Plainmachine EXCEPT !.i8042.out = <<KEY>>]}

=============================================================================
