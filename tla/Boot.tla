--------------------------------- MODULE Boot ---------------------------------
(***************************************************************************)
(* kinit of kernel/src/init.c: the parts of the kernel are initialised one *)
(* after the other, each with what the ones before have left, while the    *)
(* timer, the controllers and the keyboard go on by themselves.            *)
(***************************************************************************)
EXTENDS Ps2

vars == <<machine, stage, clockVars, memVars, acpiVars, pciVars, nvmeVars, ps2Vars>>

Init ==
  /\ machine \in Machines /\ stage = "kinit"
  /\ ClockInit /\ MemInit /\ AcpiInit /\ PciInit /\ NvmeInit /\ Ps2Init

\* Without a response of the boot loader to these requests the processor halts.
Required == {"revision", "hhdm", "framebuffer"}

kinit ==
  /\ At("kinit")
  /\ Go(IF Required \subseteq machine.responses THEN "time" ELSE "halted")

MemoryMap ==
  /\ At("memory_map")
  /\ Go(IF "memory_map" \in machine.responses THEN "mman" ELSE "panic")

\* An access to what unmap_page has lost, of the direct map or of the EFI tables,
\* is a page fault that no area covers.  Where the kernel comes to one is left
\* open, as the processor may still have a mapping in its TLB.
LostAccess ==
  /\ \/ lost # {} /\ stage \in {"rsdp", "pci"} \cup Driving \cup Initialising
     \/ At("rsdp") /\ ~ (fw.sys \cup fw.conf) \subseteq pages
  /\ Go("page_fault")

----------------------------------------------------------------------------

Start == (kinit \/ MemoryMap \/ LostAccess)
           /\ UNCHANGED <<clockVars, memVars, acpiVars, pciVars, nvmeVars, ps2Vars>>
Time  == ClockNext /\ UNCHANGED <<memVars, acpiVars, pciVars, nvmeVars, ps2Vars>>
Mman  == MemNext /\ UNCHANGED <<clockVars, acpiVars, pciVars, nvmeVars, ps2Vars>>
ACPI  == AcpiNext /\ UNCHANGED <<clockVars, pciVars, nvmeVars, ps2Vars>>
PCI   == PciNext /\ UNCHANGED <<clockVars, bitmap, place, direct, acpiVars, nvmeVars, ps2Vars>>
NVMeStep(A) ==
  A /\ UNCHANGED <<clockVars, bitmap, place, direct, acpiVars,
                   mmio_bases, buses, frames, groups, ps2Vars>>
Ps2Step(A) ==
  A /\ UNCHANGED <<clockVars, memVars, acpiVars, pciVars, nvmeVars>>

\* What the processor does by itself or at an interrupt of the timer.
Kernel ==
  /\ Start \/ Time \/ Mman \/ ACPI \/ PCI \/ NVMeStep(NvmeNext) \/ Ps2Step(Ps2Next)
  /\ UNCHANGED machine

Devices ==
  /\ NVMeStep(Controller) \/ Ps2Step(Peripherals)
  /\ UNCHANGED machine

TimePasses == NVMeStep(Tick) /\ UNCHANGED machine

Next == Kernel \/ Devices \/ TimePasses

\* The processor goes on, the timer ticks and time passes; nothing is assumed of
\* the devices.
Spec == Init /\ [][Next]_vars /\ WF_vars(Kernel) /\ WF_vars(TimePasses)

----------------------------------------------------------------------------
(* Properties *)

TypeOK ==
  /\ tsc_freq \in Nat /\ get_utime \in {"default", "tsc"} /\ calibrate_state \in 0 .. 1
  /\ bitmap \subseteq 0 .. LowPages - 1 /\ place \in Nat
  /\ \A p \in Range(page_stack) : p >= LowPages
  /\ rsdt \in BOOLEAN
  /\ \A i \in DOMAIN pci_devices :
       pci_devices[i].addr \in Present /\ pci_devices[i].node \in DOMAIN buses
  /\ probe \in Nat \ {0} /\ clock \in Nat
  /\ config \in Byte /\ Len(out) <= 1 /\ keys \in 0 .. MaxKeys

\* Whatever the machine, and although a controller may never answer, the
\* initialisation ends: kmain is called or the kernel has stopped.
BootEnds == <>(stage \in {"kmain", "halted"} \cup Stops)

=============================================================================
