--------------------------------- MODULE Nvme ---------------------------------
(***************************************************************************)
(* kernel/src/nvme.c: nvme_init registers its driver, and                  *)
(* pci_register_driver (pci.c) calls nvme_attach for each device of the    *)
(* class.  A controller answers in its own time: it may be late, fail or   *)
(* never answer, and it reads its queues as soon as it is enabled.         *)
(*                                                                         *)
(* machine.functions[a].ctrl is what the registers of a controller say:    *)
(* whether the firmware left it on, its command sets css, whether it can   *)
(* use pages of the host's size, and to, the time it asks for.             *)
(***************************************************************************)
EXTENDS Clock, Pci

ASSUME NvmeAssumption ==
  \A m \in Machines : \A a \in DOMAIN m.functions : m.functions[a].ctrl.on \in BOOLEAN

VARIABLES
  probe,        \* index in pci_devices of the device that is looked at
  clock,        \* time since the wait began
  hw,           \* the controllers: bits of CC and CSTS, pages of the queues
  nvme_ctrls    \* the list of controllers, its head first

nvmeVars == <<probe, clock, hw, nvme_ctrls>>

nvme_driver == [vendor |-> PCI_ID_ANY, device |-> PCI_ID_ANY, class |-> "nvme"]
Controllers == {a \in DOMAIN machine.functions : machine.functions[a].class = "nvme"}

a0   == pci_devices[probe].addr
ctrl == machine.functions[a0].ctrl
csts == hw[a0]

----------------------------------------------------------------------------
(* The driver *)

\* On to the next device.
Done == probe' = probe + 1 /\ Go("nvme")

\* The registers are mapped and a controller allocated, which may take pages.
nvme_attach ==
  /\ At("nvme") /\ probe <= Len(pci_devices)
  /\ IF /\ pci_devices[probe].driver = NoDriver
        /\ Matches(nvme_driver, machine.functions[a0])
       THEN /\ hw' = [hw EXCEPT ![a0].en = FALSE]
            /\ clock' = 0
            /\ \E k \in 0 .. MaxTables : Take(k)
            /\ Go("disabling")
            /\ UNCHANGED probe
       ELSE Done /\ UNCHANGED <<hw, clock, page_stack, tables>>
  /\ UNCHANGED <<nvme_ctrls, pci_devices>>

\* The loops read the time after the status, and the status is read again
\* behind them.
TimedOut == clock >= ctrl.to

WaitDisabled ==
  /\ At("disabling") /\ (~ csts.rdy \/ TimedOut)
  /\ Go("check_disabled")
  /\ UNCHANGED <<nvmeVars, pci_devices, page_stack, tables>>

Supported == ctrl.css \in {"iocs", "ncss"} /\ ctrl.mps

\* The pages of the queues stay taken when the driver gives up.
nvme_enable ==
  /\ At("check_disabled")
  /\ IF csts.rdy
       THEN Done /\ UNCHANGED <<hw, clock, page_stack>>
       ELSE /\ Pop(2)
            /\ hw' = [hw EXCEPT ![a0].queues = Top(2), ![a0].en = Supported]
            /\ IF Supported
                 THEN clock' = 0 /\ Go("enabling") /\ UNCHANGED probe
                 ELSE Done /\ UNCHANGED clock
  /\ UNCHANGED <<nvme_ctrls, pci_devices, tables>>

WaitEnabled ==
  /\ At("enabling") /\ (csts.rdy \/ csts.cfs \/ TimedOut)
  /\ Go("check_enabled")
  /\ UNCHANGED <<nvmeVars, pci_devices, page_stack, tables>>

AnswerCame_Always == TRUE
AnswerCame == csts.rdy \/ csts.cfs

CheckAnswer ==
  /\ At("check_enabled")
  /\ IF AnswerCame THEN Go("check_failed") /\ UNCHANGED probe ELSE Done
  /\ UNCHANGED <<hw, clock, nvme_ctrls, pci_devices, page_stack, tables>>

nvme_list ==
  /\ At("check_failed")
  /\ IF csts.cfs
       THEN UNCHANGED <<nvme_ctrls, pci_devices>>
       ELSE /\ nvme_ctrls' = <<a0>> \o nvme_ctrls
            /\ pci_devices' = [pci_devices EXCEPT ![probe].driver = "nvme"]
  /\ Done
  /\ UNCHANGED <<hw, clock, page_stack, tables>>

NvmeDone ==
  /\ At("nvme") /\ probe > Len(pci_devices)
  /\ Go("ps2")
  /\ UNCHANGED <<nvmeVars, pci_devices, page_stack, tables>>

NvmeNext ==
  \/ nvme_attach \/ WaitDisabled \/ nvme_enable
  \/ WaitEnabled \/ CheckAnswer \/ nvme_list \/ NvmeDone

----------------------------------------------------------------------------
(* The controllers and the clock, while the driver runs *)

Driving == {"nvme", "disabling", "check_disabled",
            "enabling", "check_enabled", "check_failed"}

ControllerStep(a, before, after) ==
  /\ stage \in Driving /\ before
  /\ hw' = [hw EXCEPT ![a] = after]
  /\ UNCHANGED <<stage, probe, clock, nvme_ctrls, pci_devices, page_stack, tables>>

Controller ==
  \E a \in Controllers :
    LET c == hw[a]
    IN  \/ ControllerStep(a, ~ c.en /\ (c.rdy \/ c.cfs),
                          [c EXCEPT !.rdy = FALSE, !.cfs = FALSE])
        \/ ControllerStep(a, c.en /\ ~ c.rdy /\ ~ c.cfs, [c EXCEPT !.rdy = TRUE])
        \/ ControllerStep(a, c.en /\ ~ c.cfs, [c EXCEPT !.cfs = TRUE])

\* get_utime_default stands still.
Tick ==
  /\ stage \in {"disabling", "enabling"} /\ get_utime = "tsc" /\ ~ TimedOut
  /\ clock' = clock + 1
  /\ UNCHANGED <<stage, probe, hw, nvme_ctrls, pci_devices, page_stack, tables>>

NvmeInit ==
  /\ probe = 1 /\ clock = 0 /\ nvme_ctrls = <<>>
  /\ hw = [a \in Controllers |->
            LET on == machine.functions[a].ctrl.on
            IN  [en |-> on, rdy |-> on, cfs |-> FALSE, queues |-> {}]]

----------------------------------------------------------------------------
(* Properties *)

\* Whenever an answer comes, in time, late or twice, a controller is listed
\* once and only as one that is enabled, has said so and can be used; exactly
\* the listed ones have a driver.
ListedUsable ==
  /\ IsInjective(nvme_ctrls)
  /\ \A a \in Range(nvme_ctrls) :
       /\ hw[a].en /\ hw[a].rdy
       /\ machine.functions[a].ctrl.css \in {"iocs", "ncss"} /\ machine.functions[a].ctrl.mps
  /\ Range(nvme_ctrls)
       = {d.addr : d \in {e \in Range(pci_devices) : e.driver # NoDriver}}

\* From the boot loader's map to the last driver, each page of usable and
\* loader memory has one use: free, on one of the stores and once, reserved for
\* the stores, a page table or another page the kernel keeps, or the queues of
\* one controller.  A table that unmap_page frees is free, and in use no more;
\* the queues of a controller that did not answer, and may still use them, are
\* not.  And the page stack keeps to the pages reserved for it.
Queues == {hw[a].queues : a \in Controllers} \ {{}}
Uses   == {Free, Reserved, tables} \cup Queues
PagesOnce ==
  /\ StackFits
  /\ stage \in {"vmem", "acpi", "rsdp", "pci", "ps2"} \cup Driving =>
      /\ IsInjective(page_stack)
      /\ bitmap \cap Range(page_stack) = {}
      /\ \A U, V \in Uses : U # V => U \cap V = {}
      /\ Cardinality(Queues) = Cardinality({a \in Controllers : hw[a].queues # {}})
      /\ UNION Uses = PagesOf({"usable", "bootloader"})

=============================================================================
