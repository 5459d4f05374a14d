------------------------------ MODULE BootProofs ------------------------------
(***************************************************************************)
(* Proofs about Boot, for every machine and every bound.                   *)
(***************************************************************************)
EXTENDS Boot, CommonLemmas, FiniteSetTheorems

----------------------------------------------------------------------------
(* What the steps of the parts have in common *)

\* The stages of the other parts of the initialisation, or past it.
Later(s) == s \notin Calibrating
Stays == stage' = stage \/ (Later(stage) /\ Later(stage'))

LEMMA MemStays == MemNext => Stays
  BY DEF MemNext, BuildStores, MapMemory, Reclaim, vmem_init, At, Go, Stays, Later, Calibrating

\* The search for the root table goes on or ends; pages may change hands.
LEMMA AcpiSteps ==
  AcpiNext =>
    /\ stage \in {"acpi", "rsdp"} /\ stage' \in {"rsdp", "pci", "panic", "page_fault"}
    /\ rsdt' = rsdt \/ rsdt' \in BOOLEAN
    /\ UNCHANGED memVars \/ \E freed : Exchange(freed)
  <1>1. EfiTables \/ NoRsdp =>
          /\ stage \in {"acpi", "rsdp"} /\ stage' \in {"rsdp", "pci"} /\ rsdt' = rsdt
          /\ UNCHANGED memVars \/ \E freed : Exchange(freed)
    BY DEF EfiTables, NoRsdp, At, Go, acpiVars
  <1>2. VendorTable =>
          /\ stage = "rsdp" /\ stage' \in {"rsdp", "pci", "panic", "page_fault"}
          /\ rsdt' = rsdt \/ rsdt' \in BOOLEAN
          /\ \E freed : Exchange(freed)
    <2>1. ASSUME NEW r, RightRsdp(r)
          PROVE  stage' = "pci" /\ rsdt' \in BOOLEAN /\ \E freed : Exchange(freed)
      <3>1. rsdt' = (r.revision >= 2)
        BY <2>1 DEF RightRsdp
      <3>2. (r.revision >= 2) \in BOOLEAN
        OBVIOUS
      <3> QED
        BY <2>1, <3>1, <3>2 DEF RightRsdp, Go
    <2>2. ASSUME NEW r, WrongRsdp(r)
          PROVE  /\ stage' \in {"panic", "page_fault", "rsdp"} /\ rsdt' = rsdt
                 /\ \E freed : Exchange(freed)
      BY <2>2 DEF WrongRsdp, Go
    <2> QED
      BY <2>1, <2>2 DEF VendorTable, At
  <1>3. acpi_init_bios =>
          /\ stage = "acpi" /\ stage' \in {"panic", "page_fault"} /\ rsdt' = rsdt
          /\ \E freed : Exchange(freed)
    BY DEF acpi_init_bios, At, Go
  <1> QED
    BY <1>1, <1>2, <1>3 DEF AcpiNext

LEMMA AcpiStays == AcpiNext => Stays
  BY AcpiSteps DEF Stays, Later, Calibrating

LEMMA PciStays == PciNext => Stays
  BY DEF PciNext, StartGroup, pci_check_func, Return, PciDone, At, Go, Stays, Later,
         Calibrating

LEMMA NvmeStays == NvmeNext \/ Controller \/ Tick => Stays
  <1>1. NvmeNext => Stays
    BY DEF NvmeNext, nvme_attach, WaitDisabled, nvme_enable, WaitEnabled, CheckAnswer,
           nvme_list, NvmeDone, Done, At, Go, Stays, Later, Calibrating
  <1>2. Controller \/ Tick => Stays
    BY DEF Controller, ControllerStep, Tick, Stays
  <1> QED
    BY <1>1, <1>2

LEMMA Ps2Stays == Ps2Next \/ Peripherals => Stays
  <1>1. Ps2Next => Stays
    BY DEF Ps2Next, ps2_init, ResetKeyboard, ReadFirst, ReadSecond,
           ps2_register_kbd_isr, ReadConfig, At, Go, Stays, Later, Calibrating
  <1>2. Peripherals => Stays
    BY DEF Peripherals, KbdInterrupt, Reply, KbdByte, KeyPress, Arrive, Stays
  <1> QED
    BY <1>1, <1>2

\* The machine is the same all the time.
LEMMA MachineInit == Init => machine \in Machines
  BY DEF Init

LEMMA MachineNext == [Next]_vars => UNCHANGED machine
  BY DEF Next, Kernel, Devices, TimePasses, vars

----------------------------------------------------------------------------
(* The clock *)

RightClock == tsc_freq = cpu.hz /\ get_utime = "tsc"

\* Every tick, stray or not, ends or starts a measurement: the parity of the
\* strays tells where the handler is.
ClockInv ==
  /\ machine \in Machines /\ strays \in Nat
  /\ stage \in {"kinit", "halted", "time"} => strays = 0 /\ calibrate_state = 0
  /\ stage \in {"hlt_1", "halted_1", "mask_timer"} => calibrate_state = strays % 2
  /\ stage \in {"hlt_2", "halted_2"} => calibrate_state = (strays + 1) % 2
  /\ stage \in {"hlt_2", "halted_2", "mask_timer"} /\ calibrate_state = 0 => RightClock
  /\ ClockRight

LEMMA ClockInvInit == Init => ClockInv
  BY DEF Init, ClockInit, ClockInv, ClockRight, Calibrating

\* Steps of the other parts leave the clock alone.
LEMMA ClockKept ==
  ASSUME ClockInv, Stays, UNCHANGED <<machine, clockVars>>
  PROVE  ClockInv'
  BY DEF ClockInv, Stays, Later, ClockRight, RightClock, clockVars, cpu, Calibrating

\* CPUID tells the frequency, unless it is cut off.
LEMMA TimeInitStep ==
  ASSUME ClockInv, time_init, UNCHANGED machine
  PROVE  ClockInv'
  <1>1. machine \in Machines /\ strays = 0 /\ calibrate_state = 0
    BY DEF ClockInv, time_init, At
  <1>4. CASE ~ cpu.tsc
    <2>1. stage' = "panic" /\ cpu' = cpu /\ strays' = 0
      BY <1>1, <1>4 DEF time_init, Go, cpu
    <2> QED
      BY <1>1, <1>4, <2>1 DEF ClockInv, ClockRight
  <1>2. CASE cpu.tsc /\ FrequencyKnown
    <2> DEFINE x == cpu.ecx * cpu.ebx
               N == 2^RegBits
    <2>1. /\ tsc_freq' = CpuidFrequency /\ get_utime' = "tsc" /\ strays' = 0
          /\ stage' \in {"panic", "memory_map"}
      BY <1>1, <1>2 DEF time_init, Go
    <2>2. /\ cpu.ecx \in Nat /\ cpu.ebx \in Nat
      BY <1>1, ClockAssumption DEF cpu
    <2>3. x \in Nat /\ N \in Int
      BY <2>2, ClockAssumption
    <2>4. cpu.hz = x \div cpu.eax
      BY <1>1, <1>2, CpuidAssumption DEF cpu, FrequencyKnown
    <2>5. CpuidFrequency = (x % N) \div cpu.eax
      BY DEF CpuidFrequency
    <2>6. ASSUME x < N PROVE tsc_freq' = cpu.hz
      <3> HIDE DEF x, N
      <3>1. x % N = x
        BY <2>3, <2>6
      <3> QED
        BY <2>1, <2>4, <2>5, <3>1
    <2>7. cpu' = cpu
      BY DEF cpu
    <2>8. ClockRight'
      BY <2>1, <2>6, <2>7 DEF ClockRight
    <2> QED
      BY <1>1, <2>1, <2>8 DEF ClockInv
  <1>3. CASE cpu.tsc /\ ~ FrequencyKnown
    <2>1. stage' = "hlt_1" /\ UNCHANGED clockVars
      BY <1>3 DEF time_init, Go, clockVars
    <2>2. 0 % 2 = 0
      OBVIOUS
    <2> QED
      BY <1>1, <2>1, <2>2 DEF clockVars, ClockInv, ClockRight, Calibrating
  <1> QED
    BY <1>2, <1>3, <1>4

LEMMA Parity ==
  \A n \in Nat : n % 2 \in {0, 1} /\ (n + 1) % 2 = 1 - (n % 2) /\ n + 1 \in Nat
  OBVIOUS

\* A tick counts as a measurement begun or ended.
LEMMA TickStep ==
  ASSUME ClockInv, TimerInterrupt, UNCHANGED machine
  PROVE  ClockInv'
  <1>1. machine \in Machines /\ strays \in Nat /\ cpu' = cpu
    BY DEF ClockInv, cpu
  <1> DEFINE b == strays % 2
  <1>9. /\ b \in {0, 1} /\ (strays + 1) % 2 = 1 - b /\ (strays + 1 + 1) % 2 = b
        /\ strays + 1 \in Nat
    BY <1>1, Parity
  <1> HIDE DEF b
  <1>2. \/ calibrate_state = 0 /\ calibrate_state' = 1
        \/ calibrate_state # 0 /\ calibrate_state' = 0 /\ RightClock'
    BY <1>1 DEF TimerInterrupt, calibrate_tsc, RightClock
  <1>3. CASE At("halted_1") /\ Go(AfterFirstHlt) /\ UNCHANGED strays
    <2>1. stage = "halted_1" /\ stage' = "hlt_2" /\ strays' = strays
      BY <1>3 DEF At, Go, AfterFirstHlt
    <2>2. calibrate_state = b
      BY <1>9, <2>1 DEF ClockInv, b
    <2>3. calibrate_state' = (strays' + 1) % 2
      BY <1>1, <1>2, <1>9, <2>1, <2>2 DEF b
    <2> QED
      BY <1>1, <1>2, <2>1, <2>3 DEF RightClock, ClockInv, ClockRight, Calibrating
  <1>4. CASE At("halted_2") /\ Go("mask_timer") /\ UNCHANGED strays
    <2>1. stage = "halted_2" /\ stage' = "mask_timer" /\ strays' = strays
      BY <1>4 DEF At, Go
    <2>2. calibrate_state = (strays + 1) % 2
      BY <1>9, <2>1 DEF ClockInv, b
    <2>3. calibrate_state' = strays' % 2
      BY <1>1, <1>2, <1>9, <2>1, <2>2 DEF b
    <2> QED
      BY <1>1, <1>2, <2>1, <2>3 DEF RightClock, ClockInv, ClockRight, Calibrating
  <1>5. CASE /\ stage \in {"hlt_1", "hlt_2", "mask_timer"} /\ strays' = strays + 1
             /\ UNCHANGED stage
    <2>1. calibrate_state = b => calibrate_state' = strays' % 2
      BY <1>1, <1>2, <1>5, <1>9 DEF b
    <2>2. calibrate_state = 1 - b => calibrate_state' = (strays' + 1) % 2
      BY <1>1, <1>2, <1>5, <1>9 DEF b
    <2> QED
      BY <1>1, <1>2, <1>5, <1>9, <2>1, <2>2
         DEF b, ClockInv, ClockRight, RightClock, Calibrating
  <1> QED
    BY <1>3, <1>4, <1>5 DEF TimerInterrupt

LEMMA ClockInvNext == ClockInv /\ [Next]_vars => ClockInv'
  <1> SUFFICES ASSUME ClockInv, [Next]_vars PROVE ClockInv'
    OBVIOUS
  <1>1. UNCHANGED machine
    BY MachineNext
  <1>2. CASE ClockNext
    <2>1. CASE time_init
      BY <1>1, <2>1, TimeInitStep
    <2>2. CASE hlt
      <3>1. /\ UNCHANGED clockVars
            /\ \/ stage = "hlt_1" /\ stage' = "halted_1"
               \/ stage = "hlt_2" /\ stage' = "halted_2"
        BY <2>2 DEF hlt, At, Go
      <3> QED
        BY <1>1, <3>1 DEF ClockInv, clockVars, ClockRight, RightClock, cpu, Calibrating
    <2>3. CASE MaskTimer
      <3>1. /\ UNCHANGED clockVars /\ stage = "mask_timer" /\ stage' = "memory_map"
        BY <2>3 DEF MaskTimer, At, Go
      <3>2. strays % 2 = 0 => RightClock
        BY <3>1 DEF ClockInv
      <3> QED
        BY <1>1, <3>1, <3>2 DEF ClockInv, clockVars, ClockRight, RightClock, cpu
    <2>4. CASE TimerInterrupt
      BY <1>1, <2>4, TickStep
    <2> QED
      BY <1>2, <2>1, <2>2, <2>3, <2>4 DEF ClockNext
  <1>3. CASE Start
    <2>1. /\ UNCHANGED clockVars
          /\ \/ stage = "kinit" /\ stage' \in {"time", "halted"}
             \/ stage = "memory_map" /\ stage' \in {"mman", "panic"}
             \/ Later(stage) /\ stage' = "page_fault"
      BY <1>3 DEF Start, kinit, MemoryMap, LostAccess, At, Go, Later, Calibrating,
                  Driving, Initialising
    <2>2. CASE Later(stage) /\ stage' = "page_fault"
      BY <1>1, <2>1, <2>2, ClockKept DEF Stays, Later, Calibrating
    <2> QED
      BY <1>1, <2>1, <2>2 DEF ClockInv, clockVars, ClockRight, RightClock, cpu, Calibrating
  <1>4. CASE Mman \/ ACPI \/ PCI
    BY <1>1, <1>4, MemStays, AcpiStays, PciStays, ClockKept DEF Mman, ACPI, PCI
  <1>5. CASE NVMeStep(NvmeNext) \/ NVMeStep(Controller) \/ TimePasses
    BY <1>1, <1>5, NvmeStays, ClockKept DEF NVMeStep, TimePasses
  <1>6. CASE Ps2Step(Ps2Next) \/ Ps2Step(Peripherals)
    BY <1>1, <1>6, Ps2Stays, ClockKept DEF Ps2Step
  <1>7. CASE UNCHANGED vars
    BY <1>1, <1>7, ClockKept DEF vars, Stays
  <1>8. CASE Time
    BY <1>2, <1>8 DEF Time
  <1> QED
    BY <1>3, <1>4, <1>5, <1>6, <1>7, <1>8 DEF Next, Kernel, Devices

\* Whatever the processor reports and however many ticks fall between the two
\* hlt, the clock counts in Hz behind time_init, with the two exceptions that
\* ClockRight names.
THEOREM ClockIsRight == Spec => []ClockRight
  <1>1. ClockInv => ClockRight
    BY DEF ClockInv
  <1> QED
    BY ClockInvInit, ClockInvNext, <1>1, PTL DEF Spec

----------------------------------------------------------------------------
(* The keyboard controller *)

\* The stages before the controller is touched, or of a kernel that has stopped
\* before.
Before(s) == s \notin Initialising \cup {"kmain", "page_fault"}
Waits == \/ stage' = stage \/ stage' = "page_fault"
         \/ Before(stage) /\ Before(stage')

LEMMA OthersWait ==
  Start \/ Time \/ Mman \/ ACPI \/ PCI \/ NVMeStep(NvmeNext \/ Controller \/ Tick)
    => Waits /\ UNCHANGED ps2Vars
  <1>1. Start => Waits /\ UNCHANGED ps2Vars
    BY DEF Start, kinit, MemoryMap, LostAccess, At, Go, Waits, Before, Initialising
  <1>2. Time => Waits /\ UNCHANGED ps2Vars
    BY DEF Time, ClockNext, time_init, hlt, MaskTimer, TimerInterrupt, AfterFirstHlt,
           At, Go, Waits, Before, Initialising
  <1>3. Mman => Waits /\ UNCHANGED ps2Vars
    BY DEF Mman, MemNext, BuildStores, MapMemory, Reclaim, vmem_init, At, Go, Waits,
           Before, Initialising
  <1>4. ACPI => Waits /\ UNCHANGED ps2Vars
    BY AcpiSteps DEF ACPI, Waits, Before, Initialising
  <1>5. PCI => Waits /\ UNCHANGED ps2Vars
    BY DEF PCI, PciNext, StartGroup, pci_check_func, Return, PciDone, At, Go, Waits,
           Before, Initialising
  <1>6. NvmeNext => Waits
    BY DEF NvmeNext, nvme_attach, WaitDisabled, nvme_enable, WaitEnabled, CheckAnswer,
           nvme_list, NvmeDone, Done, At, Go, Waits, Before, Initialising
  <1>7. Controller \/ Tick => Waits
    BY DEF Controller, ControllerStep, Tick, Waits
  <1>8. NVMeStep(NvmeNext \/ Controller \/ Tick) => Waits /\ UNCHANGED ps2Vars
    BY <1>6, <1>7 DEF NVMeStep
  <1> QED
    BY <1>1, <1>2, <1>3, <1>4, <1>5, <1>8

\* A buffer with at most one byte, and that without the bits B.
Lacks(q, B) == q = <<>> \/ \E c : q = <<c>> /\ c \cap B = {}

\* What a keyboard sends after a reset, if it is not disturbed.
Answers == {<<ACK, PASS>>, <<PASS, ACK>>}

\* The answer to the reset is complete, behind at most one late answer of the
\* controller; or its first byte is in the buffer.
ResetPending ==
  \/ kbdq \in {<<>>} \cup Answers /\ Lacks(out, {3})
  \/ \E x, y : <<x, y>> \in Answers /\ out = <<x>> /\ kbdq = <<y>>

\* The second byte is still to come, or in the buffer.
SecondPending ==
  \E y : /\ <<first, y>> \in Answers
         /\ \/ out = <<>> /\ kbdq = <<y>>
            \/ out = <<y>> /\ kbdq = <<>>

Registering == {"register_1", "config_1", "register_2", "config_2"}

\* What holds while no key is pressed.
Undisturbed ==
  /\ stage = "read_config" => kbdq = <<>> /\ Lacks(out, {3}) /\ Lacks(reply, {3})
  /\ stage = "first" => reply = <<>> /\ ResetPending
  /\ stage = "second" /\ first \in {ACK, PASS} => reply = <<>> /\ SecondPending
  /\ stage \in Registering =>
       /\ kbdq = <<>> /\ {PORT1_OFF, TRANSLATE} \cap config = {}
       /\ Lacks(out, {PORT1_OFF, TRANSLATE}) /\ Lacks(reply, {PORT1_OFF, TRANSLATE})
  /\ stage = "kmain" /\ keyboard =>
       IRQ1 \in config /\ {PORT1_OFF, TRANSLATE} \cap config = {}

KbdInv ==
  /\ machine \in Machines /\ keys \in Nat
  /\ Before(stage) => /\ config = machine.i8042.config /\ kbdq = <<>> /\ keys = 0
                      /\ reply = <<>>
  /\ Before(stage) \/ stage \in {"read_config", "first", "second"} => keyboard = FALSE
  /\ stage \in {"first", "second", "register_1"} =>
       {IRQ1, PORT1_OFF, TRANSLATE} \cap config = {}
  /\ stage \in Registering \ {"register_1"} => kbd_handler # "none"
  /\ keys = 0 => Undisturbed

LEMMA KbdInvInit == Init => KbdInv
  <1> SUFFICES ASSUME Init PROVE KbdInv
    OBVIOUS
  <1>1. /\ machine \in Machines /\ stage = "kinit" /\ config = machine.i8042.config
        /\ kbdq = <<>> /\ keys = 0 /\ reply = <<>> /\ keyboard = FALSE
    BY DEF Init, Ps2Init
  <1> QED
    BY <1>1 DEF KbdInv, Before, Initialising, Undisturbed, Registering

\* Steps of the other parts leave the controller alone.
LEMMA KbdKept ==
  ASSUME KbdInv, Waits, UNCHANGED <<machine, ps2Vars>>
  PROVE  KbdInv'
  <1>1. CASE stage' = stage
    BY <1>1 DEF KbdInv, Before, Undisturbed, ResetPending, SecondPending, ps2Vars
  <1>2. CASE Before(stage) /\ Before(stage')
    BY <1>2 DEF KbdInv, Before, Undisturbed, Initialising, Registering, ps2Vars
  <1>3. CASE stage' = "page_fault"
    BY <1>3 DEF KbdInv, Before, Undisturbed, Initialising, Registering, ps2Vars
  <1> QED
    BY <1>1, <1>2, <1>3 DEF Waits

\* The bytes are different.
LEMMA Bytes ==
  /\ ACK # PASS /\ ACK # FF /\ PASS # FF
  /\ 3 \in ACK /\ 3 \in PASS
  <1>1. 4 \in ACK /\ 4 \notin PASS /\ 3 \in ACK /\ 3 \in PASS
    BY DEF ACK, PASS
  <1>2. 0 \in FF /\ 0 \notin ACK /\ 0 \notin PASS
    BY DEF FF, ACK, PASS
  <1> QED
    BY <1>1, <1>2

LEMMA Ps2InitStep ==
  ASSUME KbdInv, ps2_init, UNCHANGED machine
  PROVE  KbdInv'
  <1>1. /\ stage = "ps2" /\ machine \in Machines /\ keys = 0 /\ kbdq = <<>>
        /\ keyboard = FALSE /\ config = machine.i8042.config
    BY DEF KbdInv, ps2_init, At, Before, Initialising
  <1>2. CASE Go("kmain") /\ UNCHANGED ps2Vars
    BY <1>1, <1>2 DEF KbdInv, Go, ps2Vars, Before, Undisturbed, Initialising, Registering
  <1>3. CASE /\ config' = config \cup {PORT1_OFF, PORT2_OFF}
             /\ out' = <<>>
             /\ reply' = <<config'>>
             /\ Go("read_config")
             /\ UNCHANGED <<kbdq, first, kbd_handler, keys, keyboard>>
    <2>1. 3 \notin config'
      BY <1>1, <1>3, Ps2Assumption DEF PORT1_OFF, PORT2_OFF
    <2>2. Lacks(out', {3}) /\ Lacks(reply', {3})
      BY <1>3, <2>1 DEF Lacks
    <2>3. stage' = "read_config"
      BY <1>3 DEF Go
    <2> QED
      BY <1>1, <1>3, <2>2, <2>3
         DEF KbdInv, Before, Undisturbed, Initialising, Registering
  <1> QED
    BY <1>2, <1>3 DEF ps2_init

\* What was in the buffer is read; an answer the controller has ready follows.
LEMMA BufferReadLemma ==
  ASSUME NEW B, Lacks(out, B), Lacks(reply, B), BufferRead
  PROVE  Lacks(out', B) /\ reply' = <<>>
  <1>1. CASE reply = <<>>
    BY <1>1 DEF BufferRead, Lacks
  <1>2. CASE reply # <<>>
    BY <1>2 DEF BufferRead, Lacks
  <1> QED
    BY <1>1, <1>2

LEMMA ResetStep ==
  ASSUME KbdInv, ResetKeyboard, UNCHANGED machine
  PROVE  KbdInv'
  <1>1. /\ stage = "read_config" /\ stage' = "first"
        /\ machine \in Machines /\ keys \in Nat /\ keyboard = FALSE
        /\ keys' = keys /\ keyboard' = keyboard
    BY DEF KbdInv, ResetKeyboard, At, Go
  <1>2. {IRQ1, PORT1_OFF, TRANSLATE} \cap config' = {}
    BY DEF ResetKeyboard, Cleared, IRQ1, PORT1_OFF, TRANSLATE
  <1>3. ASSUME keys = 0 PROVE reply' = <<>> /\ ResetPending'
    <2>1. kbdq = <<>> /\ Lacks(out, {3}) /\ Lacks(reply, {3})
      BY <1>1, <1>3 DEF KbdInv, Undisturbed
    <2>2. Lacks(out', {3}) /\ reply' = <<>>
      BY <2>1, BufferReadLemma DEF ResetKeyboard
    <2>3. kbdq' \in {<<>>} \cup Answers
      BY <2>1 DEF ResetKeyboard, Answers
    <2> QED
      BY <2>2, <2>3 DEF ResetPending
  <1> QED
    BY <1>1, <1>2, <1>3 DEF KbdInv, Before, Undisturbed, Initialising, Registering

LEMMA FirstStep ==
  ASSUME KbdInv, ReadFirst, UNCHANGED machine
  PROVE  KbdInv'
  <1>1. /\ stage = "first" /\ stage' = "second"
        /\ machine \in Machines /\ keys \in Nat /\ keyboard = FALSE
        /\ keys' = keys /\ keyboard' = keyboard /\ config' = config
        /\ reply' = reply /\ kbdq' = kbdq /\ out' = <<>>
        /\ {IRQ1, PORT1_OFF, TRANSLATE} \cap config = {}
    BY DEF KbdInv, ReadFirst, At, Go
  <1>2. ASSUME keys = 0, first' \in {ACK, PASS} PROVE reply' = <<>> /\ SecondPending'
    <2>1. reply = <<>> /\ ResetPending
      BY <1>1, <1>2 DEF KbdInv, Undisturbed
    <2>2. ~ Lacks(out, {3})
      <3>1. out # <<>>
        BY <1>2, Bytes DEF ReadFirst, ps2_read_sync
      <3>2. ASSUME NEW c, out = <<c>> PROVE 3 \in c
        BY <1>2, <3>2, Bytes DEF ReadFirst, ps2_read_sync
      <3> QED
        BY <3>1, <3>2 DEF Lacks
    <2>3. PICK x, y : <<x, y>> \in Answers /\ out = <<x>> /\ kbdq = <<y>>
      BY <2>1, <2>2 DEF ResetPending
    <2>4. first' = x
      BY <2>3 DEF ReadFirst, ps2_read_sync
    <2> QED
      BY <1>1, <2>1, <2>3, <2>4 DEF SecondPending
  <1> QED
    BY <1>1, <1>2 DEF KbdInv, Before, Undisturbed, Initialising, Registering

LEMMA SecondStep ==
  ASSUME KbdInv, ReadSecond, UNCHANGED machine
  PROVE  KbdInv'
  <1>1. /\ stage = "second" /\ stage' = (IF keyboard' THEN "register_1" ELSE "kmain")
        /\ machine \in Machines /\ keys \in Nat
        /\ keys' = keys /\ config' = config
        /\ reply' = reply /\ kbdq' = kbdq /\ out' = <<>>
        /\ {IRQ1, PORT1_OFF, TRANSLATE} \cap config = {}
        /\ keyboard' = (<<first, ps2_read_sync>> \in Answers)
    BY DEF KbdInv, ReadSecond, At, Go, Answers
  <1>2. ASSUME keys = 0, keyboard' PROVE reply = <<>> /\ kbdq = <<>>
    <2>1. first \in {ACK, PASS} /\ ps2_read_sync \in {ACK, PASS}
      BY <1>1, <1>2 DEF Answers
    <2>2. reply = <<>> /\ SecondPending
      BY <1>1, <1>2, <2>1 DEF KbdInv, Undisturbed
    <2>3. out # <<>>
      BY <2>1, Bytes DEF ps2_read_sync
    <2> QED
      BY <2>2, <2>3 DEF SecondPending
  <1> QED
    BY <1>1, <1>2 DEF KbdInv, Before, Undisturbed, Initialising, Registering, Lacks

LEMMA RegisterStep ==
  ASSUME KbdInv, ps2_register_kbd_isr, UNCHANGED machine
  PROVE  KbdInv'
  <1>1. /\ stage \in {"register_1", "register_2"} /\ stage' \in {"config_1", "config_2"}
        /\ machine \in Machines /\ keys \in Nat
        /\ keys' = keys /\ config' = config
        /\ reply' = <<config>> /\ kbdq' = kbdq /\ out' = out
        /\ kbd_handler' \in {"NULL", "kbd_isr"}
    BY DEF KbdInv, ps2_register_kbd_isr, At, Go
  <1>2. ASSUME keys = 0
        PROVE  /\ kbdq = <<>> /\ {PORT1_OFF, TRANSLATE} \cap config = {}
               /\ Lacks(out, {PORT1_OFF, TRANSLATE})
    BY <1>1, <1>2 DEF KbdInv, Undisturbed, Registering
  <1>3. keys = 0 => Lacks(reply', {PORT1_OFF, TRANSLATE})
    BY <1>1, <1>2 DEF Lacks
  <1> QED
    BY <1>1, <1>2, <1>3 DEF KbdInv, Before, Undisturbed, Initialising, Registering

LEMMA ReadConfigStep ==
  ASSUME KbdInv, ReadConfig, UNCHANGED machine
  PROVE  KbdInv'
  <1>1. /\ stage \in {"config_1", "config_2"} /\ stage' \in {"register_2", "kmain"}
        /\ machine \in Machines /\ keys \in Nat
        /\ keys' = keys /\ kbdq' = kbdq /\ kbd_handler' = kbd_handler
        /\ kbd_handler # "none"
        /\ config' = {IRQ1} \cup (IF out = <<>> THEN {} ELSE Head(out)) /\ BufferRead
    BY DEF KbdInv, ReadConfig, At, Go, Registering
  <1>2. ASSUME keys = 0
        PROVE  /\ kbdq = <<>> /\ {PORT1_OFF, TRANSLATE} \cap config' = {}
               /\ Lacks(out', {PORT1_OFF, TRANSLATE}) /\ reply' = <<>>
    <2>1. /\ kbdq = <<>> /\ Lacks(out, {PORT1_OFF, TRANSLATE})
          /\ Lacks(reply, {PORT1_OFF, TRANSLATE})
      BY <1>1, <1>2 DEF KbdInv, Undisturbed, Registering
    <2>2. {PORT1_OFF, TRANSLATE} \cap config' = {}
      <3>1. {PORT1_OFF, TRANSLATE} \cap {IRQ1} = {}
        BY DEF PORT1_OFF, TRANSLATE, IRQ1
      <3>2. CASE out = <<>>
        BY <1>1, <3>1, <3>2
      <3>3. ASSUME NEW c, out = <<c>>, c \cap {PORT1_OFF, TRANSLATE} = {}
            PROVE  {PORT1_OFF, TRANSLATE} \cap config' = {}
        <4>1. out # <<>> /\ Head(out) = c
          BY <3>3
        <4>2. config' = {IRQ1} \cup c
          BY <1>1, <4>1
        <4> QED
          BY <3>1, <3>3, <4>2
      <3> QED
        BY <2>1, <3>2, <3>3 DEF Lacks
    <2> QED
      BY <1>1, <2>1, <2>2, BufferReadLemma
  <1>3. IRQ1 \in config'
    BY <1>1
  <1> QED
    BY <1>1, <1>2, <1>3
       DEF KbdInv, Before, Undisturbed, Initialising, Registering, Lacks

\* The bytes of the controller and of the keyboard, and the handler.
LEMMA PeripheralStep ==
  ASSUME KbdInv, Peripherals, UNCHANGED machine
  PROVE  KbdInv'
  <1> USE DEF Undisturbed
  <1>1. /\ stage \in Initialising /\ stage' = stage /\ config' = config
        /\ kbd_handler' = kbd_handler /\ first' = first /\ keyboard' = keyboard
        /\ keys' \in {keys, keys + 1} /\ machine \in Machines /\ keys \in Nat
    BY DEF KbdInv, Peripherals, KbdInterrupt, Reply, KbdByte, KeyPress, Arrive, At,
           Initialising
  <1>2. SUFFICES ASSUME keys' = 0 PROVE Undisturbed'
    BY <1>1 DEF KbdInv, Before
  <1>3. keys = 0 /\ keys' = keys /\ Undisturbed
    BY <1>1, <1>2 DEF KbdInv
  <1>4. CASE KbdInterrupt
    <2>1. stage = "config_2" /\ out' = <<>> /\ UNCHANGED <<reply, kbdq>>
      BY <1>4 DEF KbdInterrupt, At
    <2> QED
      BY <1>1, <1>3, <2>1 DEF Registering, Lacks
  <1>5. CASE Reply
    <2>1. /\ reply # <<>> /\ out = <<>> /\ out' = <<Head(reply)>> /\ reply' = <<>>
          /\ kbdq' = kbdq
      BY <1>5 DEF Reply, Arrive
    <2>2. ASSUME NEW B, Lacks(reply, B) PROVE Lacks(out', B) /\ Lacks(reply', B)
      <3>1. PICK c : reply = <<c>> /\ c \cap B = {}
        BY <2>1, <2>2 DEF Lacks
      <3>2. out' = <<c>>
        BY <2>1, <3>1
      <3> QED
        BY <2>1, <3>1, <3>2 DEF Lacks
    <2>3. stage # "first" /\ (stage = "second" => first \notin {ACK, PASS})
      BY <1>3, <2>1
    <2> QED
      BY <1>1, <1>3, <2>1, <2>2, <2>3 DEF Initialising, Registering
  <1>6. CASE KbdByte
    <2>1. /\ kbdq # <<>> /\ out = <<>> /\ out' = <<Head(kbdq)>> /\ kbdq' = Tail(kbdq)
          /\ reply' = reply
      BY <1>6 DEF KbdByte, Arrive
    <2>2. stage \in {"first", "second"}
      BY <1>1, <1>3, <2>1 DEF Initialising, Registering
    <2>3. ASSUME stage = "first" PROVE reply' = <<>> /\ ResetPending'
      <3>1. reply = <<>> /\ kbdq \in Answers
        BY <1>3, <2>1, <2>3 DEF ResetPending
      <3>2. PICK x, y : <<x, y>> \in Answers /\ kbdq = <<x, y>>
        BY <3>1 DEF Answers
      <3>3. out' = <<x>> /\ kbdq' = <<y>>
        BY <2>1, <3>2
      <3> QED
        BY <2>1, <3>1, <3>2, <3>3 DEF ResetPending
    <2>4. ASSUME stage = "second", first \in {ACK, PASS}
          PROVE  reply' = <<>> /\ SecondPending'
      <3>1. reply = <<>> /\ SecondPending
        BY <1>3, <2>4
      <3>2. PICK y : <<first, y>> \in Answers /\ kbdq = <<y>>
        BY <2>1, <3>1 DEF SecondPending
      <3>3. out' = <<y>> /\ kbdq' = <<>>
        BY <2>1, <3>2
      <3> QED
        BY <1>1, <2>1, <3>1, <3>2, <3>3 DEF SecondPending
    <2> QED
      BY <1>1, <2>2, <2>3, <2>4 DEF Registering
  <1>7. CASE KeyPress
    BY <1>1, <1>3, <1>7 DEF KeyPress
  <1> QED
    BY <1>4, <1>5, <1>6, <1>7 DEF Peripherals

LEMMA KbdInvNext == KbdInv /\ [Next]_vars => KbdInv'
  <1> SUFFICES ASSUME KbdInv, [Next]_vars PROVE KbdInv'
    OBVIOUS
  <1>1. UNCHANGED machine
    BY MachineNext
  <1>2. CASE Start \/ Time \/ Mman \/ ACPI \/ PCI \/ NVMeStep(NvmeNext)
    BY <1>1, <1>2, OthersWait, KbdKept DEF NVMeStep
  <1>3. CASE NVMeStep(Controller) \/ TimePasses
    BY <1>1, <1>3, OthersWait, KbdKept DEF NVMeStep, TimePasses
  <1>4. CASE Ps2Next
    BY <1>1, <1>4, Ps2InitStep, ResetStep, FirstStep, SecondStep, RegisterStep,
       ReadConfigStep DEF Ps2Next
  <1>5. CASE Peripherals
    BY <1>1, <1>5, PeripheralStep
  <1>6. CASE UNCHANGED vars
    BY <1>1, <1>6, KbdKept DEF vars, Waits
  <1> QED
    BY <1>2, <1>3, <1>4, <1>5, <1>6 DEF Next, Kernel, Devices, Ps2Step

\* While no key is pressed, the keyboard that ps2_init found ends with its
\* interrupt and without translation, however late the controller's answers
\* come; and its interrupt is never on without a handler.
THEOREM KeyboardIsConnected == Spec => []KeyboardConnected
  <1>1. KbdInv => KeyboardConnected
    BY DEF KbdInv, KeyboardConnected, Undisturbed, At, Initialising, Registering
  <1> QED
    BY KbdInvInit, KbdInvNext, <1>1, PTL DEF Spec

----------------------------------------------------------------------------
(* The tree of buses *)

BusesOf(g) == mcfg[g].start .. mcfg[g].end

Leads(a) == /\ machine.functions[a].type = "bridge"
            /\ machine.functions[a].secondary \in Regions

Addresses == Nat \X Nat \X (0 .. Devs - 1) \X (0 .. Funs - 1)

\* What the firmware's numbering gives: TreeAssumption for the table in use.
Topology ==
  /\ Present \subseteq Addresses
  /\ mcfg \in Seq([start : Nat, end : Nat])
  /\ \A g \in 1 .. Len(mcfg) : mcfg[g].start \in BusesOf(g) /\ BusesOf(g) \subseteq Nat
  /\ Regions = UNION {BusesOf(g) : g \in 1 .. Len(mcfg)}
  /\ \A g, h \in 1 .. Len(mcfg) : \A b \in BusesOf(g) : b \in BusesOf(h) => g = h
  /\ \A a \in Present, g \in 1 .. Len(mcfg) :
       /\ a[2] \in BusesOf(g) => a[1] = g
       /\ machine.functions[a].type = "bridge"
            /\ machine.functions[a].secondary \in BusesOf(g) =>
            /\ a[2] \in BusesOf(g) /\ machine.functions[a].secondary # mcfg[g].start
            /\ \A b \in Present :
                 machine.functions[b].type = "bridge"
                   /\ machine.functions[b].secondary = machine.functions[a].secondary
                 => b = a

\* The buses that were entered, and the calls that are not done with theirs.
Entered == {mcfg[g].start : g \in 1 .. groups}
             \cup {buses[i].bus : i \in 2 .. Len(buses)}
Open == Elements(frames)

\* Frame f has gone on from function a; every frame of its bus has.
Passed(a, f) == a[3] < f.dev \/ (a[3] = f.dev /\ a[4] < f.fun)
Past(a) == a[2] \in Entered /\ \A f \in Open : f.bus = a[2] => Passed(a, f)

NodeFits(node, group, bus) ==
  /\ node \in 1 .. Len(buses)
  /\ IF buses[node].bridge = <<>>
       THEN bus = mcfg[group].start
       ELSE /\ buses[node].bus = bus
            /\ machine.functions[buses[node].bridge].secondary = bus

\* A call is at a function of a bus it has entered; at another one than function
\* 0 only where function 0 tells of it.
FrameRight(f) ==
  /\ f.group \in 1 .. groups /\ f.bus \in BusesOf(f.group) /\ f.bus \in Entered
  /\ f.fun > 0 => /\ <<f.group, f.bus, f.dev, 0>> \in Present
                  /\ machine.functions[<<f.group, f.bus, f.dev, 0>>].multi
  /\ NodeFits(f.node, f.group, f.bus)

FrameType ==
  [group : Nat, bus : Nat, node : Nat, dev : 0 .. Devs, fun : 0 .. Funs - 1]
DeviceType == [addr : Present, node : Nat, bus : Nat, driver : {NoDriver, "nvme"}]
BusType == [bus : Nat, bridge : Present \cup {<<>>}]

Addr(i) == pci_devices[i].addr
Listed == {Addr(i) : i \in 1 .. Len(pci_devices)}

TreeTypes ==
  /\ machine \in Machines /\ groups \in 0 .. Len(mcfg)
  /\ frames \in Seq(FrameType) /\ pci_devices \in Seq(DeviceType)
  /\ buses \in Seq(BusType) /\ Len(buses) >= 1 /\ buses[1].bridge = <<>>

RegionsKnown ==
  /\ DOMAIN mmio_bases = UNION {BusesOf(g) : g \in 1 .. groups}
  /\ \A b \in DOMAIN mmio_bases : /\ mmio_bases[b] \in 1 .. groups
                                  /\ b \in BusesOf(mmio_bases[b])

\* Each call in progress is at a function of a bus of its own.
FramesRight ==
  /\ Distinct(frames)
  /\ \A f \in Open : FrameRight(f)
  /\ \A f, g \in Open : f.bus = g.bus => f = g

\* The buses were entered over the bridges that are listed, and over all of them.
BusesRight ==
  /\ Entered \subseteq Regions
  /\ \A i \in 2 .. Len(buses) :
       /\ buses[i].bridge \in Listed /\ Leads(buses[i].bridge)
       /\ machine.functions[buses[i].bridge].secondary = buses[i].bus
  /\ \A a \in Listed : Leads(a) => machine.functions[a].secondary \in Entered
  /\ \A B \in SUBSET Regions : Closed(B) => Entered \subseteq B

\* What was passed is listed, once, and nothing else; and in its place.
ListRight ==
  /\ \A a \in Present : a \in Listed <=> Past(a) /\ Visible(a)
  /\ \A i, j \in 1 .. Len(pci_devices) : Addr(i) = Addr(j) => i = j
  /\ \A i \in 1 .. Len(pci_devices) :
       /\ Addr(i)[1] \in 1 .. Len(mcfg)
       /\ NodeFits(pci_devices[i].node, Addr(i)[1], Addr(i)[2])

TreeInv == TreeTypes /\ RegionsKnown /\ FramesRight /\ BusesRight /\ ListRight

\* The first of some indices.
LEMMA FirstOfLemma ==
  ASSUME NEW S \in SUBSET (Nat \ {0})
  PROVE  (S = {} => FirstOf(S) = 0) /\ (S # {} => FirstOf(S) \in S)
  <1>1. ASSUME S # {} PROVE Min(S) \in S
    <2>1. \E x \in S : \A y \in S : x <= y
      BY <1>1, LeastLemma
    <2> QED
      BY <2>1 DEF Min
  <1> QED
    BY <1>1 DEF FirstOf

\* The table in use is one of those the assumption speaks of.
LEMMA TopologyLemma ==
  ASSUME machine \in Machines
  PROVE  Topology
  <1> DEFINE S == {k \in DOMAIN fw.tables : fw.tables[k].sig = "MCFG" /\ fw.tables[k].sum}
             t == acpi_get_table("MCFG")
  <1>1. /\ Present \subseteq Addresses /\ DOMAIN fw.tables \subseteq Nat \ {0}
        /\ \A k \in DOMAIN fw.tables :
             fw.tables[k].sig = "MCFG" /\ fw.tables[k].sum
               => Tree(machine.functions, fw.tables[k].entries)
    BY TreeAssumption DEF Present, Addresses, fw
  <1>2. S \in SUBSET (Nat \ {0})
    BY <1>1
  <1>3. t = 0 \/ t \in S
    <2> HIDE DEF S
    <2>1. FirstOf(S) = 0 \/ FirstOf(S) \in S
      BY <1>2, FirstOfLemma
    <2> QED
      BY <2>1 DEF acpi_get_table, S
  <1> HIDE DEF t
  <1>4. CASE t = 0
    <2>1. mcfg = <<>> /\ Len(mcfg) = 0 /\ DOMAIN mcfg = {} /\ 1 .. Len(mcfg) = {}
      BY <1>4 DEF mcfg, t
    <2>2. mcfg \in Seq([start : Nat, end : Nat])
      BY <2>1
    <2>3. Regions = {} /\ UNION {BusesOf(g) : g \in 1 .. Len(mcfg)} = {}
      BY <2>1 DEF Regions, Range
    <2> QED
      BY <1>1, <2>1, <2>2, <2>3 DEF Topology
  <1>5. CASE t # 0
    <2>1. Tree(machine.functions, mcfg)
      BY <1>1, <1>3, <1>5 DEF mcfg, t
    <2>2. mcfg \in Seq([start : Nat, end : Nat]) /\ DOMAIN mcfg = 1 .. Len(mcfg)
      BY <2>1 DEF Tree
    <2>3. \A g \in 1 .. Len(mcfg) :
            mcfg[g].start \in BusesOf(g) /\ BusesOf(g) \subseteq Nat
      <3> SUFFICES ASSUME NEW g \in 1 .. Len(mcfg)
                   PROVE  mcfg[g].start \in BusesOf(g) /\ BusesOf(g) \subseteq Nat
        OBVIOUS
      <3>1. mcfg[g] \in [start : Nat, end : Nat]
        BY <2>2, ElementOfSeq
      <3>2. mcfg[g].start \in Nat /\ mcfg[g].end \in Nat /\ mcfg[g].start <= mcfg[g].end
        BY <2>1, <2>2, <3>1 DEF Tree
      <3> QED
        BY <3>2 DEF BusesOf
    <2>4. Regions = UNION {BusesOf(g) : g \in 1 .. Len(mcfg)}
      BY <2>2 DEF Regions, Range, BusesOf
    <2>5. \A g, h \in 1 .. Len(mcfg) : \A b \in BusesOf(g) : b \in BusesOf(h) => g = h
      <3>1. \A g, h \in 1 .. Len(mcfg) : g # h => BusesOf(g) \cap BusesOf(h) = {}
        BY <2>1, <2>2 DEF Tree, BusesOf
      <3> QED
        BY <3>1
    <2>6. \A a \in Present, g \in 1 .. Len(mcfg) :
            /\ a[2] \in BusesOf(g) => a[1] = g
            /\ machine.functions[a].type = "bridge"
                 /\ machine.functions[a].secondary \in BusesOf(g) =>
                 /\ a[2] \in BusesOf(g) /\ machine.functions[a].secondary # mcfg[g].start
                 /\ \A b \in Present :
                      machine.functions[b].type = "bridge"
                        /\ machine.functions[b].secondary = machine.functions[a].secondary
                      => b = a
      BY <2>1, <2>2 DEF Tree, BusesOf, Present
    <2> QED
      BY <1>1, <2>2, <2>3, <2>4, <2>5, <2>6 DEF Topology
  <1> QED
    BY <1>4, <1>5

\* A bridge into a region.
LEMMA BridgeLemma ==
  ASSUME Topology, NEW a \in Present, NEW g \in 1 .. Len(mcfg),
         NEW s \in BusesOf(g), machine.functions[a].type = "bridge",
         machine.functions[a].secondary = s
  PROVE  /\ a[2] \in BusesOf(g) /\ s # mcfg[g].start
         /\ \A b \in Present :
              machine.functions[b].type = "bridge"
                /\ machine.functions[b].secondary = s => b = a
  BY DEF Topology

\* The table in use does not change any more.
LEMMA SameTopology ==
  ASSUME UNCHANGED <<machine, rsdt>>
  PROVE  /\ mcfg' = mcfg /\ Present' = Present /\ Regions' = Regions
         /\ \A g : BusesOf(g)' = BusesOf(g)
         /\ \A a : Leads(a)' = Leads(a) /\ Visible(a)' = Visible(a)
         /\ \A B : Closed(B)' = Closed(B)
  <1>1. mcfg' = mcfg
    BY DEF mcfg, acpi_get_table, fw
  <1>2. Present' = Present
    BY DEF Present
  <1>3. Regions' = Regions
    BY <1>1 DEF Regions
  <1>4. \A g : BusesOf(g)' = BusesOf(g)
    BY <1>1 DEF BusesOf
  <1>5. \A a : Leads(a)' = Leads(a) /\ Visible(a)' = Visible(a)
    BY <1>2, <1>3 DEF Leads, Visible
  <1>6. \A B : Closed(B)' = Closed(B)
    BY <1>1, <1>2, <1>3, <1>5 DEF Closed, Visible
  <1> QED
    BY <1>1, <1>2, <1>3, <1>4, <1>5, <1>6

At0(f) == <<f.group, f.bus, f.dev, 0>>
AtFun(f) == <<f.group, f.bus, f.dev, f.fun>>

\* Going on from a function passes it, and with it the functions of its device
\* that do not count; and no other.
LEMMA OnwardsLemma ==
  ASSUME Topology, NEW f \in FrameType, f.dev < Devs, NEW multi,
         f.fun > 0 => At0(f) \in Present /\ machine.functions[At0(f)].multi,
         AtFun(f) \in Present => (multi <=> machine.functions[AtFun(f)].multi),
         AtFun(f) \notin Present => ~ multi
  PROVE  LET n == Onwards(f, multi)
         IN  /\ n \in FrameType
             /\ n.group = f.group /\ n.bus = f.bus /\ n.node = f.node
             /\ n.fun > 0 => At0(n) \in Present /\ machine.functions[At0(n)].multi
             /\ \A a \in Present :
                  a[1] = f.group /\ a[2] = f.bus /\ Visible(a)
                    => (Passed(a, n) <=> Passed(a, f) \/ a = AtFun(f))
  <1> DEFINE n == Onwards(f, multi)
  <1>1. /\ f.group \in Nat /\ f.bus \in Nat /\ f.node \in Nat
        /\ f.dev \in 0 .. Devs /\ f.fun \in 0 .. Funs - 1 /\ Devs \in Nat /\ Funs \in Nat
        /\ f = [group |-> f.group, bus |-> f.bus, node |-> f.node,
                dev |-> f.dev, fun |-> f.fun]
    BY PciAssumption DEF FrameType
  <1>2. CASE (f.fun > 0 \/ multi) /\ f.fun + 1 < Funs
    <2>1. n = [f EXCEPT !.fun = f.fun + 1]
      BY <1>2 DEF Onwards
    <2>2. /\ n.group = f.group /\ n.bus = f.bus /\ n.node = f.node
          /\ n.dev = f.dev /\ n.fun = f.fun + 1 /\ n \in FrameType
      BY <1>1, <1>2, <2>1 DEF FrameType
    <2> HIDE DEF n
    <2>3. At0(f) \in Present /\ machine.functions[At0(f)].multi
      <3>1. CASE f.fun > 0
        BY <3>1
      <3>2. CASE ~ (f.fun > 0)
        <4>1. f.fun = 0 /\ multi
          BY <1>1, <1>2, <3>2
        <4>2. AtFun(f) = At0(f)
          BY <4>1 DEF AtFun, At0
        <4> QED
          BY <4>1, <4>2
      <3> QED
        BY <3>1, <3>2
    <2>4. At0(n) = At0(f)
      BY <2>2 DEF At0
    <2>5. ASSUME NEW a \in Present, a[1] = f.group, a[2] = f.bus
          PROVE  Passed(a, n) <=> Passed(a, f) \/ a = AtFun(f)
      <3>1. a \in Addresses
        BY DEF Topology
      <3>2. a = <<a[1], a[2], a[3], a[4]>> /\ a[3] \in Nat /\ a[4] \in Nat
        BY <3>1 DEF Addresses
      <3>3. a = AtFun(f) <=> a[3] = f.dev /\ a[4] = f.fun
        BY <2>5, <3>2 DEF AtFun
      <3> QED
        BY <1>1, <2>2, <3>2, <3>3 DEF Passed
    <2> QED
      BY <2>2, <2>3, <2>4, <2>5 DEF n
  <1>3. CASE ~ ((f.fun > 0 \/ multi) /\ f.fun + 1 < Funs)
    <2>1. n = [f EXCEPT !.dev = f.dev + 1, !.fun = 0]
      BY <1>3 DEF Onwards
    <2>2. /\ n.group = f.group /\ n.bus = f.bus /\ n.node = f.node
          /\ n.dev = f.dev + 1 /\ n.fun = 0 /\ n \in FrameType
      <3>1. f.dev + 1 \in 0 .. Devs /\ 0 \in 0 .. Funs - 1
        BY <1>1
      <3>2. n = [group |-> f.group, bus |-> f.bus, node |-> f.node,
                 dev |-> f.dev + 1, fun |-> 0]
        BY <1>1, <2>1
      <3> HIDE DEF n
      <3> QED
        BY <1>1, <3>1, <3>2 DEF FrameType
    <2> HIDE DEF n
    <2>3. ASSUME NEW a \in Present, a[1] = f.group, a[2] = f.bus, Visible(a)
          PROVE  Passed(a, n) <=> Passed(a, f) \/ a = AtFun(f)
      <3>1. a \in Addresses
        BY DEF Topology
      <3>2. /\ a = <<a[1], a[2], a[3], a[4]>>
            /\ a[3] \in Nat /\ a[4] \in Nat /\ a[4] < Funs
        BY <1>1, <3>1 DEF Addresses
      <3>3. a = AtFun(f) <=> a[3] = f.dev /\ a[4] = f.fun
        BY <2>3, <3>2 DEF AtFun
      <3>4. Passed(a, n) <=> a[3] <= f.dev
        BY <1>1, <2>2, <3>2 DEF Passed
      <3>5. ASSUME a[3] = f.dev PROVE a[4] <= f.fun
        <4>1. CASE f.fun + 1 >= Funs
          BY <1>1, <3>2, <4>1
        <4>2. CASE ~ (f.fun > 0 \/ multi)
          <5>1. f.fun = 0 /\ ~ multi
            BY <1>1, <4>2
          <5>2. <<a[1], a[2], a[3], 0>> = AtFun(f)
            BY <2>3, <3>5, <5>1 DEF AtFun
          <5>3. AtFun(f) \in Present /\ (a[4] > 0 => machine.functions[AtFun(f)].multi)
            BY <2>3, <5>2 DEF Visible
          <5>4. ~ (a[4] > 0)
            BY <5>1, <5>3
          <5> QED
            BY <3>2, <5>1, <5>4
        <4> QED
          BY <1>1, <1>3, <4>1, <4>2
      <3> QED
        BY <1>1, <3>2, <3>3, <3>4, <3>5 DEF Passed
    <2> QED
      BY <2>2, <2>3 DEF n
  <1> QED
    BY <1>2, <1>3

\* Before the enumeration, nothing is entered or listed.
LEMMA TreeInvInit == PciInit /\ machine \in Machines => TreeInv
  <1> SUFFICES ASSUME PciInit, machine \in Machines PROVE TreeInv
    OBVIOUS
  <1>1. /\ DOMAIN mmio_bases = {} /\ pci_devices = <<>> /\ frames = <<>> /\ groups = 0
        /\ buses = <<[bus |-> 0, bridge |-> <<>>]>>
    BY DEF PciInit
  <1>2. /\ Len(pci_devices) = 0 /\ Len(frames) = 0 /\ Len(buses) = 1
        /\ buses[1].bridge = <<>>
        /\ 1 .. groups = {} /\ 1 .. 0 = {} /\ 2 .. Len(buses) = {}
    BY <1>1
  <1>3. Entered = {} /\ Open = {} /\ Listed = {}
    BY <1>1, <1>2 DEF Entered, Open, Listed, Elements
  <1>4. TreeTypes
    <2>1. mcfg \in Seq([start : Nat, end : Nat])
      BY TopologyLemma DEF Topology
    <2>2. Len(mcfg) \in Nat
      BY <2>1, LenProperties
    <2>3. buses \in Seq(BusType)
      BY <1>1 DEF BusType
    <2> QED
      BY <1>1, <1>2, <2>2, <2>3 DEF TreeTypes
  <1>5. RegionsKnown
    BY <1>1, <1>2 DEF RegionsKnown
  <1>6. FramesRight
    BY <1>1, <1>2, <1>3 DEF FramesRight, Distinct
  <1>7. BusesRight
    BY <1>2, <1>3 DEF BusesRight
  <1>8. ListRight
    BY <1>1, <1>2, <1>3 DEF ListRight, Past
  <1> QED
    BY <1>4, <1>5, <1>6, <1>7, <1>8 DEF TreeInv

\* What is listed is there.
LEMMA ListedLemma ==
  ASSUME TreeTypes
  PROVE  /\ Listed \subseteq Present
         /\ \A i \in 1 .. Len(pci_devices) : pci_devices[i] \in DeviceType
         /\ \A i \in 1 .. Len(buses) : buses[i] \in BusType
  <1>1. /\ \A i \in 1 .. Len(pci_devices) : pci_devices[i] \in DeviceType
        /\ \A i \in 1 .. Len(buses) : buses[i] \in BusType
    BY ElementOfSeq DEF TreeTypes
  <1>2. Listed \subseteq Present
    BY <1>1 DEF Listed, Addr, DeviceType
  <1> QED
    BY <1>1, <1>2

\* A bus that was entered is the start of a region that was begun, or the bus of
\* a listed bridge.
LEMMA EnteredLemma ==
  ASSUME TreeTypes, BusesRight, NEW b \in Entered
  PROVE  \/ \E g \in 1 .. groups : b = mcfg[g].start
         \/ \E a \in Listed : /\ machine.functions[a].type = "bridge"
                              /\ machine.functions[a].secondary = b
  BY DEF Entered, BusesRight, Leads

LEMMA StartGroupStep ==
  ASSUME TreeInv, StartGroup, UNCHANGED <<machine, rsdt>>
  PROVE  TreeInv'
  <1> DEFINE g == groups + 1
             b0 == mcfg[g].start
  <1>0. PICK f : f = Frame(g, b0, 1)
    OBVIOUS
  <1>1. TreeTypes /\ RegionsKnown /\ FramesRight /\ BusesRight /\ ListRight
    BY DEF TreeInv
  <1>2. Topology
    BY <1>1, TopologyLemma DEF TreeTypes
  <1>3. /\ mcfg' = mcfg /\ Present' = Present /\ Regions' = Regions
        /\ \A h : BusesOf(h)' = BusesOf(h)
        /\ \A a : Leads(a)' = Leads(a) /\ Visible(a)' = Visible(a)
        /\ \A B : Closed(B)' = Closed(B)
    BY SameTopology
  <1>4. /\ groups \in Nat /\ Len(mcfg) \in Nat /\ groups < Len(mcfg)
        /\ g \in 1 .. Len(mcfg) /\ groups' = g
    <2>1. Len(mcfg) \in Nat
      BY <1>2, LenProperties DEF Topology
    <2> QED
      BY <1>1, <2>1 DEF TreeTypes, StartGroup
  <1>5. /\ b0 \in BusesOf(g) /\ BusesOf(g) \subseteq Nat /\ b0 \in Regions
    BY <1>2, <1>4 DEF Topology
  <1>6. /\ mmio_bases' = [b \in DOMAIN mmio_bases \cup BusesOf(g) |->
                           IF b \in BusesOf(g) THEN g ELSE mmio_bases[b]]
        /\ frames = <<>> /\ frames' = <<f>>
        /\ UNCHANGED <<pci_devices, buses>>
    BY <1>0 DEF StartGroup, BusesOf
  <1>7. /\ f.group = g /\ f.bus = b0 /\ f.node = 1 /\ f.dev = 0 /\ f.fun = 0
        /\ f \in FrameType
    BY <1>0, <1>4, <1>5, PciAssumption DEF Frame, FrameType
  <1>8. 1 .. groups' = 1 .. groups \cup {g} /\ g \notin 1 .. groups
    BY <1>4
  <1>9. Open = {} /\ Open' = {f}
    BY <1>6 DEF Open, Elements
  <1> HIDE DEF g
  <1>10. Entered' = Entered \cup {b0}
    BY <1>3, <1>6, <1>8 DEF Entered
  <1>11. b0 \notin Entered
    <2> SUFFICES ASSUME b0 \in Entered PROVE FALSE
      OBVIOUS
    <2>1. ASSUME NEW h \in 1 .. groups, b0 = mcfg[h].start PROVE FALSE
      <3>1. h \in 1 .. Len(mcfg) /\ h # g
        BY <1>4, <1>8
      <3>2. b0 \in BusesOf(h)
        BY <1>2, <2>1, <3>1 DEF Topology
      <3> QED
        BY <1>2, <1>4, <1>5, <3>1, <3>2 DEF Topology
    <2>2. ASSUME NEW a \in Listed, machine.functions[a].type = "bridge",
                 machine.functions[a].secondary = b0
          PROVE  FALSE
      <3>1. a \in Present
        BY <1>1, ListedLemma
      <3> QED
        BY <1>2, <1>4, <1>5, <2>2, <3>1 DEF Topology
    <2> QED
      BY <1>1, <2>1, <2>2, EnteredLemma
  <1>12. TreeTypes'
    <2>1. frames' \in Seq(FrameType)
      BY <1>6, <1>7
    <2> QED
      BY <1>1, <1>3, <1>4, <1>6, <2>1 DEF TreeTypes, DeviceType, BusType
  <1>13. RegionsKnown'
    <2>1. DOMAIN mmio_bases' = DOMAIN mmio_bases \cup BusesOf(g)
      BY <1>6
    <2>2. DOMAIN mmio_bases' = UNION {BusesOf(h)' : h \in 1 .. groups'}
      BY <1>1, <1>3, <1>8, <2>1 DEF RegionsKnown
    <2>3. ASSUME NEW b \in DOMAIN mmio_bases'
          PROVE  mmio_bases'[b] \in 1 .. groups' /\ b \in BusesOf(mmio_bases'[b])
      BY <1>1, <1>6, <1>8, <2>3 DEF RegionsKnown
    <2> QED
      BY <1>3, <2>2, <2>3 DEF RegionsKnown
  <1>14. \A node, group, bus : NodeFits(node, group, bus)' = NodeFits(node, group, bus)
    BY <1>3, <1>6 DEF NodeFits
  <1>15. FramesRight'
    <2>1. Distinct(frames')
      BY <1>6 DEF Distinct
    <2>2. NodeFits(1, g, b0)
      <3>1. Len(buses) \in Nat /\ Len(buses) >= 1 /\ buses[1].bridge = <<>>
        BY <1>1, LenProperties DEF TreeTypes
      <3> QED
        BY <3>1 DEF NodeFits
    <2>3. FrameRight(f)'
      BY <1>3, <1>5, <1>7, <1>8, <1>10, <1>14, <2>2 DEF FrameRight
    <2> QED
      BY <1>9, <2>1, <2>3 DEF FramesRight
  <1>16. BusesRight'
    <2>1. Listed' = Listed
      BY <1>6 DEF Listed, Addr
    <2>2. \A B : Closed(B) => b0 \in B
      BY <1>2, <1>4 DEF Closed, Range, Topology
    <2>3. \A B \in SUBSET Regions' : Closed(B)' => Entered' \subseteq B
      BY <1>1, <1>3, <1>10, <2>2 DEF BusesRight
    <2> QED
      BY <1>1, <1>3, <1>5, <1>6, <1>10, <2>1, <2>3 DEF BusesRight
  <1>17. ListRight'
    <2>1. Listed' = Listed /\ Len(pci_devices') = Len(pci_devices)
          /\ \A k : Addr(k)' = Addr(k)
      BY <1>6 DEF Listed, Addr
    <2>2. ASSUME NEW a \in Present PROVE Past(a)' <=> Past(a)
      <3>1. Past(a) <=> a[2] \in Entered
        BY <1>9 DEF Past
      <3>2. ~ Passed(a, f)
        <4>1. a[3] \in Nat /\ a[4] \in Nat
          BY <1>2 DEF Topology, Addresses
        <4> QED
          BY <1>7, <4>1 DEF Passed
      <3>3. Past(a)' <=> a[2] \in Entered' /\ a[2] # b0
        BY <1>7, <1>9, <3>2 DEF Past, Passed
      <3> QED
        BY <1>10, <1>11, <3>1, <3>3
    <2> QED
      BY <1>1, <1>3, <1>6, <1>14, <2>1, <2>2 DEF ListRight
  <1> QED
    BY <1>12, <1>13, <1>15, <1>16, <1>17 DEF TreeInv

\* The innermost call has its bus for itself.
LEMMA HeadLemma ==
  ASSUME TreeTypes, FramesRight, frames # <<>>,
         NEW f, f = Head(frames), NEW R, R = Elements(Tail(frames))
  PROVE  /\ f \in FrameType /\ FrameRight(f)
         /\ Tail(frames) \in Seq(FrameType) /\ Distinct(Tail(frames))
         /\ Open = {f} \cup R
         /\ \A x \in R : FrameRight(x) /\ x.bus # f.bus
         /\ \A x, y \in R : x.bus = y.bus => x = y
  <1>1. frames \in Seq(FrameType)
    BY DEF TreeTypes
  <1>2. /\ f \in FrameType /\ Tail(frames) \in Seq(FrameType)
        /\ Elements(frames) = {f} \cup R
        /\ Distinct(frames) => Distinct(Tail(frames)) /\ f \notin R
    BY <1>1, TailLemma
  <1> QED
    BY <1>2 DEF FramesRight, Open

\* Where a call goes on from the function it is at.
Advanced(f) ==
  Onwards(f, AtFun(f) \in Present /\ machine.functions[AtFun(f)].multi)

LEMMA AdvancedLemma ==
  ASSUME NEW f
  PROVE  /\ AtFun(f) \notin Present => Advanced(f) = Onwards(f, FALSE)
         /\ AtFun(f) \in Present
              => Advanced(f) = Onwards(f, machine.functions[AtFun(f)].multi)
  BY DEF Advanced, Onwards

\* When a call goes on from a function, that function is visible and not listed
\* yet, and is the only one that counts as passed from then on.
LEMMA AdvanceLemma ==
  ASSUME TreeInv, frames # <<>>, NEW f, f = Head(frames), f.dev < Devs,
         NEW q, q = <<Advanced(f)>> \o Tail(frames)
  PROVE  /\ q \in Seq(FrameType) /\ Distinct(q) /\ Advanced(f) \in FrameType
         /\ \A x \in Elements(q) : FrameRight(x)
         /\ \A x, y \in Elements(q) : x.bus = y.bus => x = y
         /\ \A a \in Present : Visible(a) =>
              (a[2] \in Entered /\ (\A x \in Elements(q) : x.bus = a[2] => Passed(a, x))
                 <=> Past(a) \/ a = AtFun(f))
         /\ AtFun(f) \in Present => Visible(AtFun(f)) /\ AtFun(f) \notin Listed
  <1>0. PICK R, n : R = Elements(Tail(frames)) /\ n = Advanced(f)
    OBVIOUS
  <1>1. TreeTypes /\ FramesRight /\ BusesRight /\ ListRight
    BY DEF TreeInv
  <1>2. Topology
    BY <1>1, TopologyLemma DEF TreeTypes
  <1>3. /\ f \in FrameType /\ FrameRight(f)
        /\ Tail(frames) \in Seq(FrameType) /\ Distinct(Tail(frames))
        /\ Open = {f} \cup R
        /\ \A x \in R : FrameRight(x) /\ x.bus # f.bus
        /\ \A x, y \in R : x.bus = y.bus => x = y
    BY <1>0, <1>1, HeadLemma
  <1>4. f.fun > 0 => At0(f) \in Present /\ machine.functions[At0(f)].multi
    BY <1>3 DEF FrameRight, At0
  <1>5. /\ n \in FrameType
        /\ n.group = f.group /\ n.bus = f.bus /\ n.node = f.node
        /\ n.fun > 0 => At0(n) \in Present /\ machine.functions[At0(n)].multi
        /\ \A a \in Present :
             a[1] = f.group /\ a[2] = f.bus /\ Visible(a)
               => (Passed(a, n) <=> Passed(a, f) \/ a = AtFun(f))
    <2> DEFINE multi == AtFun(f) \in Present /\ machine.functions[AtFun(f)].multi
    <2>1. /\ AtFun(f) \in Present => (multi <=> machine.functions[AtFun(f)].multi)
          /\ AtFun(f) \notin Present => ~ multi
          /\ n = Onwards(f, multi)
      BY <1>0 DEF Advanced
    <2> HIDE DEF multi
    <2> QED
      BY <1>2, <1>3, <1>4, <2>1, OnwardsLemma
  <1>6. /\ q \in Seq(FrameType) /\ Elements(q) = {n} \cup R
        /\ Distinct(Tail(frames)) /\ n \notin R => Distinct(q)
    <2>0. PICK t : t = Tail(frames)
      OBVIOUS
    <2>1. t \in Seq(FrameType) /\ R = Elements(t) /\ q = <<n>> \o t
      BY <1>0, <1>3, <2>0
    <2>2. /\ <<n>> \o t \in Seq(FrameType)
          /\ Elements(<<n>> \o t) = {n} \cup Elements(t)
          /\ Distinct(t) /\ n \notin Elements(t) => Distinct(<<n>> \o t)
      BY <1>5, <2>1, ConsLemma
    <2> QED
      BY <2>0, <2>1, <2>2
  <1>7. n \notin R /\ Distinct(q)
    BY <1>3, <1>5, <1>6
  <1>8. FrameRight(n)
    BY <1>3, <1>5 DEF FrameRight, At0
  <1>9. f.group \in 1 .. Len(mcfg) /\ f.bus \in BusesOf(f.group) /\ f.bus \in Entered
    <2>1. Len(mcfg) \in Nat
      BY <1>2, LenProperties DEF Topology
    <2> QED
      BY <1>1, <1>3, <2>1 DEF FrameRight, TreeTypes
  <1>10. ASSUME NEW a \in Present, Visible(a)
         PROVE  a[2] \in Entered /\ (\A x \in Elements(q) : x.bus = a[2] => Passed(a, x))
                  <=> Past(a) \/ a = AtFun(f)
    <2>1. CASE a[2] = f.bus
      <3>1. a[1] = f.group
        BY <1>2, <1>9, <2>1 DEF Topology
      <3>2. Past(a) <=> Passed(a, f)
        BY <1>3, <1>9, <2>1 DEF Past
      <3>3. (\A x \in Elements(q) : x.bus = a[2] => Passed(a, x)) <=> Passed(a, n)
        BY <1>3, <1>5, <1>6, <2>1
      <3> QED
        BY <1>5, <1>9, <1>10, <2>1, <3>1, <3>2, <3>3
    <2>2. CASE a[2] # f.bus
      <3>1. a # AtFun(f)
        BY <2>2 DEF AtFun
      <3>2. Past(a) <=> a[2] \in Entered /\ \A x \in R : x.bus = a[2] => Passed(a, x)
        BY <1>3, <2>2 DEF Past
      <3>3. (\A x \in Elements(q) : x.bus = a[2] => Passed(a, x))
              <=> (\A x \in R : x.bus = a[2] => Passed(a, x))
        BY <1>5, <1>6, <2>2
      <3> QED
        BY <3>1, <3>2, <3>3
    <2> QED
      BY <2>1, <2>2
  <1>11. ASSUME AtFun(f) \in Present PROVE Visible(AtFun(f)) /\ AtFun(f) \notin Listed
    <2>1. f.fun \in Nat /\ f.dev \in Nat
      BY <1>3, PciAssumption, SMTT(30) DEF FrameType
    <2>2. Visible(AtFun(f))
      <3>1. CASE f.fun = 0
        <4>1. PICK a : a = AtFun(f)
          OBVIOUS
        <4>2. <<a[1], a[2], a[3], 0>> = a /\ a[4] = 0
          BY <3>1, <4>1 DEF AtFun
        <4>3. Visible(a)
          BY <1>11, <4>1, <4>2, SMTT(30) DEF Visible
        <4> QED
          BY <4>1, <4>3
      <3>2. CASE f.fun > 0
        BY <1>4, <3>2 DEF Visible, AtFun, At0
      <3> QED
        BY <2>1, <3>1, <3>2
    <2>3. ~ Passed(AtFun(f), f)
      BY <2>1 DEF Passed, AtFun
    <2>4. ~ Past(AtFun(f))
      <3>1. f \in Open /\ AtFun(f)[2] = f.bus
        BY <1>3 DEF AtFun
      <3> QED
        BY <2>3, <3>1 DEF Past
    <2> QED
      BY <1>1, <1>11, <2>2, <2>4 DEF ListRight
  <1>12. /\ \A x \in Elements(q) : FrameRight(x)
         /\ \A x, y \in Elements(q) : x.bus = y.bus => x = y
    BY <1>3, <1>5, <1>6, <1>8
  <1> QED
    BY <1>0, <1>5, <1>6, <1>7, <1>10, <1>11, <1>12

\* A device is listed that was not listed yet.
LEMMA DeviceLemma ==
  ASSUME TreeTypes, ListRight, NEW a \in Present \ Listed, NEW node \in 1 .. Len(buses),
         NEW d, d = Device(a, node), pci_devices' = <<d>> \o pci_devices
  PROVE  /\ pci_devices' \in Seq(DeviceType)
         /\ Listed' = Listed \cup {a}
         /\ \A i, j \in 1 .. Len(pci_devices') : Addr(i)' = Addr(j)' => i = j
         /\ \A i \in 1 .. Len(pci_devices') :
              \/ pci_devices'[i] = d
              \/ \E j \in 1 .. Len(pci_devices) : pci_devices'[i] = pci_devices[j]
  <1>1. d \in DeviceType /\ d.addr = a
    <2>1. node \in Nat /\ buses[node] \in BusType
      BY ListedLemma
    <2> QED
      BY <2>1 DEF Device, DeviceType, BusType, NoDriver
  <1>2. pci_devices \in Seq(DeviceType) /\ Len(pci_devices) \in Nat
    BY LenProperties DEF TreeTypes
  <1>3. PICK s : s = pci_devices'
    OBVIOUS
  <1>4. /\ s \in Seq(DeviceType) /\ Len(s) = Len(pci_devices) + 1 /\ s[1] = d
        /\ \A i \in 1 .. Len(pci_devices) : s[i + 1] = pci_devices[i]
    BY <1>1, <1>2, <1>3, ConsLemma
  <1>5. \A i \in 1 .. Len(s) :
          i = 1 \/ (i - 1 \in 1 .. Len(pci_devices) /\ s[i] = pci_devices[i - 1])
    <2> SUFFICES ASSUME NEW i \in 1 .. Len(s), i # 1
                 PROVE  i - 1 \in 1 .. Len(pci_devices) /\ s[i] = pci_devices[i - 1]
      OBVIOUS
    <2>1. i - 1 \in 1 .. Len(pci_devices) /\ (i - 1) + 1 = i
      BY <1>2, <1>4
    <2>2. s[(i - 1) + 1] = pci_devices[i - 1]
      BY <1>4, <2>1
    <2> QED
      BY <2>1, <2>2
  <1>6. \A i \in 1 .. Len(s) :
          \/ s[i] = d
          \/ \E j \in 1 .. Len(pci_devices) : s[i] = pci_devices[j]
    BY <1>4, <1>5
  <1>7. Listed' = {s[i].addr : i \in 1 .. Len(s)}
    BY <1>3 DEF Listed, Addr
  <1>8. Listed' = Listed \cup {a}
    <2>1. Listed' \subseteq Listed \cup {a}
      <3> SUFFICES ASSUME NEW i \in 1 .. Len(s) PROVE s[i].addr \in Listed \cup {a}
        BY <1>7
      <3> QED
        BY <1>1, <1>6 DEF Listed, Addr
    <2>2. 1 \in 1 .. Len(s) /\ \A i \in 1 .. Len(pci_devices) : i + 1 \in 1 .. Len(s)
      BY <1>2, <1>4
    <2>3. a \in Listed'
      BY <1>1, <1>4, <1>7, <2>2
    <2>4. ASSUME NEW i \in 1 .. Len(pci_devices) PROVE Addr(i) \in Listed'
      <3>1. s[i + 1] = pci_devices[i] /\ i + 1 \in 1 .. Len(s)
        BY <1>4, <2>2
      <3> QED
        BY <1>7, <3>1 DEF Addr
    <2> QED
      BY <2>1, <2>3, <2>4 DEF Listed
  <1>9. ASSUME NEW i \in 1 .. Len(s), NEW j \in 1 .. Len(s), s[i].addr = s[j].addr
        PROVE  i = j
    <2>1. \A k \in 1 .. Len(pci_devices) : pci_devices[k].addr # a
      BY DEF Listed, Addr
    <2>2. CASE i = 1 \/ j = 1
      BY <1>1, <1>4, <1>5, <1>9, <2>1, <2>2
    <2>3. CASE i # 1 /\ j # 1
      <3>1. /\ i - 1 \in 1 .. Len(pci_devices) /\ j - 1 \in 1 .. Len(pci_devices)
            /\ pci_devices[i - 1].addr = pci_devices[j - 1].addr
        BY <1>5, <1>9, <2>3
      <3>2. i - 1 = j - 1
        BY <3>1 DEF ListRight, Addr
      <3> QED
        BY <3>2
    <2> QED
      BY <2>2, <2>3
  <1>10. ASSUME NEW i \in 1 .. Len(pci_devices'), NEW j \in 1 .. Len(pci_devices'),
                Addr(i)' = Addr(j)'
         PROVE  i = j
    <2>1. s[i].addr = s[j].addr /\ i \in 1 .. Len(s) /\ j \in 1 .. Len(s)
      BY <1>3, <1>10 DEF Addr
    <2> QED
      BY <1>9, <2>1
  <1>11. \A i \in 1 .. Len(pci_devices') :
           \/ pci_devices'[i] = d
           \/ \E j \in 1 .. Len(pci_devices) : pci_devices'[i] = pci_devices[j]
    BY <1>3, <1>6
  <1> QED
    BY <1>3, <1>4, <1>8, <1>10, <1>11

\* A function that is not there is passed.
LEMMA AbsentStep ==
  ASSUME TreeInv, UNCHANGED <<machine, rsdt>>,
         NEW f, frames # <<>>, f = Head(frames), f.dev < Devs,
         AtFun(f) \notin Present,
         frames' = <<Advanced(f)>> \o Tail(frames),
         UNCHANGED <<pci_devices, buses, mmio_bases, groups>>
  PROVE  TreeInv'
  <1>1. TreeTypes /\ RegionsKnown /\ FramesRight /\ BusesRight /\ ListRight
    BY DEF TreeInv
  <1>2. /\ mcfg' = mcfg /\ Present' = Present /\ Regions' = Regions
        /\ \A h : BusesOf(h)' = BusesOf(h)
        /\ \A a : Leads(a)' = Leads(a) /\ Visible(a)' = Visible(a)
        /\ \A B : Closed(B)' = Closed(B)
    BY SameTopology
  <1>3. PICK q : q = <<Advanced(f)>> \o Tail(frames)
    OBVIOUS
  <1>4. /\ q \in Seq(FrameType) /\ Distinct(q)
        /\ \A x \in Elements(q) : FrameRight(x)
        /\ \A x, y \in Elements(q) : x.bus = y.bus => x = y
        /\ \A a \in Present : Visible(a) =>
             (a[2] \in Entered /\ (\A x \in Elements(q) : x.bus = a[2] => Passed(a, x))
                <=> Past(a) \/ a = AtFun(f))
    BY <1>3, AdvanceLemma
  <1>5. frames' = q /\ Open' = Elements(q)
    BY <1>3 DEF Open
  <1>6. /\ Entered' = Entered /\ Listed' = Listed
        /\ \A node, group, bus : NodeFits(node, group, bus)' = NodeFits(node, group, bus)
    BY <1>2 DEF Entered, Listed, Addr, NodeFits
  <1>7. \A x : FrameRight(x)' = FrameRight(x)
    BY <1>2, <1>6 DEF FrameRight
  <1>8. TreeTypes' /\ RegionsKnown'
    BY <1>1, <1>2, <1>4, <1>5 DEF TreeTypes, RegionsKnown, DeviceType, BusType
  <1>9. FramesRight'
    BY <1>4, <1>5, <1>7 DEF FramesRight
  <1>10. BusesRight'
    BY <1>1, <1>2, <1>6 DEF BusesRight
  <1>11. ListRight'
    <2>1. \A a \in Present : Visible(a) => (Past(a)' <=> Past(a))
      <3>1. \A a \in Present : a # AtFun(f)
        OBVIOUS
      <3>2. \A a : Past(a)' <=> /\ a[2] \in Entered
                                /\ \A x \in Elements(q) : x.bus = a[2] => Passed(a, x)
        BY <1>5, <1>6 DEF Past, Passed
      <3> QED
        BY <1>4, <3>1, <3>2
    <2> QED
      BY <1>1, <1>2, <1>6, <2>1 DEF ListRight, Addr
  <1> QED
    BY <1>8, <1>9, <1>10, <1>11 DEF TreeInv

\* The bus of the innermost call and its region.
LEMMA GroupLemma ==
  ASSUME TreeInv, frames # <<>>, NEW f, f = Head(frames)
  PROVE  /\ f \in FrameType /\ FrameRight(f)
         /\ f.group \in 1 .. groups /\ f.group \in 1 .. Len(mcfg)
         /\ f.bus \in BusesOf(f.group) /\ f.bus \in Entered
         /\ NodeFits(f.node, f.group, f.bus)
         /\ \A b \in Regions :
              AtFun(f) \in Present /\ machine.functions[AtFun(f)].type = "bridge"
                /\ machine.functions[AtFun(f)].secondary = b
              => b \in BusesOf(f.group) /\ b \in DOMAIN mmio_bases
  <1>1. TreeTypes /\ RegionsKnown /\ FramesRight /\ Topology
    BY TopologyLemma DEF TreeInv, TreeTypes
  <1>2. PICK R : R = Elements(Tail(frames))
    OBVIOUS
  <1>3. f \in FrameType /\ FrameRight(f)
    BY <1>1, <1>2, HeadLemma
  <1>4. Len(mcfg) \in Nat
    BY <1>1, LenProperties DEF Topology
  <1>5. /\ f.group \in 1 .. groups /\ f.group \in 1 .. Len(mcfg)
        /\ f.bus \in BusesOf(f.group) /\ f.bus \in Entered
        /\ NodeFits(f.node, f.group, f.bus)
    BY <1>1, <1>3, <1>4 DEF FrameRight, TreeTypes
  <1>6. ASSUME NEW b \in Regions, AtFun(f) \in Present,
               machine.functions[AtFun(f)].type = "bridge",
               machine.functions[AtFun(f)].secondary = b
        PROVE  b \in BusesOf(f.group) /\ b \in DOMAIN mmio_bases
    <2>1. PICK g \in 1 .. Len(mcfg) : b \in BusesOf(g)
      BY <1>1 DEF Topology
    <2>2. AtFun(f)[2] = f.bus
      BY DEF AtFun
    <2>3. f.bus \in BusesOf(g)
      BY <1>1, <1>6, <2>1, <2>2 DEF Topology
    <2>4. g = f.group
      BY <1>1, <1>5, <2>3 DEF Topology
    <2> QED
      BY <1>1, <1>5, <2>1, <2>4 DEF RegionsKnown
  <1> QED
    BY <1>3, <1>5, <1>6

\* A device, or a bridge to a bus without a region, is listed.
LEMMA ListedStep ==
  ASSUME TreeInv, UNCHANGED <<machine, rsdt>>,
         NEW f, frames # <<>>, f = Head(frames), f.dev < Devs,
         AtFun(f) \in Present,
         ~ (/\ machine.functions[AtFun(f)].type = "bridge"
            /\ machine.functions[AtFun(f)].secondary \in DOMAIN mmio_bases),
         frames' = <<Advanced(f)>> \o Tail(frames),
         pci_devices' = <<Device(AtFun(f), f.node)>> \o pci_devices,
         UNCHANGED <<buses, mmio_bases, groups>>
  PROVE  TreeInv'
  <1>1. TreeTypes /\ RegionsKnown /\ FramesRight /\ BusesRight /\ ListRight
    BY DEF TreeInv
  <1>2. /\ mcfg' = mcfg /\ Present' = Present /\ Regions' = Regions
        /\ \A h : BusesOf(h)' = BusesOf(h)
        /\ \A a : Leads(a)' = Leads(a) /\ Visible(a)' = Visible(a)
        /\ \A B : Closed(B)' = Closed(B)
    BY SameTopology
  <1>3. PICK q, addr, d : /\ q = <<Advanced(f)>> \o Tail(frames) /\ addr = AtFun(f)
                         /\ d = Device(addr, f.node)
    OBVIOUS
  <1>4. /\ q \in Seq(FrameType) /\ Distinct(q)
        /\ \A x \in Elements(q) : FrameRight(x)
        /\ \A x, y \in Elements(q) : x.bus = y.bus => x = y
        /\ \A a \in Present : Visible(a) =>
             (a[2] \in Entered /\ (\A x \in Elements(q) : x.bus = a[2] => Passed(a, x))
                <=> Past(a) \/ a = addr)
        /\ Visible(addr) /\ addr \in Present \ Listed
    BY <1>3, AdvanceLemma
  <1>5. frames' = q /\ Open' = Elements(q)
    BY <1>3 DEF Open
  <1>6. /\ Entered' = Entered
        /\ \A node, group, bus : NodeFits(node, group, bus)' = NodeFits(node, group, bus)
    BY <1>2 DEF Entered, NodeFits
  <1>7. \A x : FrameRight(x)' = FrameRight(x)
    BY <1>2, <1>6 DEF FrameRight
  <1>8. /\ f \in FrameType /\ f.group \in 1 .. Len(mcfg)
        /\ NodeFits(f.node, f.group, f.bus)
        /\ addr[1] = f.group /\ addr[2] = f.bus
    <2>1. /\ f \in FrameType /\ f.group \in 1 .. Len(mcfg)
          /\ NodeFits(f.node, f.group, f.bus)
      BY GroupLemma
    <2> QED
      BY <1>3, <2>1 DEF AtFun
  <1>9. f.node \in 1 .. Len(buses)
    BY <1>8 DEF NodeFits
  <1>10. /\ pci_devices' \in Seq(DeviceType)
         /\ Listed' = Listed \cup {addr}
         /\ \A i, j \in 1 .. Len(pci_devices') : Addr(i)' = Addr(j)' => i = j
         /\ \A i \in 1 .. Len(pci_devices') :
              \/ pci_devices'[i] = d
              \/ \E j \in 1 .. Len(pci_devices) : pci_devices'[i] = pci_devices[j]
    <2>1. PICK n : n = f.node
      OBVIOUS
    <2>2. d = Device(addr, n) /\ pci_devices' = <<d>> \o pci_devices
      BY <1>3, <2>1
    <2>3. TreeTypes /\ ListRight /\ addr \in Present \ Listed /\ n \in 1 .. Len(buses)
      BY <1>1, <1>4, <1>9, <2>1
    <2> QED
      BY <2>2, <2>3, DeviceLemma
  <1>11. TreeTypes' /\ RegionsKnown'
    <2>1. DeviceType' = DeviceType /\ BusType' = BusType
      BY <1>2 DEF DeviceType, BusType
    <2>2. TreeTypes'
      BY <1>1, <1>2, <1>4, <1>5, <1>10, <2>1 DEF TreeTypes
    <2>3. RegionsKnown'
      BY <1>1, <1>2 DEF RegionsKnown
    <2> QED
      BY <2>2, <2>3
  <1>12. FramesRight'
    BY <1>4, <1>5, <1>7 DEF FramesRight
  <1>13. BusesRight'
    <2>1. ~ Leads(addr)
      <3>1. \A b \in Regions :
              machine.functions[addr].type = "bridge"
                /\ machine.functions[addr].secondary = b => b \in DOMAIN mmio_bases
        BY <1>3, GroupLemma
      <3> QED
        BY <1>3, <3>1 DEF Leads
    <2> QED
      BY <1>1, <1>2, <1>6, <1>10, <2>1 DEF BusesRight
  <1>14. ListRight'
    <2>1. \A a \in Present : Visible(a) => (Past(a)' <=> Past(a) \/ a = addr)
      <3>1. \A a : Past(a)' <=> /\ a[2] \in Entered
                                /\ \A x \in Elements(q) : x.bus = a[2] => Passed(a, x)
        BY <1>5, <1>6 DEF Past, Passed
      <3> QED
        BY <1>4, <3>1
    <2>2. \A a \in Present' : a \in Listed' <=> Past(a)' /\ Visible(a)'
      BY <1>1, <1>2, <1>4, <1>10, <2>1 DEF ListRight
    <2>3. ASSUME NEW i \in 1 .. Len(pci_devices')
          PROVE  /\ Addr(i)'[1] \in 1 .. Len(mcfg)
                 /\ NodeFits(pci_devices'[i].node, Addr(i)'[1], Addr(i)'[2])
      <3>1. CASE pci_devices'[i] = d
        <4>1. Addr(i)' = addr /\ pci_devices'[i].node = f.node
          BY <1>3, <3>1 DEF Addr, Device
        <4> QED
          BY <1>8, <4>1
      <3>2. ASSUME NEW j \in 1 .. Len(pci_devices), pci_devices'[i] = pci_devices[j]
            PROVE  /\ Addr(i)'[1] \in 1 .. Len(mcfg)
                   /\ NodeFits(pci_devices'[i].node, Addr(i)'[1], Addr(i)'[2])
        BY <1>1, <3>2 DEF Addr, ListRight
      <3> QED
        BY <1>10, <3>1, <3>2
    <2> QED
      BY <1>2, <1>6, <1>10, <2>2, <2>3 DEF ListRight
  <1> QED
    BY <1>11, <1>12, <1>13, <1>14 DEF TreeInv

LEMMA FramePair ==
  ASSUME NEW x \in FrameType, NEW y \in FrameType, NEW t \in Seq(FrameType)
  PROVE  <<x, y>> \o t = <<x>> \o (<<y>> \o t)
  <1>1. PICK T : T = FrameType
    OBVIOUS
  <1>2. x \in T /\ y \in T /\ t \in Seq(T)
    BY <1>1
  <1> QED
    BY <1>2, PairLemma

OneBusMore(t, e) ==
  /\ t \in Seq(BusType) /\ Len(buses) \in Nat /\ Len(t) = Len(buses) + 1
  /\ t[Len(t)] = e
  /\ \A i \in 1 .. Len(buses) : t[i] = buses[i]

\* One element more at the end of the buses.
LEMMA AppendBus ==
  ASSUME TreeTypes, NEW e \in BusType, NEW t, t = Append(buses, e)
  PROVE  OneBusMore(t, e)
  <1>1. buses \in Seq(BusType) /\ Len(buses) \in Nat
    BY LenProperties DEF TreeTypes
  <1> QED
    BY <1>1, AppendProperties DEF OneBusMore

\* A bridge to a bus with a region is listed, and its bus is entered.
LEMMA ChildStep ==
  ASSUME TreeInv, UNCHANGED <<machine, rsdt>>,
         NEW f, frames # <<>>, f = Head(frames), f.dev < Devs,
         AtFun(f) \in Present,
         NEW s, s = machine.functions[AtFun(f)].secondary,
         machine.functions[AtFun(f)].type = "bridge", s \in DOMAIN mmio_bases,
         frames' = <<Frame(mmio_bases[s], s, Len(buses) + 1), Advanced(f)>> \o Tail(frames),
         buses' = Append(buses, [bus |-> s, bridge |-> AtFun(f)]),
         pci_devices' = <<Device(AtFun(f), f.node)>> \o pci_devices,
         UNCHANGED <<mmio_bases, groups>>
  PROVE  TreeInv'
  <1>1. TreeTypes /\ RegionsKnown /\ FramesRight /\ BusesRight /\ ListRight
    BY DEF TreeInv
  <1>2. /\ mcfg' = mcfg /\ Present' = Present /\ Regions' = Regions
        /\ \A g : BusesOf(g)' = BusesOf(g)
        /\ \A a : Leads(a)' = Leads(a) /\ Visible(a)' = Visible(a)
        /\ \A B : Closed(B)' = Closed(B)
    BY SameTopology
  <1>3. PICK q, addr, d, c, e, len :
          /\ q = <<Advanced(f)>> \o Tail(frames) /\ addr = AtFun(f)
          /\ d = Device(addr, f.node) /\ len = Len(buses)
          /\ c = Frame(mmio_bases[s], s, len + 1)
          /\ e = [bus |-> s, bridge |-> addr]
    OBVIOUS
  <1>4. Topology
    BY <1>1, TopologyLemma DEF TreeTypes
  <1>5. /\ q \in Seq(FrameType) /\ Distinct(q) /\ Advanced(f) \in FrameType
        /\ \A x \in Elements(q) : FrameRight(x)
        /\ \A x, y \in Elements(q) : x.bus = y.bus => x = y
        /\ \A a \in Present : Visible(a) =>
             (a[2] \in Entered /\ (\A x \in Elements(q) : x.bus = a[2] => Passed(a, x))
                <=> Past(a) \/ a = addr)
        /\ Visible(addr) /\ addr \in Present \ Listed
    BY <1>3, AdvanceLemma
  <1>6. /\ f \in FrameType /\ f.group \in 1 .. Len(mcfg) /\ f.bus \in Entered
        /\ NodeFits(f.node, f.group, f.bus)
        /\ addr[1] = f.group /\ addr[2] = f.bus
    <2>1. /\ f \in FrameType /\ f.group \in 1 .. Len(mcfg) /\ f.bus \in Entered
          /\ NodeFits(f.node, f.group, f.bus)
      BY GroupLemma
    <2> QED
      BY <1>3, <2>1 DEF AtFun
  <1>7. f.node \in 1 .. Len(buses)
    BY <1>6 DEF NodeFits
  <1>8. /\ pci_devices' \in Seq(DeviceType)
        /\ Listed' = Listed \cup {addr}
        /\ \A i, j \in 1 .. Len(pci_devices') : Addr(i)' = Addr(j)' => i = j
        /\ \A i \in 1 .. Len(pci_devices') :
             \/ pci_devices'[i] = d
             \/ \E j \in 1 .. Len(pci_devices) : pci_devices'[i] = pci_devices[j]
    <2>1. PICK n : n = f.node
      OBVIOUS
    <2>2. d = Device(addr, n) /\ pci_devices' = <<d>> \o pci_devices
      BY <1>3, <2>1
    <2>3. TreeTypes /\ ListRight /\ addr \in Present \ Listed /\ n \in 1 .. Len(buses)
      BY <1>1, <1>5, <1>7, <2>1
    <2> QED
      BY <2>2, <2>3, DeviceLemma, SMTT(60)
  \* The bus of the bridge.
  <1> PICK h : h = mmio_bases[s]
    OBVIOUS
  <1>9. /\ h = mmio_bases[s] /\ h \in 1 .. groups /\ h \in 1 .. Len(mcfg)
        /\ s \in BusesOf(h) /\ s \in Nat /\ s \in Regions /\ h \in Nat
    <2>1. h \in 1 .. groups /\ s \in BusesOf(h)
      BY <1>1 DEF RegionsKnown
    <2>2. Len(mcfg) \in Nat
      BY <1>4, LenProperties DEF Topology
    <2>3. h \in 1 .. Len(mcfg)
      BY <1>1, <2>1, <2>2 DEF TreeTypes
    <2>4. BusesOf(h) \subseteq Nat /\ BusesOf(h) \subseteq Regions
      BY <1>4, <2>3, SMTT(30) DEF Topology
    <2>5. h \in Nat
      BY <2>2, <2>3
    <2> QED
      BY <2>1, <2>3, <2>4, <2>5
  <1>10. s \notin Entered
    <2> SUFFICES ASSUME s \in Entered PROVE FALSE
      OBVIOUS
    <2>1. /\ addr \in Present /\ machine.functions[addr].type = "bridge"
          /\ machine.functions[addr].secondary = s
      BY <1>3, <1>5
    <2>2. ASSUME NEW g \in 1 .. groups, s = mcfg[g].start PROVE FALSE
      <3>1. g \in 1 .. Len(mcfg)
        BY <1>1, <1>4, <2>2, LenProperties DEF TreeTypes, Topology
      <3>2. s \in BusesOf(g)
        BY <1>4, <2>2, <3>1 DEF Topology
      <3> QED
        BY <1>4, <2>1, <2>2, <3>1, <3>2 DEF Topology
    <2>3. ASSUME NEW b \in Listed, machine.functions[b].type = "bridge",
                 machine.functions[b].secondary = s
          PROVE  FALSE
      <3>1. b \in Present
        BY <1>1, ListedLemma
      <3>2. b = addr
        BY <1>4, <1>9, <2>1, <2>3, <3>1, BridgeLemma
      <3> QED
        BY <1>5, <2>3, <3>2
    <2> QED
      BY <1>1, <2>2, <2>3, EnteredLemma
  <1>11. /\ c.group = h /\ c.bus = s /\ c.node = len + 1 /\ c.dev = 0 /\ c.fun = 0
    BY <1>3, <1>9 DEF Frame
  <1>12. e \in BusType /\ e.bus = s /\ e.bridge = addr
    BY <1>3, <1>5, <1>9 DEF BusType
  <1>13. /\ buses' \in Seq(BusType) /\ len \in Nat /\ Len(buses') = len + 1
         /\ buses'[len + 1] = e
         /\ \A i \in 1 .. len : buses'[i] = buses[i]
    <2>1. PICK t : t = Append(buses, e) /\ t = buses'
      BY <1>3
    <2>2. OneBusMore(t, e)
      BY <1>1, <1>12, <2>1, AppendBus, Zenon
    <2> QED
      BY <1>3, <2>1, <2>2 DEF OneBusMore
  <1>14. c \in FrameType
    <2>1. 0 \in 0 .. Devs /\ 0 \in 0 .. Funs - 1 /\ len + 1 \in Nat
      BY <1>13, PciAssumption
    <2> QED
      BY <1>3, <1>9, <2>1 DEF Frame, FrameType
  <1>15. frames' = <<c>> \o q
    <2>1. PICK n, t : n = Advanced(f) /\ t = Tail(frames)
      OBVIOUS
    <2>2. t \in Seq(FrameType) /\ n \in FrameType
      BY <1>1, <1>5, <2>1, TailLemma DEF TreeTypes
    <2>3. frames' = <<c, n>> \o t /\ q = <<n>> \o t
      BY <1>3, <2>1
    <2>4. <<c, n>> \o t = <<c>> \o (<<n>> \o t)
      BY <1>14, <2>2, FramePair
    <2> QED
      BY <2>3, <2>4
  <1>16. /\ frames' \in Seq(FrameType) /\ Open' = {c} \cup Elements(q)
         /\ c \notin Elements(q) => Distinct(frames')
    <2>1. PICK fs : fs = <<c>> \o q /\ fs = frames'
      BY <1>15
    <2>2. /\ fs \in Seq(FrameType) /\ Elements(fs) = {c} \cup Elements(q)
          /\ c \notin Elements(q) => Distinct(fs)
      BY <1>5, <1>14, <2>1, ConsLemma
    <2> QED
      BY <2>1, <2>2 DEF Open
  <1>17. \A x \in Elements(q) : x.bus \in Entered
    BY <1>5 DEF FrameRight
  <1>18. c \notin Elements(q) /\ Distinct(frames')
    BY <1>10, <1>11, <1>16, <1>17
  \* What was entered and fits still does.
  <1>19. Entered' = Entered \cup {s}
    <2>1. /\ 2 .. len + 1 = 2 .. len \cup {len + 1}
          /\ \A i \in 2 .. len : i \in 1 .. len
      <3>1. len >= 1
        BY <1>1, <1>3 DEF TreeTypes
      <3> QED
        BY <1>13, <3>1
    <2>2. \A i \in 2 .. len : buses'[i] = buses[i]
      BY <1>13, <2>1
    <2>3. {buses'[i].bus : i \in 2 .. len + 1} = {buses[i].bus : i \in 2 .. len} \cup {s}
      BY <1>12, <1>13, <2>1, <2>2
    <2>4. PICK S, U, V : /\ S = {mcfg[g].start : g \in 1 .. groups}
                         /\ U = {buses[i].bus : i \in 2 .. len}
                         /\ V = {buses'[i].bus : i \in 2 .. len + 1}
      OBVIOUS
    <2>5. Entered = S \cup U
      BY <1>3, <2>4 DEF Entered
    <2>6. Entered' = S \cup V
      BY <1>2, <1>13, <2>4 DEF Entered
    <2> QED
      BY <2>3, <2>4, <2>5, <2>6
  <1>20. ASSUME NEW node, NEW group, NEW bus, NodeFits(node, group, bus)
         PROVE  NodeFits(node, group, bus)'
    <2>1. node \in 1 .. len
      BY <1>3, <1>20 DEF NodeFits
    <2>2. node \in 1 .. Len(buses') /\ buses'[node] = buses[node]
      BY <1>13, <2>1
    <2> QED
      BY <1>2, <1>20, <2>2 DEF NodeFits
  <1>21. ASSUME NEW x, FrameRight(x) PROVE FrameRight(x)'
    BY <1>2, <1>19, <1>20, <1>21 DEF FrameRight
  <1>22. FrameRight(c)'
    <2>1. addr # <<>>
      BY <1>3 DEF AtFun
    <2>2. len + 1 \in 1 .. Len(buses')
      BY <1>13
    <2>3. NodeFits(len + 1, h, s)'
      BY <1>3, <1>12, <1>13, <2>1, <2>2 DEF NodeFits
    <2> QED
      BY <1>2, <1>9, <1>11, <1>19, <2>3 DEF FrameRight
  <1>23. TreeTypes' /\ RegionsKnown'
    <2>1. DeviceType' = DeviceType /\ BusType' = BusType
      BY <1>2 DEF DeviceType, BusType
    <2>2. Len(buses') >= 1 /\ buses'[1].bridge = <<>>
      BY <1>1, <1>3, <1>13 DEF TreeTypes
    <2>3. TreeTypes'
      BY <1>1, <1>2, <1>8, <1>13, <1>16, <2>1, <2>2 DEF TreeTypes
    <2>4. RegionsKnown'
      BY <1>1, <1>2 DEF RegionsKnown
    <2> QED
      BY <2>3, <2>4
  <1>24. FramesRight'
    <2>1. \A x \in Open' : FrameRight(x)'
      BY <1>5, <1>16, <1>21, <1>22
    <2>2. \A x, y \in Open' : x.bus = y.bus => x = y
      BY <1>5, <1>10, <1>11, <1>16, <1>17
    <2> QED
      BY <1>18, <2>1, <2>2 DEF FramesRight
  <1>25. BusesRight'
    <2>1. \A i \in 2 .. Len(buses') :
            \/ i \in 2 .. len /\ buses'[i] = buses[i]
            \/ buses'[i] = e
      BY <1>13
    <2>2. Leads(addr)
      BY <1>3, <1>9 DEF Leads
    <2>3. \A i \in 2 .. Len(buses') :
            /\ buses'[i].bridge \in Listed' /\ Leads(buses'[i].bridge)
            /\ machine.functions[buses'[i].bridge].secondary = buses'[i].bus
      <3> SUFFICES ASSUME NEW i \in 2 .. Len(buses')
                   PROVE  /\ buses'[i].bridge \in Listed' /\ Leads(buses'[i].bridge)
                          /\ machine.functions[buses'[i].bridge].secondary = buses'[i].bus
        OBVIOUS
      <3>1. CASE i \in 2 .. len /\ buses'[i] = buses[i]
        <4>1. i \in 2 .. Len(buses)
          BY <1>3, <3>1
        <4>2. /\ buses[i].bridge \in Listed /\ Leads(buses[i].bridge)
              /\ machine.functions[buses[i].bridge].secondary = buses[i].bus
          BY <1>1, <4>1 DEF BusesRight
        <4>3. Listed \subseteq Listed'
          BY <1>8
        <4> QED
          BY <3>1, <4>2, <4>3
      <3>2. CASE buses'[i] = e
        BY <1>3, <1>8, <1>12, <2>2, <3>2
      <3> QED
        BY <2>1, <3>1, <3>2
    <2>4. \A a \in Listed' : Leads(a) => machine.functions[a].secondary \in Entered'
      BY <1>1, <1>3, <1>8, <1>19 DEF BusesRight
    <2>5. ASSUME NEW B \in SUBSET Regions, Closed(B) PROVE Entered' \subseteq B
      <3>1. f.bus \in B
        BY <1>1, <1>6, <2>5 DEF BusesRight
      <3>2. s \in B
        BY <1>3, <1>5, <1>6, <1>9, <2>5, <3>1 DEF Closed
      <3> QED
        BY <1>1, <1>19, <2>5, <3>2 DEF BusesRight
    <2>6. Entered' \subseteq Regions
      BY <1>1, <1>9, <1>19 DEF BusesRight
    <2> QED
      BY <1>2, <2>3, <2>4, <2>5, <2>6 DEF BusesRight
  <1>26. ListRight'
    <2>1. ASSUME NEW a \in Present, Visible(a) PROVE Past(a)' <=> Past(a) \/ a = addr
      <3>1. Past(a)' <=> /\ a[2] \in Entered \cup {s}
                         /\ \A x \in {c} \cup Elements(q) : x.bus = a[2] => Passed(a, x)
        BY <1>16, <1>19 DEF Past, Passed
      <3>2. CASE a[2] = s
        <4>1. ~ Passed(a, c)
          <5>1. a[3] \in Nat /\ a[4] \in Nat
            BY <1>4 DEF Topology, Addresses
          <5> QED
            BY <1>11, <5>1 DEF Passed
        <4>2. ~ Past(a) /\ a # addr
          BY <1>6, <1>10, <3>2 DEF Past
        <4> QED
          BY <1>11, <3>1, <3>2, <4>1, <4>2
      <3>3. CASE a[2] # s
        <4>1. Past(a)' <=> /\ a[2] \in Entered
                           /\ \A x \in Elements(q) : x.bus = a[2] => Passed(a, x)
          BY <1>11, <3>1, <3>3
        <4> QED
          BY <1>5, <2>1, <4>1
      <3> QED
        BY <3>2, <3>3
    <2>2. \A a \in Present' : a \in Listed' <=> Past(a)' /\ Visible(a)'
      BY <1>1, <1>2, <1>5, <1>8, <2>1 DEF ListRight
    <2>3. ASSUME NEW i \in 1 .. Len(pci_devices')
          PROVE  /\ Addr(i)'[1] \in 1 .. Len(mcfg)
                 /\ NodeFits(pci_devices'[i].node, Addr(i)'[1], Addr(i)'[2])
      <3>1. CASE pci_devices'[i] = d
        <4>1. Addr(i)' = addr /\ pci_devices'[i].node = f.node
          BY <1>3, <3>1 DEF Addr, Device
        <4> QED
          BY <1>6, <4>1
      <3>2. ASSUME NEW j \in 1 .. Len(pci_devices), pci_devices'[i] = pci_devices[j]
            PROVE  /\ Addr(i)'[1] \in 1 .. Len(mcfg)
                   /\ NodeFits(pci_devices'[i].node, Addr(i)'[1], Addr(i)'[2])
        BY <1>1, <3>2 DEF Addr, ListRight
      <3> QED
        BY <1>8, <3>1, <3>2
    <2>4. ASSUME NEW i \in 1 .. Len(pci_devices')
          PROVE  NodeFits(pci_devices[i].node, Addr(i)[1], Addr(i)[2])'
      <3>1. PICK node, group, bus : /\ node = pci_devices'[i].node
                                    /\ group = Addr(i)'[1] /\ bus = Addr(i)'[2]
        OBVIOUS
      <3>2. NodeFits(node, group, bus)'
        BY <1>20, <2>3, <3>1
      <3> QED
        BY <3>1, <3>2 DEF NodeFits, Addr
    <2> QED
      BY <1>2, <1>8, <2>2, <2>3, <2>4 DEF ListRight
  <1> QED
    BY <1>23, <1>24, <1>25, <1>26 DEF TreeInv

\* A call that is done with its bus returns.
LEMMA ReturnStep ==
  ASSUME TreeInv, Return, UNCHANGED <<machine, rsdt>>
  PROVE  TreeInv'
  <1>1. TreeTypes /\ RegionsKnown /\ FramesRight /\ BusesRight /\ ListRight
    BY DEF TreeInv
  <1>2. /\ mcfg' = mcfg /\ Present' = Present /\ Regions' = Regions
        /\ \A h : BusesOf(h)' = BusesOf(h)
        /\ \A a : Leads(a)' = Leads(a) /\ Visible(a)' = Visible(a)
        /\ \A B : Closed(B)' = Closed(B)
    BY SameTopology
  <1>3. PICK f, R : f = Head(frames) /\ R = Elements(Tail(frames))
    OBVIOUS
  <1>4. /\ frames # <<>> /\ f.dev = Devs /\ frames' = Tail(frames)
        /\ UNCHANGED <<mmio_bases, pci_devices, buses, groups>>
    BY <1>3 DEF Return
  <1>5. /\ f \in FrameType /\ FrameRight(f)
        /\ Tail(frames) \in Seq(FrameType) /\ Distinct(Tail(frames))
        /\ Open = {f} \cup R
        /\ \A x \in R : FrameRight(x) /\ x.bus # f.bus
        /\ \A x, y \in R : x.bus = y.bus => x = y
    BY <1>1, <1>3, <1>4, HeadLemma
  <1>6. Open' = R
    BY <1>3, <1>4 DEF Open
  <1>7. /\ Entered' = Entered /\ Listed' = Listed
        /\ \A node, group, bus : NodeFits(node, group, bus)' = NodeFits(node, group, bus)
    BY <1>2, <1>4 DEF Entered, Listed, Addr, NodeFits
  <1>8. \A x : FrameRight(x)' = FrameRight(x)
    BY <1>2, <1>4, <1>7 DEF FrameRight
  <1>9. TreeTypes' /\ RegionsKnown'
    <2>1. DeviceType' = DeviceType /\ BusType' = BusType
      BY <1>2 DEF DeviceType, BusType
    <2>2. TreeTypes'
      BY <1>1, <1>2, <1>4, <1>5, <2>1 DEF TreeTypes
    <2>3. RegionsKnown'
      BY <1>1, <1>2, <1>4 DEF RegionsKnown
    <2> QED
      BY <2>2, <2>3
  <1>10. FramesRight'
    BY <1>4, <1>5, <1>6, <1>8 DEF FramesRight
  <1>11. BusesRight'
    BY <1>1, <1>2, <1>4, <1>7 DEF BusesRight
  <1>12. ListRight'
    <2>1. ASSUME NEW a \in Present PROVE Past(a)' <=> Past(a)
      <3>1. Passed(a, f)
        <4>1. a[3] \in 0 .. Devs - 1
          BY <1>1, TopologyLemma DEF TreeTypes, Topology, Addresses
        <4> QED
          BY <1>4, <4>1, PciAssumption DEF Passed
      <3>2. Past(a)' <=> a[2] \in Entered /\ \A x \in R : x.bus = a[2] => Passed(a, x)
        BY <1>6, <1>7 DEF Past, Passed
      <3> QED
        BY <1>5, <3>1, <3>2 DEF Past
    <2> QED
      BY <1>1, <1>2, <1>4, <1>7, <2>1 DEF ListRight, Addr
  <1> QED
    BY <1>9, <1>10, <1>11, <1>12 DEF TreeInv

\* A device has the number of its node, and the root the number 0.
NumbersRight ==
  /\ \A i \in 1 .. Len(buses) : buses[i].bridge = <<>> => buses[i].bus = 0
  /\ \A i \in 1 .. Len(pci_devices) : pci_devices[i].bus = buses[pci_devices[i].node].bus

LEMMA NumbersStep ==
  ASSUME TreeInv, NumbersRight, pci_check_func
  PROVE  NumbersRight'
  <1>1. TreeTypes /\ RegionsKnown /\ ListRight /\ frames # <<>> /\ Topology
    BY TopologyLemma DEF TreeInv, TreeTypes, pci_check_func
  <1>2. PICK f, a, s, t : /\ f = Head(frames) /\ a = AtFun(f)
                          /\ s = pci_devices' /\ t = buses'
    OBVIOUS
  <1>3. f.node \in 1 .. Len(buses)
    BY <1>1, <1>2, GroupLemma DEF FrameRight, NodeFits
  <1>4. /\ pci_devices \in Seq(DeviceType) /\ Len(pci_devices) \in Nat /\ Len(buses) \in Nat
        /\ \A i \in 1 .. Len(pci_devices) : pci_devices[i].node \in 1 .. Len(buses)
        /\ \A i \in 1 .. Len(buses) : buses[i] \in BusType
    BY <1>1, LenProperties, ListedLemma DEF TreeTypes, ListRight, NodeFits
  <1>5. /\ t = buses \/ \E b \in DOMAIN mmio_bases :
             a \in Present /\ t = Append(buses, [bus |-> b, bridge |-> a])
        /\ s = pci_devices \/ (a \in Present /\ s = <<Device(a, f.node)>> \o pci_devices)
    BY <1>2 DEF pci_check_func, AtFun, Present
  <1>6. /\ Len(buses) <= Len(t) /\ \A i \in 1 .. Len(buses) : t[i] = buses[i]
        /\ \A i \in 1 .. Len(t) : t[i].bridge = <<>> => t[i].bus = 0
    <2>1. CASE t = buses
      BY <1>4, <2>1 DEF NumbersRight
    <2>2. ASSUME NEW b \in DOMAIN mmio_bases, a \in Present,
                 t = Append(buses, [bus |-> b, bridge |-> a])
          PROVE  /\ Len(buses) <= Len(t) /\ \A i \in 1 .. Len(buses) : t[i] = buses[i]
                 /\ \A i \in 1 .. Len(t) : t[i].bridge = <<>> => t[i].bus = 0
      <3>1. PICK e : e = [bus |-> b, bridge |-> a]
        OBVIOUS
      <3>2. b \in Nat
        <4>1. PICK g \in 1 .. groups : b \in BusesOf(g)
          BY <1>1, <2>2 DEF RegionsKnown
        <4>2. g \in 1 .. Len(mcfg)
          BY <1>1, <4>1 DEF TreeTypes
        <4> QED
          BY <1>1, <4>1, <4>2 DEF Topology
      <3>3. OneBusMore(t, e)
        <4>1. e \in BusType
          BY <2>2, <3>1, <3>2 DEF BusType
        <4> QED
          BY <1>1, <2>2, <3>1, <4>1, AppendBus
      <3>4. a # <<>> /\ e.bridge = a
        BY <1>2, <3>1 DEF AtFun
      <3>5. \A i \in 1 .. Len(t) : i \in 1 .. Len(buses) \/ i = Len(t)
        BY <1>4, <3>3 DEF OneBusMore
      <3> QED
        BY <1>4, <3>3, <3>4, <3>5 DEF OneBusMore, NumbersRight
    <2> QED
      BY <1>5, <2>1, <2>2
  <1>7. \A i \in 1 .. Len(s) : s[i].node \in 1 .. Len(buses)
                              /\ s[i].bus = buses[s[i].node].bus
    <2>1. CASE s = pci_devices
      BY <1>4, <2>1 DEF NumbersRight
    <2>2. CASE a \in Present /\ s = <<Device(a, f.node)>> \o pci_devices
      <3>1. PICK d : d = Device(a, f.node)
        OBVIOUS
      <3>2. d \in DeviceType /\ d.node = f.node /\ d.bus = buses[f.node].bus
        <4>1. f.node \in Nat /\ buses[f.node] \in BusType
          BY <1>3, <1>4
        <4> QED
          BY <2>2, <3>1, <4>1 DEF Device, DeviceType, BusType, NoDriver
      <3>3. /\ Len(s) = Len(pci_devices) + 1 /\ s[1] = d
            /\ \A i \in 1 .. Len(pci_devices) : s[i + 1] = pci_devices[i]
        BY <1>4, <2>2, <3>1, <3>2, ConsLemma
      <3> SUFFICES ASSUME NEW i \in 1 .. Len(s)
                   PROVE  /\ s[i].node \in 1 .. Len(buses)
                          /\ s[i].bus = buses[s[i].node].bus
        OBVIOUS
      <3>4. CASE i = 1
        BY <1>3, <3>2, <3>3, <3>4
      <3>5. CASE i # 1
        <4>1. i - 1 \in 1 .. Len(pci_devices) /\ (i - 1) + 1 = i
          BY <1>4, <3>3, <3>5
        <4>2. s[i] = pci_devices[i - 1]
          BY <3>3, <4>1
        <4> QED
          BY <1>4, <4>1, <4>2 DEF NumbersRight
      <3> QED
        BY <3>4, <3>5
    <2> QED
      BY <1>5, <2>1, <2>2
  <1>8. \A i \in 1 .. Len(s) : s[i].bus = t[s[i].node].bus
    BY <1>6, <1>7
  <1> QED
    BY <1>2, <1>6, <1>8 DEF NumbersRight

\* Nor does a driver change them.
LEMMA NumbersKept ==
  ASSUME TreeInv, NumbersRight, UNCHANGED buses,
         \/ UNCHANGED pci_devices
         \/ pci_devices' = [pci_devices EXCEPT ![probe].driver = "nvme"]
  PROVE  NumbersRight'
  <1>1. PICK s, n : s = pci_devices' /\ n = Len(pci_devices)
    OBVIOUS
  <1>2. n \in Nat /\ pci_devices \in [1 .. n -> DeviceType]
    <2>1. pci_devices \in Seq(DeviceType)
      BY DEF TreeInv, TreeTypes
    <2> QED
      BY <1>1, <2>1, LenProperties, SeqDef, ElementOfSeq
  <1>3. /\ s \in [1 .. n -> DeviceType]
        /\ \A i \in 1 .. n : s[i].bus = pci_devices[i].bus /\ s[i].node = pci_devices[i].node
    BY <1>1, <1>2, SMTT(30) DEF DeviceType
  <1>4. Len(s) = n
    BY <1>2, <1>3, FunctionIsSeq
  <1> QED
    BY <1>1, <1>3, <1>4 DEF NumbersRight

LEMMA CheckFuncStep ==
  ASSUME TreeInv, pci_check_func, UNCHANGED <<machine, rsdt>>
  PROVE  TreeInv'
  <1>1. PICK f, s : f = Head(frames) /\ s = machine.functions[AtFun(f)].secondary
    OBVIOUS
  <1>2. /\ frames # <<>> /\ f.dev < Devs /\ UNCHANGED <<mmio_bases, groups>>
    BY <1>1 DEF pci_check_func
  <1>3. CASE AtFun(f) \notin Present
    <2>1. Advanced(f) = Onwards(f, FALSE)
      BY <1>3, AdvancedLemma
    <2>2. /\ frames' = <<Advanced(f)>> \o Tail(frames)
          /\ UNCHANGED <<pci_devices, buses>>
      BY <1>1, <1>3, <2>1 DEF pci_check_func, AtFun, Present
    <2> QED
      BY <1>1, <1>2, <1>3, <2>2, AbsentStep
  <1>4. CASE AtFun(f) \in Present
    <2>1. Advanced(f) = Onwards(f, machine.functions[AtFun(f)].multi)
      BY <1>4, AdvancedLemma
    <2>2. pci_devices' = <<Device(AtFun(f), f.node)>> \o pci_devices
      BY <1>1, <1>4 DEF pci_check_func, AtFun, Present
    <2>3. CASE machine.functions[AtFun(f)].type = "bridge" /\ s \in DOMAIN mmio_bases
      <3>1. /\ frames' = <<Frame(mmio_bases[s], s, Len(buses) + 1), Advanced(f)>>
                            \o Tail(frames)
            /\ buses' = Append(buses, [bus |-> s, bridge |-> AtFun(f)])
        BY <1>1, <1>4, <2>1, <2>3 DEF pci_check_func, AtFun, Present, Child
      <3> QED
        BY <1>1, <1>2, <1>4, <2>2, <2>3, <3>1, ChildStep
    <2>4. CASE ~ (machine.functions[AtFun(f)].type = "bridge"
                    /\ s \in DOMAIN mmio_bases)
      <3>1. frames' = <<Advanced(f)>> \o Tail(frames) /\ UNCHANGED buses
        BY <1>1, <1>4, <2>1, <2>4 DEF pci_check_func, AtFun, Present
      <3> QED
        BY <1>1, <1>2, <1>4, <2>2, <2>4, <3>1, ListedStep
    <2> QED
      BY <2>3, <2>4
  <1> QED
    BY <1>3, <1>4

\* A driver that is found leaves the tree as it is.
LEMMA DriverStep ==
  ASSUME TreeInv, UNCHANGED <<machine, rsdt, mmio_bases, buses, frames, groups>>,
         \/ UNCHANGED pci_devices
         \/ pci_devices' = [pci_devices EXCEPT ![probe].driver = "nvme"]
  PROVE  TreeInv'
  <1>1. TreeTypes /\ RegionsKnown /\ FramesRight /\ BusesRight /\ ListRight
    BY DEF TreeInv
  <1>2. /\ mcfg' = mcfg /\ Present' = Present /\ Regions' = Regions
        /\ \A h : BusesOf(h)' = BusesOf(h)
        /\ \A a : Leads(a)' = Leads(a) /\ Visible(a)' = Visible(a)
        /\ \A B : Closed(B)' = Closed(B)
    BY SameTopology
  <1>3. DeviceType' = DeviceType /\ BusType' = BusType
    BY <1>2 DEF DeviceType, BusType
  <1>4. PICK s, n : s = pci_devices' /\ n = Len(pci_devices)
    OBVIOUS
  <1>5. /\ n \in Nat /\ pci_devices \in [1 .. n -> DeviceType]
    <2>1. pci_devices \in Seq(DeviceType)
      BY <1>1 DEF TreeTypes
    <2> QED
      BY <1>4, <2>1, LenProperties, SeqDef, ElementOfSeq
  <1>6. /\ s \in [1 .. n -> DeviceType]
        /\ \A i \in 1 .. n : s[i].addr = pci_devices[i].addr /\ s[i].node = pci_devices[i].node
    BY <1>4, <1>5, SMTT(30) DEF DeviceType
  <1>7. s \in Seq(DeviceType) /\ Len(s) = n
    BY <1>5, <1>6, FunctionIsSeq
  <1>8. /\ Len(pci_devices') = Len(pci_devices)
        /\ \A i \in 1 .. Len(pci_devices) :
             Addr(i)' = Addr(i) /\ pci_devices'[i].node = pci_devices[i].node
    BY <1>4, <1>6, <1>7 DEF Addr
  <1>9. /\ Entered' = Entered /\ Open' = Open
        /\ \A node, group, bus : NodeFits(node, group, bus)' = NodeFits(node, group, bus)
    BY <1>2 DEF Entered, Open, NodeFits
  <1>10. Listed' = Listed
    <2>1. Listed' = {Addr(i)' : i \in 1 .. Len(pci_devices)}
      BY <1>8 DEF Listed
    <2> QED
      BY <1>8, <2>1 DEF Listed
  <1>11. \A x : FrameRight(x)' = FrameRight(x)
    BY <1>2, <1>9 DEF FrameRight
  <1>12. TreeTypes' /\ RegionsKnown'
    <2>1. TreeTypes'
      BY <1>1, <1>2, <1>3, <1>4, <1>7 DEF TreeTypes
    <2>2. RegionsKnown'
      BY <1>1, <1>2 DEF RegionsKnown
    <2> QED
      BY <2>1, <2>2
  <1>13. FramesRight'
    BY <1>1, <1>9, <1>11 DEF FramesRight
  <1>14. BusesRight'
    BY <1>1, <1>2, <1>9, <1>10 DEF BusesRight
  <1>15. ListRight'
    <2>1. \A a : Past(a)' <=> Past(a)
      BY <1>9 DEF Past
    <2>2. \A i \in 1 .. Len(pci_devices') :
            NodeFits(pci_devices[i].node, Addr(i)[1], Addr(i)[2])'
      <3> SUFFICES ASSUME NEW i \in 1 .. Len(pci_devices')
                   PROVE  NodeFits(pci_devices[i].node, Addr(i)[1], Addr(i)[2])'
        OBVIOUS
      <3>1. PICK node, group, bus : /\ node = pci_devices[i].node
                                    /\ group = Addr(i)[1] /\ bus = Addr(i)[2]
        OBVIOUS
      <3>2. NodeFits(node, group, bus)'
        BY <1>1, <1>8, <1>9, <3>1 DEF ListRight
      <3> QED
        BY <1>8, <3>1, <3>2 DEF NodeFits, Addr
    <2> QED
      BY <1>1, <1>2, <1>8, <1>10, <2>1, <2>2 DEF ListRight
  <1> QED
    BY <1>12, <1>13, <1>14, <1>15 DEF TreeInv

\* The stages in front of the enumeration; and in them nothing is enumerated.
PreStages ==
  Calibrating \cup {"memory_map", "mman", "page_tables", "reclaim", "vmem", "acpi", "rsdp"}

PciInv ==
  /\ TreeInv /\ NumbersRight
  /\ stage \in PreStages => PciInit
  /\ stage \in Driving => frames = <<>> /\ groups = Len(mcfg)

SameSide ==
  /\ stage' \in PreStages => stage \in PreStages
  /\ stage' \in Driving => stage \in Driving

\* Only acpi_init looks for the root table, only PCI's steps enumerate, and only
\* nvme_attach sets a driver.
LEMMA PartsLemma ==
  /\ Start \/ Time \/ Mman \/ Ps2Step(Ps2Next) \/ Ps2Step(Peripherals)
       => SameSide /\ UNCHANGED <<rsdt, pciVars>>
  /\ ACPI => /\ stage \in {"acpi", "rsdp"}
             /\ stage' \in {"rsdp", "pci", "panic", "page_fault"} /\ UNCHANGED pciVars
  /\ NVMeStep(NvmeNext) \/ NVMeStep(Controller) \/ NVMeStep(Tick) =>
       /\ SameSide /\ UNCHANGED <<rsdt, mmio_bases, buses, frames, groups>>
       /\ \/ UNCHANGED pci_devices
          \/ pci_devices' = [pci_devices EXCEPT ![probe].driver = "nvme"]
  <1>1. Start => SameSide /\ UNCHANGED <<rsdt, pciVars>>
    BY DEF Start, kinit, MemoryMap, LostAccess, At, Go, SameSide, PreStages, Calibrating,
           Driving, acpiVars
  <1>2. Time => SameSide /\ UNCHANGED <<rsdt, pciVars>>
    BY DEF Time, ClockNext, time_init, hlt, MaskTimer, TimerInterrupt, AfterFirstHlt,
           At, Go, SameSide, PreStages, Calibrating, Driving, acpiVars
  <1>3. Mman => SameSide /\ UNCHANGED <<rsdt, pciVars>>
    BY DEF Mman, MemNext, BuildStores, MapMemory, Reclaim, vmem_init, At, Go, SameSide,
           PreStages, Calibrating, Driving, acpiVars
  <1>4. Ps2Step(Ps2Next) => SameSide /\ UNCHANGED <<rsdt, pciVars>>
    BY DEF Ps2Step, Ps2Next, ps2_init, ResetKeyboard, ReadFirst, ReadSecond,
           ps2_register_kbd_isr, ReadConfig, At, Go, SameSide, PreStages, Calibrating,
           Driving, acpiVars
  <1>5. Ps2Step(Peripherals) => SameSide /\ UNCHANGED <<rsdt, pciVars>>
    BY DEF Ps2Step, Peripherals, KbdInterrupt, Reply, KbdByte, KeyPress, Arrive,
           SameSide, acpiVars
  <1>6. ACPI => /\ stage \in {"acpi", "rsdp"}
                /\ stage' \in {"rsdp", "pci", "panic", "page_fault"} /\ UNCHANGED pciVars
    BY AcpiSteps DEF ACPI
  <1>7. NvmeNext =>
          /\ SameSide
          /\ \/ UNCHANGED pci_devices
             \/ pci_devices' = [pci_devices EXCEPT ![probe].driver = "nvme"]
    <2>1. nvme_attach \/ WaitDisabled \/ nvme_enable \/ WaitEnabled \/ CheckAnswer
            \/ NvmeDone => SameSide /\ UNCHANGED pci_devices
      BY DEF nvme_attach, WaitDisabled, nvme_enable, WaitEnabled, CheckAnswer,
             NvmeDone, Done, At, Go, SameSide, PreStages, Calibrating, Driving
    <2>2. nvme_list =>
            /\ SameSide
            /\ \/ UNCHANGED pci_devices
               \/ pci_devices' = [pci_devices EXCEPT ![probe].driver = "nvme"]
      BY DEF nvme_list, Done, At, Go, SameSide, PreStages, Calibrating, Driving
    <2> QED
      BY <2>1, <2>2 DEF NvmeNext
  <1>8. Controller \/ Tick => SameSide /\ UNCHANGED pci_devices
    BY DEF Controller, ControllerStep, Tick, SameSide
  <1>9. NVMeStep(NvmeNext) \/ NVMeStep(Controller) \/ NVMeStep(Tick) =>
          /\ SameSide /\ UNCHANGED <<rsdt, mmio_bases, buses, frames, groups>>
          /\ \/ UNCHANGED pci_devices
             \/ pci_devices' = [pci_devices EXCEPT ![probe].driver = "nvme"]
    BY <1>7, <1>8 DEF NVMeStep, acpiVars
  <1> QED
    BY <1>1, <1>2, <1>3, <1>4, <1>5, <1>6, <1>9

LEMMA PciInvInit == Init => PciInv
  <1>1. Init => PciInit /\ machine \in Machines /\ stage = "kinit"
    BY DEF Init
  <1>2. PciInit => NumbersRight
    BY DEF PciInit, NumbersRight
  <1> QED
    BY <1>1, <1>2, TreeInvInit DEF PciInv, Driving

\* An enumeration that was not begun is right whatever table is found.
LEMMA TreeInvInitNext == (PciInit /\ machine \in Machines => TreeInv)'
  <1>1. PciInit /\ machine \in Machines => TreeInv
    BY TreeInvInit
  <1> QED
    BY <1>1, PTL

LEMMA PciInvNext == PciInv /\ [Next]_vars => PciInv'
  <1> SUFFICES ASSUME PciInv, [Next]_vars PROVE PciInv'
    OBVIOUS
  <1>1. UNCHANGED machine /\ machine \in Machines /\ TreeInv /\ NumbersRight
    BY MachineNext DEF PciInv, TreeInv, TreeTypes
  <1>2. ASSUME SameSide, UNCHANGED <<rsdt, mmio_bases, buses, frames, groups>>,
               \/ UNCHANGED pci_devices /\ stage' \in PreStages
               \/ stage' \notin PreStages
                  /\ \/ UNCHANGED pci_devices
                     \/ pci_devices' = [pci_devices EXCEPT ![probe].driver = "nvme"]
        PROVE  PciInv'
    <2>1. TreeInv'
      BY <1>1, <1>2, DriverStep
    <2>2. mcfg' = mcfg /\ NumbersRight'
      BY <1>1, <1>2, SameTopology, NumbersKept
    <2> QED
      BY <1>2, <2>1, <2>2 DEF PciInv, SameSide, PciInit
  <1>3. CASE Start \/ Time \/ Mman \/ Ps2Step(Ps2Next) \/ Ps2Step(Peripherals)
    BY <1>2, <1>3, PartsLemma DEF pciVars
  <1>4. CASE ACPI
    <2>1. PciInit' /\ stage' \notin Driving
      BY <1>4, PartsLemma DEF PciInv, PreStages, PciInit, pciVars, Driving
    <2>2. TreeInv' /\ NumbersRight'
      BY <1>1, <1>4, <2>1, TreeInvInitNext, PartsLemma, NumbersKept DEF pciVars
    <2> QED
      BY <2>1, <2>2 DEF PciInv
  <1>5. CASE PCI
    <2>1. UNCHANGED rsdt
      BY <1>5 DEF PCI, acpiVars
    <2>2. CASE StartGroup \/ pci_check_func \/ Return
      <3>1. TreeInv' /\ NumbersRight'
        <4>1. TreeInv'
          BY <1>1, <2>1, <2>2, StartGroupStep, CheckFuncStep, ReturnStep
        <4>2. StartGroup \/ Return => UNCHANGED <<pci_devices, buses>>
          BY DEF StartGroup, Return
        <4> QED
          BY <1>1, <2>2, <4>1, <4>2, NumbersStep, NumbersKept
      <3>2. stage = "pci" /\ stage' = "pci"
        BY <2>2 DEF StartGroup, pci_check_func, Return, At
      <3> QED
        BY <3>1, <3>2 DEF PciInv, PreStages, Calibrating, Driving
    <2>3. CASE PciDone
      <3>1. /\ stage' = "nvme" /\ frames = <<>> /\ groups = Len(mcfg)
            /\ UNCHANGED <<mmio_bases, pci_devices, buses, frames, groups>>
        BY <2>3 DEF PciDone, At, Go, pciVars
      <3>2. TreeInv' /\ NumbersRight' /\ mcfg' = mcfg
        BY <1>1, <2>1, <3>1, DriverStep, NumbersKept, SameTopology
      <3> QED
        BY <3>1, <3>2 DEF PciInv, PreStages, Calibrating
    <2> QED
      BY <1>5, <2>2, <2>3 DEF PCI, PciNext
  <1>6. CASE NVMeStep(NvmeNext) \/ NVMeStep(Controller) \/ NVMeStep(Tick)
    <2>1. stage' \notin PreStages
      <3>1. stage \in Driving
        BY <1>6
           DEF NVMeStep, NvmeNext, nvme_attach, WaitDisabled, nvme_enable, WaitEnabled,
               CheckAnswer, nvme_list, NvmeDone, Controller, ControllerStep, Tick, At,
               Driving
      <3> QED
        BY <1>6, <3>1, PartsLemma DEF SameSide, PreStages, Calibrating, Driving
    <2> QED
      BY <1>2, <1>6, <2>1, PartsLemma
  <1>7. CASE UNCHANGED vars
    <2>1. SameSide /\ UNCHANGED <<rsdt, mmio_bases, buses, frames, groups, pci_devices>>
      BY <1>7 DEF vars, SameSide, acpiVars, pciVars
    <2> QED
      BY <1>2, <2>1
  <1> QED
    BY <1>3, <1>4, <1>5, <1>6, <1>7 DEF Next, Kernel, Devices, TimePasses

\* When no call is left, the buses entered are those that can be reached.
LEMMA ReachedLemma ==
  ASSUME TreeInv, frames = <<>>, groups = Len(mcfg)
  PROVE  Entered = Reached /\ \A a : Past(a) <=> a[2] \in Reached
  <1>1. TreeTypes /\ BusesRight /\ ListRight /\ Topology
    BY TopologyLemma DEF TreeInv, TreeTypes
  <1>2. Open = {}
    BY DEF Open, Elements
  <1>3. \A a : Past(a) <=> a[2] \in Entered
    BY <1>2 DEF Past
  <1>4. Closed(Entered)
    <2>1. \A g \in Range(mcfg) : g.start \in Entered
      <3>1. DOMAIN mcfg = 1 .. groups
        BY <1>1 DEF Topology
      <3> QED
        BY <3>1 DEF Range, Entered
    <2>2. ASSUME NEW a \in Present, a[2] \in Entered, Visible(a), Leads(a)
          PROVE  machine.functions[a].secondary \in Entered
      <3>1. a \in Listed
        BY <1>1, <1>3, <2>2 DEF ListRight
      <3> QED
        BY <1>1, <2>2, <3>1 DEF BusesRight
    <2> QED
      BY <2>1, <2>2 DEF Closed, Leads
  <1>5. Entered \in SUBSET Regions
    BY <1>1 DEF BusesRight
  <1>6. Entered = Reached
    <2>1. \A b \in Entered : b \in Reached
      BY <1>1, <1>5 DEF Reached, BusesRight
    <2>2. \A b \in Reached : b \in Entered
      BY <1>4, <1>5 DEF Reached
    <2> QED
      BY <2>1, <2>2
  <1> QED
    BY <1>3, <1>6

LEMMA EachOnceLemma ==
  ASSUME PciInv
  PROVE  EachFunctionOnce
  <1> SUFFICES ASSUME At("nvme"), NEW a \in Present
               PROVE  Cardinality({i \in DOMAIN pci_devices : pci_devices[i].addr = a})
                        = IF a[2] \in Reached /\ Visible(a) THEN 1 ELSE 0
    BY DEF EachFunctionOnce
  <1> DEFINE I == {i \in DOMAIN pci_devices : pci_devices[i].addr = a}
  <1>1. TreeInv /\ frames = <<>> /\ groups = Len(mcfg)
    BY DEF PciInv, At, Driving
  <1>2. TreeTypes /\ ListRight
    BY <1>1 DEF TreeInv
  <1>3. a \in Listed <=> a[2] \in Reached /\ Visible(a)
    BY <1>1, <1>2, ReachedLemma DEF ListRight
  <1>4. DOMAIN pci_devices = 1 .. Len(pci_devices)
    BY <1>2 DEF TreeTypes
  <1>5. CASE a \in Listed
    <2>1. PICK i \in 1 .. Len(pci_devices) : Addr(i) = a
      BY <1>5 DEF Listed
    <2>2. I = {i}
      BY <1>2, <1>4, <2>1 DEF ListRight, Addr
    <2>3. Cardinality(I) = 1
      BY <2>2, FS_Singleton
    <2> QED
      BY <1>3, <1>5, <2>3
  <1>6. CASE a \notin Listed
    <2>1. I = {}
      BY <1>4, <1>6 DEF Listed, Addr
    <2>2. Cardinality(I) = 0
      BY <2>1, FS_EmptySet
    <2> QED
      BY <1>3, <1>6, <2>2
  <1> QED
    BY <1>5, <1>6

LEMMA BelowLemma ==
  ASSUME PciInv
  PROVE  BelowItsBus
  <1>1. TreeTypes /\ ListRight /\ NumbersRight
    BY DEF PciInv, TreeInv
  <1>2. DOMAIN pci_devices = 1 .. Len(pci_devices)
    BY <1>1 DEF TreeTypes
  <1> QED
    BY <1>1, <1>2 DEF BelowItsBus, ListRight, NumbersRight, NodeFits, Addr

\* pci_init finds each function that can be reached, once, and hangs it below
\* its own bus, for every tree of buses and every number of segment groups.
THEOREM TreeIsFaithful == Spec => []TreeFaithful
  <1>1. PciInv => TreeFaithful
    BY EachOnceLemma, BelowLemma DEF TreeFaithful
  <1> QED
    BY PciInvInit, PciInvNext, <1>1, PTL DEF Spec

----------------------------------------------------------------------------
(* The driver *)

\* The controllers that have a driver, and the stages with one in hand.
Driven == {Addr(i) : i \in {k \in 1 .. Len(pci_devices) :
                              pci_devices[k].driver # NoDriver}}
InHand == {"disabling", "check_disabled", "enabling", "check_enabled", "check_failed"}

Usable(a) ==
  machine.functions[a].ctrl.css \in {"iocs", "ncss"} /\ machine.functions[a].ctrl.mps

HwTypes ==
  /\ hw = [a \in Controllers |-> hw[a]]
  /\ \A a \in Controllers :
       /\ hw[a] = [en |-> hw[a].en, rdy |-> hw[a].rdy, cfs |-> hw[a].cfs,
                   queues |-> hw[a].queues]
       /\ hw[a].en \in BOOLEAN /\ hw[a].rdy \in BOOLEAN /\ hw[a].cfs \in BOOLEAN

\* Devices from the probed one on have no driver; the others have one when and
\* only when they are listed, and stay enabled and ready.
DriversRight ==
  /\ probe \in Nat \ {0} /\ nvme_ctrls \in Seq(Controllers)
  /\ \A i \in 1 .. Len(pci_devices) : i >= probe => pci_devices[i].driver = NoDriver
  /\ Distinct(nvme_ctrls) /\ Elements(nvme_ctrls) = Driven
  /\ \A a \in Driven : a \in Controllers /\ hw[a].en /\ hw[a].rdy /\ Usable(a)

InHandRight ==
  /\ stage \in InHand => probe <= Len(pci_devices) /\ a0 \in Controllers
  /\ stage \in {"enabling", "check_enabled", "check_failed"} => hw[a0].en /\ Usable(a0)
  /\ stage = "check_failed" => hw[a0].rdy \/ hw[a0].cfs

NvmeInv ==
  /\ PciInv /\ HwTypes /\ DriversRight /\ InHandRight
  /\ stage \in PreStages \cup {"pci"} => probe = 1 /\ nvme_ctrls = <<>>

LEMMA SameDevices ==
  ASSUME UNCHANGED <<machine, pci_devices>>
  PROVE  /\ Driven' = Driven /\ Controllers' = Controllers
         /\ \A i : Addr(i)' = Addr(i) /\ \A a : Usable(a)' = Usable(a)
  BY DEF Driven, Addr, Controllers, Usable

\* One controller changes.
LEMMA HwLemma ==
  ASSUME HwTypes, UNCHANGED machine, NEW a \in Controllers,
         NEW en \in BOOLEAN, NEW rdy \in BOOLEAN, NEW cfs \in BOOLEAN, NEW queues,
         hw' = [hw EXCEPT ![a] = [en |-> en, rdy |-> rdy, cfs |-> cfs,
                                  queues |-> queues]]
  PROVE  /\ HwTypes'
         /\ hw'[a].en = en /\ hw'[a].rdy = rdy /\ hw'[a].cfs = cfs
         /\ \A b \in Controllers : b # a => hw'[b] = hw[b]
  <1>1. PICK r : r = [en |-> en, rdy |-> rdy, cfs |-> cfs, queues |-> queues]
    OBVIOUS
  <1>2. hw' = [hw EXCEPT ![a] = r] /\ DOMAIN hw = Controllers
    BY <1>1 DEF HwTypes
  <1>3. /\ DOMAIN hw' = Controllers /\ hw'[a] = r
        /\ \A b \in Controllers : b # a => hw'[b] = hw[b]
    BY <1>2
  <1>4. Controllers' = Controllers
    BY DEF Controllers
  <1>5. hw' = [b \in Controllers |-> hw'[b]]
    <2>1. hw' = [b \in Controllers |-> IF b = a THEN r ELSE hw[b]]
      BY <1>2
    <2> QED
      BY <2>1
  <1>6. \A b \in Controllers :
          /\ hw'[b] = [en |-> hw'[b].en, rdy |-> hw'[b].rdy, cfs |-> hw'[b].cfs,
                       queues |-> hw'[b].queues]
          /\ hw'[b].en \in BOOLEAN /\ hw'[b].rdy \in BOOLEAN /\ hw'[b].cfs \in BOOLEAN
    <2> SUFFICES ASSUME NEW b \in Controllers
                 PROVE  /\ hw'[b] = [en |-> hw'[b].en, rdy |-> hw'[b].rdy,
                                     cfs |-> hw'[b].cfs, queues |-> hw'[b].queues]
                        /\ hw'[b].en \in BOOLEAN /\ hw'[b].rdy \in BOOLEAN
                        /\ hw'[b].cfs \in BOOLEAN
      OBVIOUS
    <2>1. CASE b = a
      BY <1>1, <1>3, <2>1
    <2>2. CASE b # a
      <3>1. hw'[b] = hw[b]
        BY <1>3, <2>2
      <3> QED
        BY <3>1 DEF HwTypes
    <2> QED
      BY <2>1, <2>2
  <1>7. HwTypes'
    BY <1>4, <1>5, <1>6 DEF HwTypes
  <1> QED
    BY <1>1, <1>3, <1>7

\* A bit of a controller changes.
LEMMA BitLemma ==
  ASSUME NEW r, r = [en |-> r.en, rdy |-> r.rdy, cfs |-> r.cfs, queues |-> r.queues],
         NEW v
  PROVE  /\ [r EXCEPT !.en = v]
              = [en |-> v, rdy |-> r.rdy, cfs |-> r.cfs, queues |-> r.queues]
         /\ [r EXCEPT !.rdy = v]
              = [en |-> r.en, rdy |-> v, cfs |-> r.cfs, queues |-> r.queues]
         /\ [r EXCEPT !.cfs = v]
              = [en |-> r.en, rdy |-> r.rdy, cfs |-> v, queues |-> r.queues]
         /\ [r EXCEPT !.queues = v]
              = [en |-> r.en, rdy |-> r.rdy, cfs |-> r.cfs, queues |-> v]
  <1>1. PICK x, y, z, q : x = r.en /\ y = r.rdy /\ z = r.cfs /\ q = r.queues
    OBVIOUS
  <1>2. r = [en |-> x, rdy |-> y, cfs |-> z, queues |-> q]
    BY <1>1
  <1> QED
    BY <1>1, <1>2

LEMMA SameHw ==
  ASSUME HwTypes, UNCHANGED <<machine, hw>>
  PROVE  HwTypes'
  BY DEF HwTypes, Controllers

\* The device in hand is not one of those with a driver.
LEMMA NotDriven ==
  ASSUME PciInv, DriversRight, probe <= Len(pci_devices)
  PROVE  /\ probe \in 1 .. Len(pci_devices) /\ a0 = Addr(probe) /\ a0 \in Present
         /\ a0 \notin Driven
  <1>1. pci_devices \in Seq(DeviceType) /\ ListRight /\ TreeTypes
    BY DEF PciInv, TreeInv, TreeTypes
  <1>2. probe \in 1 .. Len(pci_devices) /\ a0 = Addr(probe)
    <2>1. Len(pci_devices) \in Nat
      BY <1>1, LenProperties
    <2> QED
      BY <2>1 DEF DriversRight, a0, Addr
  <1>3. a0 \in Present
    <2>1. a0 \in Listed
      BY <1>2 DEF Listed
    <2> QED
      BY <1>1, <2>1, ListedLemma
  <1>4. a0 \notin Driven
    <2> SUFFICES ASSUME NEW i \in 1 .. Len(pci_devices),
                        pci_devices[i].driver # NoDriver, Addr(i) = a0
                 PROVE  FALSE
      BY DEF Driven
    <2>1. i = probe
      BY <1>1, <1>2 DEF ListRight
    <2>2. pci_devices[probe].driver = NoDriver
      BY <1>2 DEF DriversRight
    <2> QED
      BY <2>1, <2>2
  <1> QED
    BY <1>2, <1>3, <1>4

\* Steps that give no driver.
LEMMA DriversKept ==
  ASSUME DriversRight, UNCHANGED <<machine, pci_devices, nvme_ctrls>>,
         probe' = probe \/ probe' = probe + 1,
         \A a \in Driven : hw'[a].en /\ hw'[a].rdy
  PROVE  DriversRight'
  <1>1. /\ Driven' = Driven /\ Controllers' = Controllers
        /\ \A i : Addr(i)' = Addr(i) /\ \A a : Usable(a)' = Usable(a)
    BY SameDevices
  <1>2. /\ probe' \in Nat \ {0}
        /\ \A i \in 1 .. Len(pci_devices) :
             i >= probe' => pci_devices[i].driver = NoDriver
    <2>1. probe \in Nat
      BY DEF DriversRight
    <2>2. \A i \in 1 .. Len(pci_devices) : i >= probe' => i >= probe
      BY <2>1
    <2> QED
      BY <2>1, <2>2 DEF DriversRight
  <1> QED
    BY <1>1, <1>2 DEF DriversRight

\* What is in hand is tied to the device and its controller.
LEMMA InHandKept ==
  ASSUME InHandRight, UNCHANGED <<machine, pci_devices, probe>>,
         stage' \in InHand => stage \in InHand,
         stage' \in {"enabling", "check_enabled", "check_failed"} =>
           stage' = stage \/ stage = "enabling",
         stage \in {"enabling", "check_enabled", "check_failed"} => hw'[a0].en,
         stage' = "check_failed" => hw'[a0].rdy \/ hw'[a0].cfs
  PROVE  InHandRight'
  <1>1. a0' = a0 /\ Controllers' = Controllers /\ \A a : Usable(a)' = Usable(a)
    BY SameDevices DEF a0
  <1>2. stage' \in InHand => (probe <= Len(pci_devices) /\ a0 \in Controllers)'
    BY <1>1 DEF InHandRight
  <1>3. stage' \in {"enabling", "check_enabled", "check_failed"} => hw'[a0].en /\ Usable(a0)
    BY DEF InHandRight
  <1> QED
    BY <1>1, <1>2, <1>3 DEF InHandRight

LEMMA NotInHand ==
  ASSUME stage' \notin InHand
  PROVE  InHandRight'
  BY DEF InHandRight, InHand

LEMMA AttachStep ==
  ASSUME NvmeInv, nvme_attach, UNCHANGED machine
  PROVE  HwTypes' /\ DriversRight' /\ InHandRight'
  <1>1. PciInv /\ HwTypes /\ DriversRight /\ probe <= Len(pci_devices)
        /\ UNCHANGED <<nvme_ctrls, pci_devices>>
    BY DEF NvmeInv, nvme_attach
  <1>2. a0 \in Present /\ a0 \notin Driven
    BY <1>1, NotDriven
  <1>3. CASE /\ pci_devices[probe].driver = NoDriver
             /\ Matches(nvme_driver, machine.functions[a0])
    <2>1. /\ hw' = [hw EXCEPT ![a0].en = FALSE] /\ stage' = "disabling" /\ probe' = probe
      BY <1>3 DEF nvme_attach, Go
    <2>2. a0 \in Controllers
      BY <1>2, <1>3 DEF Matches, nvme_driver, Controllers, Present
    <2>3. PICK a, r : a = a0 /\ r = hw[a]
      OBVIOUS
    <2>4. /\ r = [en |-> r.en, rdy |-> r.rdy, cfs |-> r.cfs, queues |-> r.queues]
          /\ r.rdy \in BOOLEAN /\ r.cfs \in BOOLEAN
          /\ hw = [b \in Controllers |-> hw[b]]
      BY <1>1, <2>2, <2>3 DEF HwTypes
    <2>5. hw' = [hw EXCEPT ![a] = [en |-> FALSE, rdy |-> r.rdy, cfs |-> r.cfs,
                                   queues |-> r.queues]]
      <3>1. hw' = [hw EXCEPT ![a] = [r EXCEPT !.en = FALSE]]
        BY <2>1, <2>3
      <3>2. [r EXCEPT !.en = FALSE] = [en |-> FALSE, rdy |-> r.rdy, cfs |-> r.cfs,
                                       queues |-> r.queues]
        BY <2>4, BitLemma
      <3> QED
        BY <3>1, <3>2
    <2>6. HwTypes' /\ \A b \in Controllers : b # a0 => hw'[b] = hw[b]
      BY <1>1, <2>2, <2>3, <2>4, <2>5, HwLemma
    <2>7. DriversRight'
      <3>1. \A b \in Driven : hw'[b].en /\ hw'[b].rdy
        BY <1>1, <1>2, <2>6 DEF DriversRight
      <3> QED
        BY <1>1, <2>1, <3>1, DriversKept
    <2>8. InHandRight'
      <3>1. a0' = a0 /\ Controllers' = Controllers
        BY <1>1, <2>1, SameDevices DEF a0
      <3> QED
        BY <1>1, <2>1, <2>2, <3>1 DEF InHandRight
    <2> QED
      BY <2>6, <2>7, <2>8
  <1>4. CASE ~ (/\ pci_devices[probe].driver = NoDriver
                /\ Matches(nvme_driver, machine.functions[a0]))
    <2>1. probe' = probe + 1 /\ stage' = "nvme" /\ hw' = hw
      BY <1>4 DEF nvme_attach, Done, Go
    <2>2. DriversRight'
      BY <1>1, <2>1, DriversKept DEF DriversRight
    <2>3. HwTypes' /\ InHandRight'
      BY <1>1, <2>1, SameHw, NotInHand DEF InHand
    <2> QED
      BY <2>2, <2>3
  <1> QED
    BY <1>3, <1>4

LEMMA EnableStep ==
  ASSUME NvmeInv, nvme_enable, UNCHANGED machine
  PROVE  HwTypes' /\ DriversRight' /\ InHandRight'
  <1>1. /\ PciInv /\ HwTypes /\ DriversRight /\ probe <= Len(pci_devices)
        /\ a0 \in Controllers /\ UNCHANGED <<nvme_ctrls, pci_devices>>
    BY DEF NvmeInv, nvme_enable, InHandRight, InHand, At
  <1>2. a0 \notin Driven
    BY <1>1, NotDriven
  <1>3. CASE csts.rdy
    <2>1. probe' = probe + 1 /\ stage' = "nvme" /\ hw' = hw
      BY <1>3 DEF nvme_enable, Done, Go
    <2>2. DriversRight'
      BY <1>1, <2>1, DriversKept DEF DriversRight
    <2>3. HwTypes' /\ InHandRight'
      BY <1>1, <2>1, SameHw, NotInHand DEF InHand
    <2> QED
      BY <2>2, <2>3
  <1>4. CASE ~ csts.rdy
    <2>1. PICK a, r, sup, top : a = a0 /\ r = hw[a] /\ (sup <=> Supported)
                               /\ sup \in BOOLEAN /\ top = Top(2)
      <3>1. \E sup \in BOOLEAN : sup <=> Supported
        OBVIOUS
      <3> QED
        BY <3>1
    <2>2. hw' = [hw EXCEPT ![a0].queues = Top(2), ![a0].en = Supported]
      BY <1>4 DEF nvme_enable
    <2>3. /\ r = [en |-> r.en, rdy |-> r.rdy, cfs |-> r.cfs, queues |-> r.queues]
          /\ r.rdy \in BOOLEAN /\ r.cfs \in BOOLEAN
          /\ hw = [b \in Controllers |-> hw[b]]
      BY <1>1, <2>1 DEF HwTypes
    <2>4. hw' = [hw EXCEPT ![a] = [en |-> sup, rdy |-> r.rdy, cfs |-> r.cfs,
                                   queues |-> top]]
      <3>1. Supported = sup
        BY <2>1 DEF Supported
      <3>2. hw' = [hw EXCEPT ![a].queues = top, ![a].en = sup]
        BY <2>1, <2>2, <3>1
      <3>3. [[r EXCEPT !.queues = top] EXCEPT !.en = sup]
              = [en |-> sup, rdy |-> r.rdy, cfs |-> r.cfs, queues |-> top]
        <4>1. PICK u : u = [r EXCEPT !.queues = top]
          OBVIOUS
        <4>2. /\ u = [en |-> r.en, rdy |-> r.rdy, cfs |-> r.cfs, queues |-> top]
              /\ u.en = r.en /\ u.rdy = r.rdy /\ u.cfs = r.cfs /\ u.queues = top
          BY <2>3, <4>1, BitLemma
        <4>3. u = [en |-> u.en, rdy |-> u.rdy, cfs |-> u.cfs, queues |-> u.queues]
          BY <4>2
        <4>4. [u EXCEPT !.en = sup]
                = [en |-> sup, rdy |-> u.rdy, cfs |-> u.cfs, queues |-> u.queues]
          BY <4>3, BitLemma
        <4> QED
          BY <4>1, <4>2, <4>4
      <3>4. hw' = [hw EXCEPT ![a] = [[r EXCEPT !.queues = top] EXCEPT !.en = sup]]
        BY <1>1, <2>1, <2>3, <3>2
      <3> QED
        BY <3>3, <3>4
    <2>5. HwTypes' /\ hw'[a0].en = sup /\ \A b \in Controllers : b # a0 => hw'[b] = hw[b]
      BY <1>1, <2>1, <2>3, <2>4, HwLemma
    <2>6. \A b \in Driven : hw'[b].en /\ hw'[b].rdy
      BY <1>1, <1>2, <2>5 DEF DriversRight
    <2>7. CASE Supported
      <3>1. stage' = "enabling" /\ probe' = probe
        BY <1>4, <2>7 DEF nvme_enable, Go
      <3>2. DriversRight'
        BY <1>1, <2>6, <3>1, DriversKept
      <3>3. a0' = a0 /\ Controllers' = Controllers /\ Usable(a0)' = Usable(a0)
        BY <1>1, <3>1, SameDevices DEF a0, Usable
      <3>4. Usable(a0)
        BY <2>7 DEF Supported, Usable, ctrl
      <3>5. InHandRight'
        BY <1>1, <2>1, <2>5, <2>7, <3>1, <3>3, <3>4 DEF InHandRight
      <3> QED
        BY <2>5, <3>2, <3>5
    <2>8. CASE ~ Supported
      <3>1. probe' = probe + 1 /\ stage' = "nvme"
        BY <1>4, <2>8 DEF nvme_enable, Done, Go
      <3> QED
        BY <1>1, <2>5, <2>6, <3>1, DriversKept, NotInHand DEF InHand
    <2> QED
      BY <2>7, <2>8
  <1> QED
    BY <1>3, <1>4

LEMMA WaitStep ==
  ASSUME NvmeInv, WaitDisabled \/ WaitEnabled \/ CheckAnswer \/ NvmeDone,
         UNCHANGED machine
  PROVE  HwTypes' /\ DriversRight' /\ InHandRight'
  <1>1. /\ HwTypes /\ DriversRight /\ InHandRight
        /\ UNCHANGED <<nvme_ctrls, pci_devices, hw>>
        /\ probe' = probe \/ (probe' = probe + 1 /\ stage' = "nvme")
    BY DEF NvmeInv, WaitDisabled, WaitEnabled, CheckAnswer, NvmeDone, Done, Go, nvmeVars
  <1>2. HwTypes' /\ DriversRight'
    <2>1. \A a \in Driven : hw'[a].en /\ hw'[a].rdy
      BY <1>1 DEF DriversRight
    <2>2. probe' = probe \/ probe' = probe + 1
      BY <1>1
    <2> QED
      BY <1>1, <2>1, <2>2, SameHw, DriversKept
  <1>3. CASE WaitDisabled
    <2>1. stage = "disabling" /\ stage' = "check_disabled" /\ probe' = probe
      BY <1>3 DEF WaitDisabled, At, Go, nvmeVars
    <2>2. /\ stage' \in InHand => stage \in InHand
          /\ stage \notin {"enabling", "check_enabled", "check_failed"}
          /\ stage' \notin {"enabling", "check_enabled", "check_failed"}
      BY <2>1 DEF InHand
    <2> QED
      BY <1>1, <1>2, <2>1, <2>2, InHandKept
  <1>4. CASE WaitEnabled
    <2>1. stage = "enabling" /\ stage' = "check_enabled" /\ probe' = probe
      BY <1>4 DEF WaitEnabled, At, Go, nvmeVars
    <2>2. stage' \in InHand => stage \in InHand
      BY <2>1 DEF InHand
    <2>3. hw'[a0].en /\ stage' # "check_failed"
      BY <1>1, <2>1 DEF InHandRight
    <2> QED
      BY <1>1, <1>2, <2>1, <2>2, <2>3, InHandKept
  <1>5. CASE CheckAnswer
    <2>1. CASE AnswerCame
      <3>1. stage = "check_enabled" /\ stage' = "check_failed" /\ probe' = probe
        BY <1>5, <2>1 DEF CheckAnswer, At, Go
      <3>2. probe <= Len(pci_devices) /\ a0 \in Controllers /\ hw[a0].en /\ Usable(a0)
        BY <1>1, <3>1 DEF InHandRight, InHand
      <3>3. hw[a0].rdy \/ hw[a0].cfs
        BY <2>1 DEF AnswerCame, csts
      <3>4. a0' = a0 /\ Controllers' = Controllers /\ Usable(a0)' = Usable(a0)
        BY <1>1, <3>1, SameDevices DEF a0, Usable
      <3> QED
        BY <1>1, <1>2, <3>1, <3>2, <3>3, <3>4 DEF InHandRight
    <2>2. CASE ~ AnswerCame
      BY <1>2, <1>5, <2>2, NotInHand DEF CheckAnswer, Done, Go, InHand
    <2> QED
      BY <2>1, <2>2
  <1>6. CASE NvmeDone
    BY <1>2, <1>6, NotInHand DEF NvmeDone, Go, InHand
  <1> QED
    BY <1>2, <1>3, <1>4, <1>5, <1>6

LEMMA ListStep ==
  ASSUME NvmeInv, nvme_list, UNCHANGED machine
  PROVE  HwTypes' /\ DriversRight' /\ InHandRight'
  <1>1. /\ PciInv /\ HwTypes /\ DriversRight /\ probe <= Len(pci_devices)
        /\ a0 \in Controllers /\ hw[a0].en /\ Usable(a0)
        /\ hw[a0].rdy \/ hw[a0].cfs
    BY DEF NvmeInv, nvme_list, InHandRight, InHand, At
  <1>2. hw' = hw /\ probe' = probe + 1 /\ stage' = "nvme"
    BY DEF nvme_list, Done, Go
  <1>3. HwTypes' /\ InHandRight'
    BY <1>1, <1>2, SameHw, NotInHand DEF InHand
  <1>4. CASE csts.cfs
    <2>1. UNCHANGED <<nvme_ctrls, pci_devices>>
      BY <1>4 DEF nvme_list
    <2>2. \A a \in Driven : hw'[a].en /\ hw'[a].rdy
      BY <1>1, <1>2 DEF DriversRight
    <2>3. DriversRight'
      BY <1>1, <1>2, <2>1, <2>2, DriversKept
    <2> QED
      BY <1>3, <2>3
  <1>5. CASE ~ csts.cfs
    <2>1. /\ nvme_ctrls' = <<a0>> \o nvme_ctrls
          /\ pci_devices' = [pci_devices EXCEPT ![probe].driver = "nvme"]
      BY <1>5 DEF nvme_list
    <2>2. hw[a0].rdy
      BY <1>1, <1>5 DEF csts
    <2>3. /\ probe \in 1 .. Len(pci_devices) /\ a0 = Addr(probe) /\ a0 \notin Driven
      BY <1>1, NotDriven
    <2>4. PICK s, n, a, q : /\ s = pci_devices' /\ n = Len(pci_devices) /\ a = a0
                            /\ q = nvme_ctrls'
      OBVIOUS
    <2>5. n \in Nat /\ pci_devices \in [1 .. n -> DeviceType]
      <3>1. pci_devices \in Seq(DeviceType)
        BY <1>1 DEF PciInv, TreeInv, TreeTypes
      <3> QED
        BY <2>4, <3>1, LenProperties, SeqDef, ElementOfSeq
    <2>6. /\ s \in [1 .. n -> DeviceType]
          /\ \A i \in 1 .. n : s[i].addr = pci_devices[i].addr
          /\ \A i \in 1 .. n : i # probe => s[i].driver = pci_devices[i].driver
          /\ s[probe].driver = "nvme"
      BY <2>1, <2>3, <2>4, <2>5 DEF DeviceType
    <2>7. s \in Seq(DeviceType) /\ Len(s) = n
      BY <2>5, <2>6, FunctionIsSeq
    <2>8. Driven' = Driven \cup {a}
      <3>1. Driven' = {s[i].addr : i \in {k \in 1 .. n : s[k].driver # NoDriver}}
        BY <2>4, <2>7 DEF Driven, Addr
      <3>2. Driven = {pci_devices[i].addr :
                        i \in {k \in 1 .. n : pci_devices[k].driver # NoDriver}}
        BY <2>4 DEF Driven, Addr
      <3>3. {k \in 1 .. n : s[k].driver # NoDriver}
              = {k \in 1 .. n : pci_devices[k].driver # NoDriver} \cup {probe}
        BY <2>3, <2>4, <2>6 DEF NoDriver
      <3>4. a = pci_devices[probe].addr
        BY <2>3, <2>4 DEF Addr
      <3> QED
        BY <2>3, <2>4, <2>6, <3>1, <3>2, <3>3, <3>4
    <2>9. Controllers' = Controllers /\ \A b : Usable(b)' = Usable(b)
      BY DEF Controllers, Usable
    <2>10. q \in Seq(Controllers) /\ Distinct(q) /\ Elements(q) = Driven \cup {a}
      <3>1. /\ a \in Controllers /\ nvme_ctrls \in Seq(Controllers)
            /\ Distinct(nvme_ctrls) /\ Elements(nvme_ctrls) = Driven
            /\ a \notin Driven /\ q = <<a>> \o nvme_ctrls
        BY <1>1, <2>1, <2>3, <2>4 DEF DriversRight
      <3>2. PICK T : T = Controllers
        OBVIOUS
      <3>3. a \in T /\ nvme_ctrls \in Seq(T)
        BY <3>1, <3>2
      <3>4. /\ <<a>> \o nvme_ctrls \in Seq(T)
            /\ Elements(<<a>> \o nvme_ctrls) = {a} \cup Elements(nvme_ctrls)
            /\ Distinct(nvme_ctrls) /\ a \notin Elements(nvme_ctrls)
                 => Distinct(<<a>> \o nvme_ctrls)
        BY <3>3, ConsLemma
      <3> QED
        BY <3>1, <3>2, <3>4
    <2>11. /\ probe' \in Nat \ {0}
           /\ \A i \in 1 .. n : i >= probe' => s[i].driver = NoDriver
      <3>1. probe \in Nat
        BY <1>1 DEF DriversRight
      <3>2. \A i \in 1 .. n : i >= probe' => i # probe /\ i >= probe
        BY <1>2, <3>1
      <3> QED
        BY <1>1, <1>2, <2>4, <2>6, <3>1, <3>2 DEF DriversRight
    <2>12. \A b \in Driven' : b \in Controllers /\ hw'[b].en /\ hw'[b].rdy /\ Usable(b)
      BY <1>1, <1>2, <2>2, <2>4, <2>8 DEF DriversRight
    <2>13. DriversRight'
      BY <2>4, <2>7, <2>8, <2>9, <2>10, <2>11, <2>12 DEF DriversRight
    <2> QED
      BY <1>3, <2>13
  <1> QED
    BY <1>4, <1>5

\* A controller that is enabled and ready stays so, whatever else it reports.
LEMMA ControllerAnswers ==
  ASSUME NvmeInv, Controller, UNCHANGED machine
  PROVE  HwTypes' /\ DriversRight' /\ InHandRight'
  <1>1. /\ HwTypes /\ DriversRight /\ InHandRight
        /\ UNCHANGED <<stage, probe, clock, nvme_ctrls, pci_devices>>
    BY DEF NvmeInv, Controller, ControllerStep
  <1>2. PICK a \in Controllers :
          \/ ControllerStep(a, ~ hw[a].en /\ (hw[a].rdy \/ hw[a].cfs),
                            [hw[a] EXCEPT !.rdy = FALSE, !.cfs = FALSE])
          \/ ControllerStep(a, hw[a].en /\ ~ hw[a].rdy /\ ~ hw[a].cfs,
                            [hw[a] EXCEPT !.rdy = TRUE])
          \/ ControllerStep(a, hw[a].en /\ ~ hw[a].cfs, [hw[a] EXCEPT !.cfs = TRUE])
    BY DEF Controller
  <1>3. PICK r, t, f : r = hw[a] /\ t = TRUE /\ f = FALSE
    OBVIOUS
  <1>4. /\ r = [en |-> r.en, rdy |-> r.rdy, cfs |-> r.cfs, queues |-> r.queues]
        /\ r.en \in BOOLEAN /\ r.rdy \in BOOLEAN /\ r.cfs \in BOOLEAN
        /\ hw = [b \in Controllers |-> hw[b]]
    BY <1>1, <1>3 DEF HwTypes
  <1>5. PICK rdy \in BOOLEAN, cfs \in BOOLEAN :
          /\ hw' = [hw EXCEPT ![a] = [en |-> r.en, rdy |-> rdy, cfs |-> cfs,
                                      queues |-> r.queues]]
          /\ r.en /\ r.rdy => rdy
          /\ r.en /\ (r.rdy \/ r.cfs) => rdy \/ cfs
    <2>1. CASE ControllerStep(a, ~ hw[a].en /\ (hw[a].rdy \/ hw[a].cfs),
                              [hw[a] EXCEPT !.rdy = FALSE, !.cfs = FALSE])
      <3>1. hw' = [hw EXCEPT ![a] = [[r EXCEPT !.rdy = f] EXCEPT !.cfs = f]] /\ ~ r.en
        BY <1>3, <2>1 DEF ControllerStep
      <3>2. PICK u : u = [r EXCEPT !.rdy = f]
        OBVIOUS
      <3>3. /\ u = [en |-> r.en, rdy |-> f, cfs |-> r.cfs, queues |-> r.queues]
            /\ u.en = r.en /\ u.rdy = f /\ u.cfs = r.cfs /\ u.queues = r.queues
        BY <1>4, <3>2, BitLemma
      <3>4. u = [en |-> u.en, rdy |-> u.rdy, cfs |-> u.cfs, queues |-> u.queues]
        BY <3>3
      <3>5. [u EXCEPT !.cfs = f]
              = [en |-> u.en, rdy |-> u.rdy, cfs |-> f, queues |-> u.queues]
        BY <3>4, BitLemma
      <3>6. hw' = [hw EXCEPT ![a] = [en |-> r.en, rdy |-> f, cfs |-> f,
                                     queues |-> r.queues]]
        BY <3>1, <3>2, <3>3, <3>5
      <3>7. f \in BOOLEAN
        BY <1>3
      <3> QED
        BY <3>1, <3>6, <3>7
    <2>2. CASE ControllerStep(a, hw[a].en /\ ~ hw[a].rdy /\ ~ hw[a].cfs,
                              [hw[a] EXCEPT !.rdy = TRUE])
      <3>1. hw' = [hw EXCEPT ![a] = [r EXCEPT !.rdy = t]]
        BY <1>3, <2>2 DEF ControllerStep
      <3>2. [r EXCEPT !.rdy = t]
              = [en |-> r.en, rdy |-> t, cfs |-> r.cfs, queues |-> r.queues]
        BY <1>4, BitLemma
      <3>3. hw' = [hw EXCEPT ![a] = [en |-> r.en, rdy |-> t, cfs |-> r.cfs,
                                     queues |-> r.queues]]
        BY <3>1, <3>2
      <3>4. t \in BOOLEAN /\ t
        BY <1>3
      <3> QED
        BY <1>4, <3>3, <3>4
    <2>3. CASE ControllerStep(a, hw[a].en /\ ~ hw[a].cfs, [hw[a] EXCEPT !.cfs = TRUE])
      <3>1. hw' = [hw EXCEPT ![a] = [r EXCEPT !.cfs = t]]
        BY <1>3, <2>3 DEF ControllerStep
      <3>2. [r EXCEPT !.cfs = t]
              = [en |-> r.en, rdy |-> r.rdy, cfs |-> t, queues |-> r.queues]
        BY <1>4, BitLemma
      <3>3. hw' = [hw EXCEPT ![a] = [en |-> r.en, rdy |-> r.rdy, cfs |-> t,
                                     queues |-> r.queues]]
        BY <3>1, <3>2
      <3>4. t \in BOOLEAN /\ t
        BY <1>3
      <3> QED
        BY <1>4, <3>3, <3>4
    <2> QED
      BY <1>2, <2>1, <2>2, <2>3
  <1>6. /\ HwTypes' /\ hw'[a].en = r.en /\ hw'[a].rdy = rdy /\ hw'[a].cfs = cfs
        /\ \A b \in Controllers : b # a => hw'[b] = hw[b]
    BY <1>1, <1>4, <1>5, HwLemma
  <1>7. \A b \in Controllers :
          /\ hw[b].en => hw'[b].en
          /\ hw[b].en /\ hw[b].rdy => hw'[b].rdy
          /\ hw[b].en /\ (hw[b].rdy \/ hw[b].cfs) => hw'[b].rdy \/ hw'[b].cfs
    <2> SUFFICES ASSUME NEW b \in Controllers
                 PROVE  /\ hw[b].en => hw'[b].en
                        /\ hw[b].en /\ hw[b].rdy => hw'[b].rdy
                        /\ hw[b].en /\ (hw[b].rdy \/ hw[b].cfs)
                             => hw'[b].rdy \/ hw'[b].cfs
      OBVIOUS
    <2>1. CASE b = a
      BY <1>3, <1>5, <1>6, <2>1
    <2>2. CASE b # a
      BY <1>6, <2>2
    <2> QED
      BY <2>1, <2>2
  <1>8. DriversRight'
    <2>1. \A b \in Driven : hw'[b].en /\ hw'[b].rdy
      BY <1>1, <1>7 DEF DriversRight
    <2> QED
      BY <1>1, <2>1, DriversKept
  <1>9. InHandRight'
    <2>1. a0' = a0 /\ Controllers' = Controllers /\ Usable(a0)' = Usable(a0)
      BY <1>1, SameDevices DEF a0, Usable
    <2> QED
      BY <1>1, <1>7, <2>1 DEF InHandRight, InHand
  <1> QED
    BY <1>6, <1>8, <1>9

\* Steps of the other parts.
Apart ==
  /\ UNCHANGED <<nvmeVars, pci_devices>>
  /\ stage' = stage \/ stage' \notin InHand
  /\ stage' \in PreStages \cup {"pci"} => stage \in PreStages \cup {"pci"}

LEMMA ApartLemma ==
  Start \/ Time \/ Mman \/ ACPI \/ Ps2Step(Ps2Next) \/ Ps2Step(Peripherals) => Apart
  <1>1. Start => Apart
    BY DEF Start, kinit, MemoryMap, LostAccess, At, Go, Apart, PreStages, Calibrating,
           InHand, pciVars
  <1>2. Time => Apart
    BY DEF Time, ClockNext, time_init, hlt, MaskTimer, TimerInterrupt, AfterFirstHlt,
           At, Go, Apart, PreStages, Calibrating, InHand, pciVars
  <1>3. Mman => Apart
    BY DEF Mman, MemNext, BuildStores, MapMemory, Reclaim, vmem_init, At, Go, Apart,
           PreStages, Calibrating, InHand, pciVars
  <1>4. ACPI => Apart
    BY AcpiSteps DEF ACPI, Apart, PreStages, InHand, pciVars
  <1>5. Ps2Step(Ps2Next) => Apart
    BY DEF Ps2Step, Ps2Next, ps2_init, ResetKeyboard, ReadFirst, ReadSecond,
           ps2_register_kbd_isr, ReadConfig, At, Go, Apart, PreStages, Calibrating,
           InHand, pciVars
  <1>6. Ps2Step(Peripherals) => Apart
    BY DEF Ps2Step, Peripherals, KbdInterrupt, Reply, KbdByte, KeyPress, Arrive, Apart,
           pciVars
  <1> QED
    BY <1>1, <1>2, <1>3, <1>4, <1>5, <1>6

LEMMA ApartStep ==
  ASSUME NvmeInv, Apart, UNCHANGED machine
  PROVE  /\ HwTypes' /\ DriversRight' /\ InHandRight'
         /\ stage' \in PreStages \cup {"pci"} => probe' = 1 /\ nvme_ctrls' = <<>>
  <1>1. /\ HwTypes /\ DriversRight /\ InHandRight
        /\ UNCHANGED <<probe, clock, hw, nvme_ctrls, pci_devices>>
    BY DEF NvmeInv, Apart, nvmeVars
  <1>2. HwTypes'
    BY <1>1, SameHw
  <1>3. DriversRight'
    <2>1. \A a \in Driven : hw'[a].en /\ hw'[a].rdy
      BY <1>1 DEF DriversRight
    <2> QED
      BY <1>1, <2>1, DriversKept
  <1>4. InHandRight'
    <2>1. CASE stage' = stage
      <3>1. stage \in {"enabling", "check_enabled", "check_failed"} => hw'[a0].en
        BY <1>1 DEF InHandRight
      <3>2. stage' = "check_failed" => hw'[a0].rdy \/ hw'[a0].cfs
        BY <1>1, <2>1 DEF InHandRight
      <3> QED
        BY <1>1, <2>1, <3>1, <3>2, InHandKept
    <2>2. CASE stage' \notin InHand
      BY <2>2, NotInHand
    <2> QED
      BY <2>1, <2>2 DEF Apart
  <1>5. stage' \in PreStages \cup {"pci"} => probe' = 1 /\ nvme_ctrls' = <<>>
    BY <1>1 DEF NvmeInv, Apart
  <1> QED
    BY <1>2, <1>3, <1>4, <1>5

\* A device is listed without a driver.
LEMMA PciDrivers ==
  ASSUME NvmeInv, PciInv', PCI, UNCHANGED machine
  PROVE  /\ HwTypes' /\ DriversRight' /\ InHandRight'
         /\ stage' \in PreStages \cup {"pci"} => probe' = 1 /\ nvme_ctrls' = <<>>
  <1>1. /\ HwTypes /\ DriversRight /\ stage = "pci" /\ stage' \in {"pci", "nvme"}
        /\ UNCHANGED <<probe, clock, hw, nvme_ctrls>>
    BY DEF NvmeInv, PCI, PciNext, StartGroup, pci_check_func, Return, PciDone, At, Go,
           nvmeVars
  <1>2. /\ probe = 1 /\ nvme_ctrls = <<>> /\ HwTypes' /\ InHandRight'
        /\ probe' = 1 /\ nvme_ctrls' = <<>>
    BY <1>1, SameHw, NotInHand DEF NvmeInv, InHand
  <1>3. \A i \in 1 .. Len(pci_devices) : pci_devices[i].driver = NoDriver
    <2>1. \A i \in 1 .. Len(pci_devices) : i >= probe
      BY <1>2
    <2> QED
      BY <1>1, <2>1 DEF DriversRight
  <1>4. \A i \in 1 .. Len(pci_devices') : pci_devices'[i].driver = NoDriver
    <2>1. CASE UNCHANGED pci_devices
      BY <1>3, <2>1
    <2>2. ASSUME NEW d, d.driver = NoDriver, pci_devices' = <<d>> \o pci_devices
          PROVE  \A i \in 1 .. Len(pci_devices') : pci_devices'[i].driver = NoDriver
      <3>1. PICK q, T, n : /\ q = pci_devices /\ T = DeviceType \cup {d} /\ n = Len(q)
        OBVIOUS
      <3>2. q \in Seq(T) /\ d \in T
        <4>1. pci_devices \in Seq(DeviceType)
          BY DEF NvmeInv, PciInv, TreeInv, TreeTypes
        <4>2. \A i \in 1 .. Len(q) : q[i] \in T
          BY <3>1, <4>1, ElementOfSeq
        <4>3. Len(q) \in Nat /\ DOMAIN q = 1 .. Len(q) /\ q = [i \in DOMAIN q |-> q[i]]
          BY <3>1, <4>1, LenProperties
        <4>4. q \in [1 .. Len(q) -> T]
          BY <4>2, <4>3
        <4> QED
          BY <3>1, <4>3, <4>4, FunctionIsSeq
      <3>3. /\ <<d>> \o q \in Seq(T) /\ Len(<<d>> \o q) = Len(q) + 1
            /\ (<<d>> \o q)[1] = d
            /\ \A i \in 1 .. Len(q) : (<<d>> \o q)[i + 1] = q[i]
        BY <3>2, ConsLemma
      <3>4. PICK s : s = <<d>> \o q /\ s = pci_devices'
        BY <2>2, <3>1
      <3> SUFFICES ASSUME NEW i \in 1 .. Len(s) PROVE s[i].driver = NoDriver
        BY <3>4
      <3>5. n \in Nat
        BY <3>1, <3>2, LenProperties
      <3>6. CASE i = 1
        BY <2>2, <3>3, <3>4, <3>6
      <3>7. CASE i # 1
        <4>1. i - 1 \in 1 .. Len(q) /\ (i - 1) + 1 = i
          BY <3>1, <3>3, <3>4, <3>5, <3>7
        <4>2. s[i] = q[i - 1]
          BY <3>3, <3>4, <4>1
        <4> QED
          BY <1>3, <3>1, <4>1, <4>2
      <3> QED
        BY <3>6, <3>7
    <2>3. \/ UNCHANGED pci_devices
          \/ \E d : d.driver = NoDriver /\ pci_devices' = <<d>> \o pci_devices
      <3>1. \A a, node : Device(a, node).driver = NoDriver
        BY DEF Device
      <3> QED
        BY <3>1 DEF PCI, PciNext, StartGroup, pci_check_func, Return, PciDone, pciVars
    <2> QED
      BY <2>1, <2>2, <2>3
  <1>5. Driven = {} /\ Driven' = {}
    BY <1>3, <1>4 DEF Driven
  <1>6. DriversRight'
    <2>1. Controllers' = Controllers
      BY DEF Controllers
    <2> QED
      BY <1>1, <1>2, <1>4, <1>5, <2>1 DEF DriversRight
  <1> QED
    BY <1>2, <1>6

LEMMA NvmeInvInit == Init => NvmeInv
  <1> SUFFICES ASSUME Init PROVE NvmeInv
    OBVIOUS
  <1>1. /\ stage = "kinit" /\ pci_devices = <<>> /\ NvmeInit /\ PciInv
    BY PciInvInit DEF Init, PciInit
  <1>2. /\ Len(pci_devices) = 0 /\ 1 .. Len(pci_devices) = {} /\ Driven = {}
    BY <1>1 DEF Driven
  <1>3. HwTypes
    <2>1. /\ DOMAIN hw = Controllers /\ hw = [a \in Controllers |-> hw[a]]
          /\ \A a \in Controllers :
               hw[a] = [en |-> machine.functions[a].ctrl.on,
                        rdy |-> machine.functions[a].ctrl.on,
                        cfs |-> FALSE, queues |-> {}]
      BY <1>1 DEF NvmeInit
    <2>2. \A a \in Controllers : machine.functions[a].ctrl.on \in BOOLEAN
      BY MachineInit, NvmeAssumption DEF Controllers
    <2>3. ASSUME NEW a \in Controllers
          PROVE  /\ hw[a] = [en |-> hw[a].en, rdy |-> hw[a].rdy, cfs |-> hw[a].cfs,
                             queues |-> hw[a].queues]
                 /\ hw[a].en \in BOOLEAN /\ hw[a].rdy \in BOOLEAN
                 /\ hw[a].cfs \in BOOLEAN
      <3>1. PICK on, f, e : /\ on = machine.functions[a].ctrl.on /\ f = FALSE /\ e = {}
        OBVIOUS
      <3>2. /\ hw[a] = [en |-> on, rdy |-> on, cfs |-> f, queues |-> e]
            /\ on \in BOOLEAN /\ f \in BOOLEAN
        BY <2>1, <2>2, <3>1
      <3> QED
        BY <3>2
    <2> QED
      BY <2>1, <2>3 DEF HwTypes
  <1>4. DriversRight
    <2>1. probe = 1 /\ nvme_ctrls = <<>> /\ Len(nvme_ctrls) = 0
      BY <1>1 DEF NvmeInit
    <2> QED
      BY <1>2, <2>1 DEF DriversRight, Distinct, Elements
  <1>5. InHandRight
    BY <1>1 DEF InHandRight, InHand
  <1> QED
    BY <1>1, <1>3, <1>4, <1>5 DEF NvmeInv, NvmeInit

LEMMA NvmeInvNext == NvmeInv /\ [Next]_vars => NvmeInv'
  <1> SUFFICES ASSUME NvmeInv, [Next]_vars PROVE NvmeInv'
    OBVIOUS
  <1>1. UNCHANGED machine /\ PciInv'
    BY MachineNext, PciInvNext DEF NvmeInv
  <1>2. ASSUME Apart PROVE NvmeInv'
    BY <1>1, <1>2, ApartStep DEF NvmeInv
  <1>3. CASE Start \/ Time \/ Mman \/ ACPI \/ Ps2Step(Ps2Next) \/ Ps2Step(Peripherals)
    BY <1>2, <1>3, ApartLemma
  <1>4. CASE PCI
    BY <1>1, <1>4, PciDrivers DEF NvmeInv
  <1>5. ASSUME HwTypes' /\ DriversRight' /\ InHandRight',
               stage' \notin PreStages \cup {"pci"}
        PROVE  NvmeInv'
    BY <1>1, <1>5 DEF NvmeInv
  <1>6. CASE NVMeStep(NvmeNext)
    <2>1. stage' \notin PreStages \cup {"pci"}
      BY <1>6 DEF NVMeStep, NvmeNext, nvme_attach, WaitDisabled, nvme_enable, WaitEnabled,
                  CheckAnswer, nvme_list, NvmeDone, Done, Go, PreStages, Calibrating
    <2>2. HwTypes' /\ DriversRight' /\ InHandRight'
      BY <1>1, <1>6, AttachStep, EnableStep, WaitStep, ListStep DEF NVMeStep, NvmeNext
    <2> QED
      BY <1>5, <2>1, <2>2
  <1>7. CASE NVMeStep(Controller)
    <2>1. stage' \in Driving
      BY <1>7 DEF NVMeStep, Controller, ControllerStep
    <2>2. stage' \notin PreStages \cup {"pci"}
      BY <2>1 DEF Driving, PreStages, Calibrating
    <2> QED
      BY <1>1, <1>5, <1>7, <2>2, ControllerAnswers DEF NVMeStep
  <1>8. CASE NVMeStep(Tick)
    <2>1. /\ UNCHANGED <<stage, probe, hw, nvme_ctrls, pci_devices>>
          /\ stage \in {"disabling", "enabling"}
      BY <1>8 DEF NVMeStep, Tick
    <2>2. stage' \notin PreStages \cup {"pci"}
      BY <2>1 DEF PreStages, Calibrating
    <2>3. HwTypes /\ DriversRight /\ InHandRight
      BY DEF NvmeInv
    <2>4. HwTypes' /\ DriversRight'
      <3>1. \A a \in Driven : hw'[a].en /\ hw'[a].rdy
        BY <2>1, <2>3 DEF DriversRight
      <3> QED
        BY <1>1, <2>1, <2>3, <3>1, SameHw, DriversKept
    <2>5. InHandRight'
      <3>1. stage = "enabling" => hw'[a0].en
        BY <2>1, <2>3 DEF InHandRight
      <3> QED
        BY <1>1, <2>1, <2>3, <3>1, InHandKept
    <2> QED
      BY <1>5, <2>2, <2>4, <2>5
  <1>9. CASE UNCHANGED vars
    BY <1>2, <1>9 DEF vars, pciVars, Apart
  <1> QED
    BY <1>3, <1>4, <1>6, <1>7, <1>8, <1>9 DEF Next, Kernel, Devices, TimePasses

LEMMA ListedUsableLemma ==
  ASSUME NvmeInv
  PROVE  ListedUsable
  <1>1. DriversRight /\ pci_devices \in Seq(DeviceType)
    BY DEF NvmeInv, PciInv, TreeInv, TreeTypes
  <1>2. DOMAIN nvme_ctrls = 1 .. Len(nvme_ctrls) /\ DOMAIN pci_devices = 1 .. Len(pci_devices)
    BY <1>1 DEF DriversRight
  <1>3. IsInjective(nvme_ctrls)
    BY <1>1, <1>2 DEF DriversRight, Distinct, IsInjective
  <1>4. Range(nvme_ctrls) = Driven
    BY <1>1, <1>2 DEF DriversRight, Elements, Range
  <1>5. Driven = {d.addr : d \in {e \in Range(pci_devices) : e.driver # NoDriver}}
    BY <1>2 DEF Driven, Addr, Range
  <1> QED
    BY <1>1, <1>3, <1>4, <1>5 DEF ListedUsable, DriversRight, Usable

\* A controller is listed once, and only when it is enabled, has said that it is
\* ready and can be used, whenever its answers come.
THEOREM ListedAreUsable == Spec => []ListedUsable
  <1>1. NvmeInv => ListedUsable
    BY ListedUsableLemma
  <1> QED
    BY NvmeInvInit, NvmeInvNext, <1>1, PTL DEF Spec

----------------------------------------------------------------------------
(* The entries of the map *)

\* An entry of the map is a base and a number of pages, below the direct map.
LEMMA EntryLemma ==
  ASSUME machine \in Machines
  PROVE  /\ machine.top \in Nat
         /\ Len(machine.mmap) \in Nat /\ DOMAIN machine.mmap = 1 .. Len(machine.mmap)
         /\ \A i \in 1 .. Len(machine.mmap) :
              /\ machine.mmap[i].base \in Nat /\ machine.mmap[i].n \in Nat
              /\ machine.mmap[i].base + machine.mmap[i].n <= Hhdm
  <1> DEFINE R == [type : STRING, base : Nat, n : Nat]
  <1>1. PICK s : s = machine.mmap
    OBVIOUS
  <1>2. s \in Seq(R) /\ machine.top \in Nat /\ \A i \in DOMAIN s : s[i].base + s[i].n <= Hhdm
    BY <1>1, MemoryAssumption
  <1>3. Len(s) \in Nat /\ DOMAIN s = 1 .. Len(s)
    BY <1>2, LenProperties
  <1>4. \A i \in 1 .. Len(s) : s[i] \in R
    BY <1>2, ElementOfSeq
  <1>5. \A i \in 1 .. Len(s) : s[i].base \in Nat /\ s[i].n \in Nat
    BY <1>4
  <1> QED
    BY <1>1, <1>2, <1>3, <1>5

\* Pages of some types: finitely many, below the direct map, each in an entry.
LEMMA PagesLemma ==
  ASSUME machine \in Machines, NEW types
  PROVE  /\ PagesOf(types) \subseteq 0 .. Hhdm - 1
         /\ IsFiniteSet(PagesOf(types)) /\ Cardinality(PagesOf(types)) \in Nat
         /\ \A p : p \in PagesOf(types) <=> \E i \in Entries(types) : p \in Span(machine.mmap[i])
  <1>1. \A p : p \in PagesOf(types) <=> \E i \in Entries(types) : p \in Span(machine.mmap[i])
    BY DEF PagesOf
  <1>2. Hhdm \in Nat
    BY MemoryAssumption
  <1>3. ASSUME NEW i \in Entries(types)
        PROVE  Span(machine.mmap[i]) \subseteq 0 .. Hhdm - 1
    <2>1. i \in 1 .. Len(machine.mmap)
      BY EntryLemma DEF Entries
    <2>2. PICK e : e = machine.mmap[i]
      OBVIOUS
    <2>3. e.base \in Nat /\ e.n \in Nat /\ e.base + e.n <= Hhdm
      BY <2>1, <2>2, EntryLemma
    <2>4. Span(e) \subseteq 0 .. Hhdm - 1
      BY <1>2, <2>3 DEF Span
    <2> QED
      BY <2>2, <2>4
  <1>4. PagesOf(types) \subseteq 0 .. Hhdm - 1
    BY <1>1, <1>3
  <1>5. IsFiniteSet(0 .. Hhdm - 1)
    <2>1. 0 \in Int /\ Hhdm - 1 \in Int
      BY <1>2
    <2> QED
      BY <2>1, FS_Interval
  <1>6. IsFiniteSet(PagesOf(types))
    BY <1>4, <1>5, FS_Subset
  <1> QED
    BY <1>1, <1>4, <1>6, FS_CardinalityType

\* As many pages are reserved behind the bitmap as the numbers of all take.
LEMMA ReserveLemma ==
  ASSUME machine \in Machines
  PROVE  /\ mem_size \in Nat /\ reserve \in Nat /\ BitmapPages \in Nat
         /\ mem_size <= (reserve - BitmapPages) * PerPage
  <1>1. mem_size \in Nat
    BY PagesLemma DEF mem_size
  <1>2. PerPage \in Nat \ {0} /\ BitmapPages \in Nat
    BY MemoryAssumption
  <1> DEFINE t == mem_size + PerPage - 1
             q == t \div PerPage
             r == t % PerPage
  <1>3. t \in Nat
    BY <1>1, <1>2
  <1>4. q \in Nat /\ r \in 0 .. PerPage - 1 /\ t = q * PerPage + r
    BY <1>2, <1>3, DivNat
  <1>5. reserve = BitmapPages + q
    BY DEF reserve
  <1> HIDE DEF q, r
  <1>6. reserve \in Nat /\ reserve - BitmapPages = q
    BY <1>2, <1>4, <1>5
  <1>7. PICK a \in Int : a = q * PerPage
    BY <1>2, <1>4
  <1>8. mem_size <= a
    BY <1>1, <1>2, <1>4, <1>7
  <1> QED
    BY <1>1, <1>2, <1>6, <1>7, <1>8

----------------------------------------------------------------------------
(* The direct map *)

\* D maps the pages from a to b - 1, each once, and aligned.
Tiles(D, a, b) ==
  /\ \A d \in D : d.at % d.size = 0
  /\ \A c, d \in D : c # d => Extent(c) \cap Extent(d) = {}
  /\ \A d \in D : Extent(d) \subseteq a .. b - 1
  /\ \A x \in a .. b - 1 : \E d \in D : x \in Extent(d)

\* No mappings for no pages.
LEMMA TilesNone ==
  ASSUME NEW a \in Int, NEW size
  PROVE  Tiles(Mappings(a, size, 0), a, a)
  <1>1. Mappings(a, size, 0) = {}
    BY DEF Mappings
  <1>2. a .. a - 1 = {}
    OBVIOUS
  <1> QED
    BY <1>1, <1>2 DEF Tiles

\* Mappings of one size one behind the other, from a multiple of it on.
LEMMA TilesMappings ==
  ASSUME NEW a \in Int, NEW size \in Nat \ {0}, NEW k \in Nat, Multiple(a, size)
  PROVE  Tiles(Mappings(a, size, k), a, a + k * size)
  <1> DEFINE M(i) == [at |-> a + i * size, size |-> size]
             S(i) == a + i * size .. a + i * size + size - 1
             D == Mappings(a, size, k)
  <1>1. D = {M(i) : i \in 0 .. k - 1}
    BY DEF Mappings
  <1>2. \A i \in 0 .. k - 1 : M(i).at = a + i * size /\ M(i).size = size /\ Extent(M(i)) = S(i)
    BY DEF Extent
  <1>3. ASSUME NEW i \in 0 .. k - 1
        PROVE  (a + i * size) % size = 0
    <2>0. i \in Int /\ size \in Int
      OBVIOUS
    <2>1. Multiple(i * size, size)
      BY <2>0, MultipleOf, Zenon
    <2>2. i * size \in Int
      OBVIOUS
    <2>3. PICK b \in Int : b = i * size
      BY <2>2
    <2>4. Multiple(a + b, size)
      BY <2>1, <2>3, MultipleSum
    <2>5. a + b \in Int
      BY <2>3
    <2>6. (a + b) % size = 0
      BY <2>4, <2>5, MultipleMod
    <2> QED
      BY <2>3, <2>6
  <1>4. ASSUME NEW i \in 0 .. k - 1, NEW j \in 0 .. k - 1, i < j
        PROVE  S(i) \cap S(j) = {}
    <2>0. i \in Int /\ j \in Int /\ size \in Nat
      OBVIOUS
    <2>1. i * size + size <= j * size
      BY <1>4, <2>0, Monotone, Zenon
    <2>2. PICK p \in Int : p = i * size
      OBVIOUS
    <2>3. PICK q \in Int : q = j * size
      OBVIOUS
    <2> QED
      BY <2>1, <2>2, <2>3
  <1>5. ASSUME NEW i \in 0 .. k - 1
        PROVE  S(i) \subseteq a .. a + k * size - 1
    <2>0. i \in Int /\ k \in Int /\ size \in Nat /\ i < k
      OBVIOUS
    <2>1. i * size + size <= k * size
      BY <2>0, Monotone, Zenon
    <2>2. PICK p \in Int : p = i * size
      OBVIOUS
    <2>3. PICK q \in Int : q = k * size
      OBVIOUS
    <2>4. 0 <= p
      BY <2>2
    <2> QED
      BY <2>1, <2>2, <2>3, <2>4
  <1>6. ASSUME NEW x \in a .. a + k * size - 1
        PROVE  \E i \in 0 .. k - 1 : x \in S(i)
    <2>1. PICK y \in Int : y = x - a
      OBVIOUS
    <2> DEFINE i == y \div size
               r == y % size
    <2>2. i \in Int /\ r \in 0 .. size - 1 /\ y = size * i + r
      BY DivLemma
    <2> HIDE DEF i, r
    <2>3. PICK q \in Int : q = k * size
      OBVIOUS
    <2>4. y >= 0 /\ y < q
      BY <2>1, <2>3
    <2>5. i >= 0
      BY <2>2, <2>4
    <2>6. i < k
      <3>1. CASE k <= i
        <4>1. k * size <= i * size
          BY <2>2, <3>1
        <4>2. y < k * size
          BY <2>3, <2>4
        <4>3. i * size = size * i
          BY <2>2
        <4>4. PICK p \in Int : p = i * size
          BY <2>2
        <4> QED
          BY <2>2, <2>3, <4>1, <4>2, <4>3, <4>4
      <3> QED
        BY <2>2, <3>1
    <2>7. x \in S(i)
      <3>1. i * size = size * i
        BY <2>2
      <3>2. PICK p \in Int : p = i * size
        BY <2>2
      <3> QED
        BY <2>1, <2>2, <3>1, <3>2
    <2> QED
      BY <2>2, <2>5, <2>6, <2>7
  <1> HIDE DEF M, S, D
  <1>7. \A d \in D : d.at % d.size = 0
    BY <1>1, <1>2, <1>3
  <1>8. ASSUME NEW c \in D, NEW d \in D, c # d
        PROVE  Extent(c) \cap Extent(d) = {}
    <2>1. PICK i \in 0 .. k - 1 : c = M(i)
      BY <1>1
    <2>2. PICK j \in 0 .. k - 1 : d = M(j)
      BY <1>1
    <2>3. i < j \/ j < i
      BY <1>8, <2>1, <2>2
    <2> QED
      BY <1>2, <1>4, <2>1, <2>2, <2>3
  <1>9. \A x \in a .. a + k * size - 1 : \E d \in D : x \in Extent(d)
    BY <1>1, <1>2, <1>6
  <1>10. \A d \in D : Extent(d) \subseteq a .. a + k * size - 1
    BY <1>1, <1>2, <1>5
  <1> QED
    BY <1>7, <1>8, <1>9, <1>10 DEF Tiles, D

\* Mappings of what comes first and of what comes next.
LEMMA TilesJoin ==
  ASSUME NEW D, NEW E, NEW a \in Int, NEW b \in Int, NEW c \in Int,
         a <= b, b <= c, Tiles(D, a, b), Tiles(E, b, c)
  PROVE  Tiles(D \cup E, a, c)
  <1>1. \A d \in D \cup E : d.at % d.size = 0
    BY Zenon DEF Tiles
  <1>2. /\ \A d \in D : Extent(d) \subseteq a .. b - 1
        /\ \A d \in E : Extent(d) \subseteq b .. c - 1
    BY DEF Tiles
  <1>3. (a .. b - 1) \cap (b .. c - 1) = {}
    OBVIOUS
  <1>4. ASSUME NEW x \in D \cup E, NEW y \in D \cup E, x # y
        PROVE  Extent(x) \cap Extent(y) = {}
    <2>1. CASE x \in D /\ y \in D
      BY <1>4, <2>1 DEF Tiles
    <2>2. CASE x \in E /\ y \in E
      BY <1>4, <2>2 DEF Tiles
    <2>3. CASE x \in D /\ y \in E
      BY <1>2, <1>3, <2>3
    <2>4. CASE x \in E /\ y \in D
      BY <1>2, <1>3, <2>4
    <2> QED
      BY <1>4, <2>1, <2>2, <2>3, <2>4
  <1>5. \A d \in D \cup E : Extent(d) \subseteq a .. c - 1
    <2>1. (a .. b - 1) \subseteq a .. c - 1 /\ (b .. c - 1) \subseteq a .. c - 1
      OBVIOUS
    <2> QED
      BY <1>2, <2>1, Zenon
  <1>6. ASSUME NEW x \in a .. c - 1
        PROVE  \E d \in D \cup E : x \in Extent(d)
    <2>1. x \in a .. b - 1 \/ x \in b .. c - 1
      OBVIOUS
    <2> QED
      BY <2>1, Zenon DEF Tiles
  <1> QED
    BY <1>1, <1>4, <1>5, <1>6, Zenon DEF Tiles

\* A multiple of 1 GiB is one of 2 MiB.
LEMMA SizesLemma ==
  /\ Mid \in Nat \ {0} /\ Big \in Nat \ {0} /\ Multiple(Big, Mid)
  <1>1. Mid \in Nat \ {0} /\ Big \in Nat \ {0} /\ Big % Mid = 0
    BY MemoryAssumption
  <1>2. Big \in Int
    BY <1>1
  <1> QED
    BY <1>1, <1>2, MultipleMod, Zenon

\* The 2 MiB mappings in front of the next multiple of 1 GiB.
LEMMA PadToLemma ==
  ASSUME NEW s \in Nat, NEW p \in Nat, p = 0 \/ Multiple(s, Mid), NEW k, k = PadTo(s, p)
  PROVE  /\ k \in Nat /\ k * Mid <= p
         /\ p - k * Mid < Mid \/ Multiple(s + k * Mid, Big)
  <1>1. Mid \in Nat \ {0} /\ Big \in Nat \ {0} /\ Mid \in Int /\ Big \in Int
    BY SizesLemma
  <1> DEFINE q == p \div Mid
             r == p % Mid
             h == (-s) % Big
             w == h \div Mid
             t == h % Mid
  <1>2. q \in Int /\ r \in 0 .. Mid - 1 /\ p = Mid * q + r
    BY <1>1, DivLemma
  <1>3. h \in 0 .. Big - 1 /\ Multiple(s + h, Big)
    <2>1. s \in Int
      OBVIOUS
    <2> QED
      BY <1>1, <2>1, UpwardsInduction, Zenon
  <1> HIDE DEF h
  <1>4. w \in Int /\ t \in 0 .. Mid - 1 /\ h = Mid * w + t
    <2>1. h \in Int
      BY <1>3, <1>1
    <2> QED
      BY <1>1, <2>1, DivLemma
  <1>5. k = IF q < w THEN q ELSE w
    BY DEF PadTo, Smaller, h
  <1> HIDE DEF q, r, w, t
  <1>6. q >= 0 /\ w >= 0
    BY <1>1, <1>2, <1>3, <1>4
  <1>7. k \in Nat /\ k <= q
    BY <1>2, <1>4, <1>5, <1>6
  <1>8. k * Mid <= q * Mid
    BY <1>1, <1>2, <1>7
  <1>9. PICK a \in Int : a = q * Mid
    BY <1>1, <1>2
  <1>10. Mid * q = a
    BY <1>1, <1>2, <1>9
  <1>11. PICK b \in Int : b = k * Mid
    BY <1>1, <1>7
  <1>12. b <= p
    BY <1>2, <1>8, <1>9, <1>10, <1>11
  <1>13. CASE k = q
    <2>1. p - b < Mid
      BY <1>1, <1>2, <1>9, <1>10, <1>11, <1>13
    <2> QED
      BY <1>7, <1>11, <1>12, <2>1
  <1>14. CASE p = 0
    <2>1. b >= 0
      BY <1>1, <1>7, <1>11
    <2>2. p - b < Mid
      BY <1>1, <1>14, <2>1
    <2> QED
      BY <1>7, <1>11, <1>12, <2>2
  <1>15. CASE k = w /\ Multiple(s, Mid)
    <2>1. s \in Int /\ h \in Int /\ s + h \in Int /\ (s + h) - s = h
      BY <1>1, <1>3
    <2>2. Multiple(s + h, Mid)
      BY <1>1, <1>3, <2>1, SizesLemma, MultipleTrans, Zenon
    <2>3. Multiple(h, Mid)
      <3>1. PICK x \in Int : x = s + h
        BY <2>1
      <3>2. x - s = h /\ Multiple(x, Mid)
        BY <2>1, <2>2, <3>1
      <3>3. Multiple(x - s, Mid)
        BY <1>1, <1>15, <2>1, <3>2, MultipleSum
      <3> QED
        BY <3>2, <3>3
    <2>4. h % Mid = 0
      BY <1>1, <2>1, <2>3, MultipleMod, Zenon
    <2>5. t = 0
      BY <2>4 DEF t
    <2>6. b = h
      BY <1>1, <1>4, <1>7, <1>11, <1>15, <2>5
    <2>7. Multiple(s + b, Big)
      BY <1>3, <2>6
    <2> QED
      BY <1>7, <1>11, <1>12, <2>7
  <1> QED
    BY <1>5, <1>13, <1>14, <1>15

\* The single pages in front of the next multiple of 2 MiB.
LEMMA PadLemma ==
  ASSUME NEW at \in Nat, NEW n \in Nat, NEW k, k = Smaller(n, (-at) % Mid)
  PROVE  k \in Nat /\ k <= n /\ (n - k = 0 \/ Multiple(at + k, Mid))
  <1>1. Mid \in Nat \ {0} /\ at \in Int
    BY SizesLemma
  <1> DEFINE h == (-at) % Mid
  <1>2. h \in 0 .. Mid - 1 /\ Multiple(at + h, Mid)
    BY <1>1, UpwardsInduction, Zenon
  <1>3. k = IF n < h THEN n ELSE h
    BY DEF Smaller
  <1> HIDE DEF h
  <1>4. k = n \/ k = h
    BY <1>3
  <1> QED
    BY <1>1, <1>2, <1>3, <1>4

\* What is left is divided into the largest pages that fit.
LEMMA LargestLemma ==
  ASSUME NEW n \in Nat, NEW bigs, bigs = n \div Big, NEW more, more = (n % Big) \div Mid
  PROVE  /\ bigs \in Nat /\ more \in Nat
         /\ bigs * Big + more * Mid <= n
         /\ n < Mid => bigs = 0 /\ more = 0
         /\ n < Big => bigs = 0
  <1>1. Mid \in Nat \ {0} /\ Big \in Nat \ {0} /\ Multiple(Big, Mid)
    BY SizesLemma
  <1>2. Mid <= Big
    <2>1. PICK q \in Int : Big = Mid * q
      BY <1>1 DEF Multiple
    <2>2. q >= 1
      BY <1>1, <2>1
    <2> QED
      BY <1>1, <2>1, <2>2
  <1> DEFINE R == n % Big
             x == n \div Big
             y == R \div Mid
             r == R % Mid
  <1>3. x \in Nat /\ R \in 0 .. Big - 1 /\ n = x * Big + R /\ (n < Big => x = 0 /\ R = n)
    BY <1>1, DivNat
  <1>4. R \in Nat
    BY <1>1, <1>3
  <1>5. bigs = x /\ more = y
    BY Zenon
  <1> HIDE DEF R, x
  <1>6. y \in Nat /\ r \in 0 .. Mid - 1 /\ R = y * Mid + r /\ (R < Mid => y = 0)
    BY <1>1, <1>4, DivNat
  <1> HIDE DEF r, y
  <1>7. PICK a \in Nat : a = x * Big
    BY <1>1, <1>3
  <1>8. PICK b \in Nat : b = y * Mid
    BY <1>1, <1>6
  <1>9. a + b <= n
    BY <1>1, <1>3, <1>6, <1>7, <1>8
  <1>10. n < Mid => x = 0 /\ y = 0
    BY <1>1, <1>2, <1>3, <1>6
  <1>11. /\ x \in Nat /\ y \in Nat
         /\ x * Big + y * Mid <= n
         /\ n < Mid => x = 0 /\ y = 0
         /\ n < Big => x = 0
    BY <1>3, <1>6, <1>7, <1>8, <1>9, <1>10
  <1> QED
    BY <1>5, <1>11, Zenon

\* If there are none of a size, they need not be aligned to it.
LEMMA TilesMaybe ==
  ASSUME NEW a \in Int, NEW size \in Nat \ {0}, NEW k \in Nat,
         k = 0 \/ Multiple(a, size)
  PROVE  Tiles(Mappings(a, size, k), a, a + k * size)
  <1>1. CASE k = 0
    <2>1. a + 0 * size = a
      OBVIOUS
    <2> QED
      BY <1>1, <2>1, TilesNone
  <1>2. CASE Multiple(a, size)
    BY <1>2, TilesMappings
  <1> QED
    BY <1>1, <1>2

\* The five loops map each page of a range once, in aligned mappings.
LEMMA DirectMapTiles ==
  ASSUME NEW at \in Nat, NEW n \in Nat
  PROVE  Tiles(DirectMap(at, n), at, at + n)
  <1> DEFINE pad  == Smaller(n, (-at) % Mid)
             at2  == at + pad
             mids == PadTo(at2, n - pad)
             at3  == at2 + mids * Mid
             n3   == at + n - at3
             bigs == n3 \div Big
             more == (n3 % Big) \div Mid
             at4  == at3 + bigs * Big
             at5  == at4 + more * Mid
             last == at + n - at5
  <1>1. DirectMap(at, n)
          = ((((Mappings(at, 1, pad) \cup Mappings(at2, Mid, mids))
               \cup Mappings(at3, Big, bigs)) \cup Mappings(at4, Mid, more))
             \cup Mappings(at5, 1, last))
    BY Zenon DEF DirectMap
  <1>2. /\ Mid \in Nat \ {0} /\ Big \in Nat \ {0} /\ Multiple(Big, Mid)
        /\ Mid \in Int /\ Big \in Int
    BY SizesLemma
  <1>3. pad \in Nat /\ pad <= n /\ (n - pad = 0 \/ Multiple(at2, Mid))
    BY PadLemma
  <1> HIDE DEF pad
  <1>4. at2 \in Nat /\ n - pad \in Nat /\ at <= at2
    BY <1>3
  <1>5. /\ mids \in Nat /\ mids * Mid <= n - pad
        /\ n - pad - mids * Mid < Mid \/ Multiple(at3, Big)
    BY <1>3, <1>4, PadToLemma
  <1> HIDE DEF mids
  <1>6. PICK a \in Nat : a = mids * Mid
    BY <1>2, <1>5
  <1>7. /\ at3 = at2 + a /\ n3 = n - pad - a /\ n3 \in Nat /\ at3 \in Nat
        /\ at2 <= at3 /\ at3 + n3 = at + n
    <2>1. at3 = at2 + a
      BY <1>6
    <2>2. n3 = at + n - at3
      OBVIOUS
    <2>3. at2 = at + pad
      OBVIOUS
    <2>4. a <= n - pad
      BY <1>5, <1>6
    <2>5. pad \in Nat /\ pad <= n /\ a \in Nat
      BY <1>3
    <2> HIDE DEF at2, at3, n3
    <2> QED
      BY <2>1, <2>2, <2>3, <2>4, <2>5
  <1>8. n3 = 0 \/ Multiple(at3, Mid)
    <2>1. CASE n - pad = 0
      BY <1>5, <1>6, <1>7, <2>1
    <2>2. CASE Multiple(at2, Mid)
      <3>1. mids \in Int /\ a \in Int /\ at2 \in Int
        BY <1>5, <1>4, <1>6
      <3>2. Multiple(a, Mid)
        BY <1>2, <1>6, <3>1, MultipleOf
      <3>3. Multiple(at2 + a, Mid)
        BY <1>2, <2>2, <3>1, <3>2, MultipleSum, Zenon
      <3> QED
        BY <1>7, <3>3
    <2> QED
      BY <1>3, <2>1, <2>2
  <1>9. n3 < Mid \/ Multiple(at3, Big)
    BY <1>5, <1>6, <1>7
  <1> HIDE DEF at2, at3, n3
  <1>10. /\ bigs \in Nat /\ more \in Nat
         /\ bigs * Big + more * Mid <= n3
         /\ n3 < Mid => bigs = 0 /\ more = 0
         /\ n3 < Big => bigs = 0
    BY <1>7, LargestLemma
  <1> HIDE DEF bigs, more
  <1>11. PICK b \in Nat : b = bigs * Big
    BY <1>2, <1>10
  <1>12. PICK c \in Nat : c = more * Mid
    BY <1>2, <1>10
  <1>13. /\ at4 = at3 + b /\ at5 = at4 + c /\ last = n3 - b - c /\ last \in Nat
         /\ at4 \in Nat /\ at5 \in Nat /\ at3 <= at4 /\ at4 <= at5 /\ at5 + last = at + n
         /\ at5 <= at + n
    BY <1>7, <1>10, <1>11, <1>12
  <1>14. bigs = 0 \/ Multiple(at3, Big)
    BY <1>9, <1>10
  <1>15. more = 0 \/ Multiple(at4, Mid)
    <2>1. CASE n3 = 0
      BY <1>2, <1>10, <2>1
    <2>2. CASE Multiple(at3, Mid)
      <3>1. bigs \in Int /\ b \in Int /\ at3 \in Int
        BY <1>10, <1>7, <1>11
      <3>2. Multiple(b, Big)
        BY <1>2, <1>11, <3>1, MultipleOf
      <3>3. Multiple(b, Mid)
        BY <1>2, <3>1, <3>2, MultipleTrans, Zenon
      <3>4. Multiple(at3 + b, Mid)
        BY <1>2, <2>2, <3>1, <3>3, MultipleSum, Zenon
      <3> QED
        BY <1>13, <3>4
    <2> QED
      BY <1>8, <2>1, <2>2
  <1> HIDE DEF at4, at5, last
  <1>16. Tiles(Mappings(at, 1, pad), at, at2)
    <2>1. Multiple(at, 1) /\ at2 = at + pad * 1
      BY <1>3 DEF Multiple, at2
    <2> QED
      BY <1>3, <2>1, TilesMaybe
  <1>17. Tiles(Mappings(at2, Mid, mids), at2, at3)
    <2>1. mids = 0 \/ Multiple(at2, Mid)
      <3>1. CASE n - pad = 0
        BY <1>2, <1>5, <3>1
      <3> QED
        BY <1>3, <3>1
    <2>2. at3 = at2 + mids * Mid /\ at2 \in Int
      BY <1>4 DEF at3
    <2> QED
      BY <1>2, <1>5, <2>1, <2>2, TilesMaybe
  <1>18. Tiles(Mappings(at3, Big, bigs), at3, at4)
    <2>1. at4 = at3 + bigs * Big /\ at3 \in Int
      BY <1>7 DEF at4
    <2> QED
      BY <1>2, <1>10, <1>14, <2>1, TilesMaybe
  <1>19. Tiles(Mappings(at4, Mid, more), at4, at5)
    <2>1. at5 = at4 + more * Mid /\ at4 \in Int
      BY <1>13 DEF at5
    <2> QED
      BY <1>2, <1>10, <1>15, <2>1, TilesMaybe
  <1>20. Tiles(Mappings(at5, 1, last), at5, at + n)
    <2>1. Multiple(at5, 1) /\ at + n = at5 + last * 1
      BY <1>13 DEF Multiple
    <2>2. at5 \in Int /\ last \in Nat
      BY <1>13
    <2> QED
      BY <2>1, <2>2, TilesMaybe
  <1>21. at \in Int /\ at2 \in Int /\ at3 \in Int /\ at4 \in Int /\ at5 \in Int /\ at + n \in Int
    BY <1>4, <1>7, <1>13
  <1>22. at <= at3 /\ at <= at4 /\ at <= at5
    BY <1>4, <1>7, <1>13, <1>21
  <1> DEFINE D1 == Mappings(at, 1, pad) \cup Mappings(at2, Mid, mids)
             D2 == D1 \cup Mappings(at3, Big, bigs)
             D3 == D2 \cup Mappings(at4, Mid, more)
  <1>23. Tiles(D1, at, at3)
    BY <1>4, <1>7, <1>16, <1>17, <1>21, TilesJoin, Zenon
  <1> HIDE DEF D1
  <1>24. Tiles(D2, at, at4)
    BY <1>22, <1>13, <1>18, <1>21, <1>23, TilesJoin, Zenon
  <1> HIDE DEF D2
  <1>25. Tiles(D3, at, at5)
    BY <1>22, <1>13, <1>19, <1>21, <1>24, TilesJoin, Zenon
  <1> HIDE DEF D3
  <1>26. Tiles(D3 \cup Mappings(at5, 1, last), at, at + n)
    BY <1>22, <1>13, <1>20, <1>21, <1>25, TilesJoin, Zenon
  <1> QED
    BY <1>1, <1>26, Zenon DEF D1, D2, D3

\* The memory that is mapped: the spans of the entries of these types.
Loaded == Entries({"usable", "bootloader"})
Maps(i) == DirectMap(machine.mmap[i].base, machine.mmap[i].n)

\* So are the pages of an entry.
LEMMA EntryTiles ==
  ASSUME machine \in Machines, NEW i \in Loaded
  PROVE  /\ \A d \in Maps(i) : d.at % d.size = 0 /\ Extent(d) \subseteq Span(machine.mmap[i])
         /\ \A c, d \in Maps(i) : c # d => Extent(c) \cap Extent(d) = {}
         /\ \A x \in Span(machine.mmap[i]) : \E d \in Maps(i) : x \in Extent(d)
  <1>1. i \in 1 .. Len(machine.mmap)
    BY EntryLemma DEF Loaded, Entries
  <1>2. machine.mmap[i].base \in Nat /\ machine.mmap[i].n \in Nat
    BY <1>1, EntryLemma
  <1>3. Tiles(Maps(i), machine.mmap[i].base, machine.mmap[i].base + machine.mmap[i].n)
    BY <1>2, DirectMapTiles DEF Maps
  <1>4. PICK a, b, D : /\ a = machine.mmap[i].base /\ b = a + machine.mmap[i].n
                       /\ D = Maps(i)
    OBVIOUS
  <1>5. Span(machine.mmap[i]) = a .. b - 1
    BY <1>2, <1>4 DEF Span
  <1>6. Tiles(D, a, b)
    BY <1>3, <1>4, Zenon
  <1>7. /\ \A d \in D : d.at % d.size = 0 /\ Extent(d) \subseteq a .. b - 1
        /\ \A c, d \in D : c # d => Extent(c) \cap Extent(d) = {}
        /\ \A x \in a .. b - 1 : \E d \in D : x \in Extent(d)
    BY <1>6, Zenon DEF Tiles
  <1> QED
    BY <1>4, <1>5, <1>7, Zenon

\* And as entries do not overlap, those of all.
LEMMA DirectMapLemma ==
  ASSUME machine \in Machines, UNCHANGED machine,
         direct' = UNION {Maps(i) : i \in Loaded}
  PROVE  DirectMapExact'
  <1>1. \A d \in direct' : \E i \in Loaded : d \in Maps(i)
    OBVIOUS
  <1>2. \A i \in Loaded : Maps(i) \subseteq direct'
    OBVIOUS
  <1>3. \A d \in direct' : d.at % d.size = 0
    BY <1>1, EntryTiles
  <1>4. ASSUME NEW c \in direct', NEW d \in direct', c # d
        PROVE  Extent(c) \cap Extent(d) = {}
    <2>1. PICK i \in Loaded : c \in Maps(i)
      BY <1>1
    <2>2. PICK j \in Loaded : d \in Maps(j)
      BY <1>1
    <2>3. CASE i = j
      BY <1>4, <2>1, <2>2, <2>3, EntryTiles
    <2>4. CASE i # j
      <3>1. Extent(c) \subseteq Span(machine.mmap[i]) /\ Extent(d) \subseteq Span(machine.mmap[j])
        BY <2>1, <2>2, EntryTiles
      <3>2. Span(machine.mmap[i]) \cap Span(machine.mmap[j]) = {}
        BY <2>4, MapAssumption DEF Loaded, Entries
      <3> QED
        BY <3>1, <3>2
    <2> QED
      BY <2>3, <2>4
  <1>5. PagesOf({"usable", "bootloader"})' = UNION {Span(machine.mmap[i]) : i \in Loaded}
    BY DEF PagesOf, Entries, Loaded
  <1>6. UNION {Extent(d) : d \in direct'} = UNION {Span(machine.mmap[i]) : i \in Loaded}
    <2>1. ASSUME NEW d \in direct', NEW x \in Extent(d)
          PROVE  \E i \in Loaded : x \in Span(machine.mmap[i])
      BY <1>1, EntryTiles
    <2>2. ASSUME NEW i \in Loaded, NEW x \in Span(machine.mmap[i])
          PROVE  \E d \in direct' : x \in Extent(d)
      BY <1>2, EntryTiles
    <2> QED
      BY <2>1, <2>2
  <1> QED
    BY <1>3, <1>4, <1>5, <1>6 DEF DirectMapExact

DirectInv == machine \in Machines /\ DirectMapExact

\* Nothing is mapped at first.
LEMMA DirectInvInit == Init => DirectInv
  BY DEF Init, MemInit, DirectInv, DirectMapExact

\* Nothing else writes the direct map.
LEMMA DirectStays == [Next]_vars => UNCHANGED direct \/ MapMemory
  <1>1. Mman => UNCHANGED direct \/ MapMemory
    BY DEF Mman, MemNext, BuildStores, Reclaim, vmem_init
  <1>2. Start \/ Time \/ ACPI \/ PCI => UNCHANGED direct
    <2>1. AcpiNext => UNCHANGED direct
      BY AcpiSteps DEF Exchange, memVars
    <2> QED
      BY <2>1 DEF Start, Time, ACPI, PCI, memVars
  <1>3. \/ NVMeStep(NvmeNext) \/ NVMeStep(Controller) \/ NVMeStep(Tick)
        \/ Ps2Step(Ps2Next) \/ Ps2Step(Peripherals)
        => UNCHANGED direct
    BY DEF NVMeStep, Ps2Step, memVars
  <1> QED
    BY <1>1, <1>2, <1>3 DEF Next, Kernel, Devices, TimePasses, vars, memVars

\* MapMemory is the only step that maps.
LEMMA DirectInvNext == DirectInv /\ [Next]_vars => DirectInv'
  <1> SUFFICES ASSUME DirectInv, [Next]_vars PROVE DirectInv'
    OBVIOUS
  <1>1. machine \in Machines /\ UNCHANGED machine
    BY MachineNext DEF DirectInv
  <1>2. CASE UNCHANGED direct
    BY <1>1, <1>2 DEF DirectInv, DirectMapExact, PagesOf, Entries
  <1>3. CASE MapMemory /\ ~ UNCHANGED direct
    <2>1. direct' = UNION {Maps(i) : i \in Loaded}
      BY <1>3 DEF MapMemory, Maps, Loaded
    <2> QED
      BY <1>1, <2>1, DirectMapLemma DEF DirectInv
  <1> QED
    BY <1>2, <1>3, DirectStays

\* Whatever the borders of the entries of the boot loader's map, each page of
\* usable and loader memory is in exactly one mapping of the direct map, and each
\* mapping is aligned to its size.
THEOREM DirectMapIsExact == Spec => []DirectMapExact
  <1>1. DirectInv => DirectMapExact
    BY DEF DirectInv
  <1> QED
    BY DirectInvInit, DirectInvNext, <1>1, PTL DEF Spec

----------------------------------------------------------------------------
(* Sequences one behind the other *)

\* The i-th element is what the first i of the sequences come to.
Flattened(g, s, n) ==
  g = [i \in 1 .. n |-> IF i = 1 THEN s[i] ELSE g[i - 1] \o s[i]]

\* How it goes on.
LEMMA FlattenedAt ==
  ASSUME NEW g, NEW s, NEW n \in Nat \ {0}, Flattened(g, s, n)
  PROVE  g[1] = s[1] /\ \A i \in 2 .. n : g[i] = g[i - 1] \o s[i]
  <1> DEFINE e == [j \in 1 .. n |-> IF j = 1 THEN s[j] ELSE g[j - 1] \o s[j]]
  <1>1. g = e
    BY Zenon DEF Flattened
  <1>2. e[1] = s[1]
    <2>1. 1 \in 1 .. n
      OBVIOUS
    <2> QED
      BY <2>1, Zenon
  <1>3. ASSUME NEW i \in 2 .. n PROVE e[i] = g[i - 1] \o s[i]
    <2>1. i \in 1 .. n /\ i # 1
      OBVIOUS
    <2> QED
      BY <2>1, Zenon
  <1> HIDE DEF e
  <1> QED
    BY <1>1, <1>2, <1>3, Zenon

\* Such a function exists, so that FlattenSeq's is one.
LEMMA FlattenedExists ==
  ASSUME NEW s, NEW n \in Nat \ {0}
  PROVE  \E g : Flattened(g, s, n)
  <1> DEFINE S == {k \in 1 .. n : ~ \E g : Flattened(g, s, k)}
  <1> SUFFICES ASSUME S # {} PROVE FALSE
    OBVIOUS
  <1>1. S \in SUBSET Nat
    OBVIOUS
  <1>2. PICK k \in S : \A m \in S : k <= m
    BY <1>1, LeastLemma
  <1>3. k \in 1 .. n /\ ~ \E g : Flattened(g, s, k)
    OBVIOUS
  <1>4. CASE k = 1
    <2> DEFINE g == [i \in 1 .. k |-> s[i]]
    <2>1. g = [i \in 1 .. k |-> IF i = 1 THEN s[i] ELSE g[i - 1] \o s[i]]
      BY <1>4
    <2> QED
      BY <1>3, <2>1 DEF Flattened
  <1>5. CASE k > 1
    <2>1. k - 1 \in 1 .. n /\ k - 1 \notin S
      BY <1>2, <1>3, <1>5
    <2>2. PICK g : Flattened(g, s, k - 1)
      BY <2>1
    <2> DEFINE h == [i \in 1 .. k |-> IF i = k THEN g[k - 1] \o s[k] ELSE g[i]]
               e == [i \in 1 .. k |-> IF i = 1 THEN s[i] ELSE h[i - 1] \o s[i]]
    <2>3. h[k] = g[k - 1] \o s[k] /\ \A i \in 1 .. k : i # k => h[i] = g[i]
      <3>1. k \in 1 .. k
        BY <1>3
      <3> QED
        BY <3>1, Zenon
    <2>4. e[1] = s[1] /\ \A i \in 1 .. k : i # 1 => e[i] = h[i - 1] \o s[i]
      <3>1. 1 \in 1 .. k
        BY <1>3
      <3> QED
        BY <3>1, Zenon
    <2>9. g[1] = s[1] /\ \A i \in 2 .. k - 1 : g[i] = g[i - 1] \o s[i]
      <3>1. k - 1 \in Nat \ {0}
        BY <1>3, <1>5
      <3> QED
        BY <2>2, <3>1, FlattenedAt, Zenon
    <2>5. h = [i \in 1 .. k |-> h[i]] /\ e = [i \in 1 .. k |-> e[i]]
      OBVIOUS
    <2> HIDE DEF h, e
    <2>6. ASSUME NEW i \in 1 .. k PROVE h[i] = e[i]
      <3>1. CASE i = 1
        <4>1. 1 \in 1 .. k - 1 /\ 1 \in 1 .. k /\ 1 # k
          BY <1>3, <1>5
        <4>2. h[1] = g[1] /\ e[1] = s[1]
          BY <2>3, <2>4, <4>1, Zenon
        <4> QED
          BY <2>9, <3>1, <4>2, Zenon
      <3>2. CASE i > 1 /\ i < k
        <4>1. i \in 2 .. k - 1 /\ i \in 1 .. k /\ i - 1 \in 1 .. k /\ i # k /\ i - 1 # k /\ i # 1
          BY <1>3, <3>2
        <4>2. h[i] = g[i] /\ h[i - 1] = g[i - 1]
          BY <2>3, <4>1, Zenon
        <4>3. g[i] = g[i - 1] \o s[i]
          BY <2>9, <4>1, Zenon
        <4>4. e[i] = h[i - 1] \o s[i]
          BY <2>4, <4>1, Zenon
        <4> QED
          BY <4>2, <4>3, <4>4, Zenon
      <3>3. CASE i = k
        <4>1. k \in 1 .. k /\ k - 1 \in 1 .. k /\ k - 1 # k /\ k # 1
          BY <1>3, <1>5
        <4>2. h[k - 1] = g[k - 1]
          BY <2>3, <4>1, Zenon
        <4>3. h[k] = g[k - 1] \o s[k]
          BY <2>3, <4>1, Zenon
        <4>4. e[k] = h[k - 1] \o s[k]
          BY <2>4, <4>1, Zenon
        <4> QED
          BY <3>3, <4>2, <4>3, <4>4, Zenon
      <3> QED
        BY <1>3, <3>1, <3>2, <3>3
    <2>7. h = e
      BY <2>5, <2>6, Zenon
    <2>8. Flattened(h, s, k)
      BY <2>7 DEF Flattened, e
    <2> QED
      BY <1>3, <2>8
  <1> QED
    BY <1>3, <1>4, <1>5

\* t has the elements of the n sequences; each once, if they do.
Flattens(t, s, n, T) ==
  /\ t \in Seq(T)
  /\ Elements(t) = UNION {Elements(s[i]) : i \in 1 .. n}
  /\ /\ \A i \in 1 .. n : Distinct(s[i])
     /\ \A i, j \in 1 .. n : i # j => Elements(s[i]) \cap Elements(s[j]) = {}
     => Distinct(t)

\* What FlattenSeq does.
LEMMA FlattenLemma ==
  ASSUME NEW T, NEW n \in Nat, NEW s \in [1 .. n -> Seq(T)]
  PROVE  Flattens(FlattenSeq(s), s, n, T)
  <1>1. Len(s) = n
    BY FunctionIsSeq
  <1>2. CASE n = 0
    <2>1. FlattenSeq(s) = s
      BY <1>1, <1>2 DEF FlattenSeq
    <2>2. s = <<>>
      BY <1>2
    <2>3. Elements(<<>>) = {} /\ Distinct(<<>>)
      BY DEF Elements, Distinct
    <2>4. {Elements(s[i]) : i \in 1 .. n} = {}
      BY <1>2
    <2>5. <<>> \in Seq(T)
      OBVIOUS
    <2> QED
      BY <2>1, <2>2, <2>3, <2>4, <2>5 DEF Flattens
  <1>3. CASE n > 0
    <2> DEFINE f == CHOOSE g : Flattened(g, s, n)
    <2>1. Flattened(f, s, n)
      <3>1. n \in Nat \ {0}
        BY <1>3
      <3>2. \E g : Flattened(g, s, n)
        BY <3>1, FlattenedExists
      <3> QED
        BY <3>2, Zenon
    <2>2. FlattenSeq(s) = f[n]
      BY <1>1, <1>3 DEF FlattenSeq, Flattened
    <2> HIDE DEF f
    <2>6. f[1] = s[1] /\ \A i \in 2 .. n : f[i] = f[i - 1] \o s[i]
      <3>1. n \in Nat \ {0}
        BY <1>3
      <3> QED
        BY <2>1, <3>1, FlattenedAt, Zenon
    <2> DEFINE All(k) == UNION {Elements(s[i]) : i \in 1 .. k}
               Parted == /\ \A i \in 1 .. n : Distinct(s[i])
                        /\ \A i, j \in 1 .. n : i # j => Elements(s[i]) \cap Elements(s[j]) = {}
               Good(k) == /\ f[k] \in Seq(T)
                          /\ \A x : x \in Elements(f[k]) <=> \E i \in 1 .. k : x \in Elements(s[i])
                          /\ Parted => Distinct(f[k])
               S == {k \in 1 .. n : ~ Good(k)}
    <2>3. S = {}
      <3> SUFFICES ASSUME S # {} PROVE FALSE
        OBVIOUS
      <3>1. S \in SUBSET Nat
        OBVIOUS
      <3>2. PICK k \in S : \A m \in S : k <= m
        BY <3>1, LeastLemma
      <3>3. k \in 1 .. n /\ ~ Good(k)
        OBVIOUS
      <3>4. CASE k = 1
        <4>1. f[k] = s[1]
          BY <2>6, <3>3, <3>4, Zenon
        <4>2. s[1] \in Seq(T) /\ 1 .. k = {1} /\ 1 \in 1 .. n
          BY <1>3, <3>4
        <4> QED
          BY <3>3, <4>1, <4>2
      <3>5. CASE k > 1
        <4>0. k - 1 \in 1 .. n /\ ~ (k <= k - 1) /\ k \in 2 .. n
          BY <3>3, <3>5
        <4>1. k - 1 \in 1 .. n /\ Good(k - 1)
          BY <3>2, <4>0, Zenon
        <4>2. f[k] = f[k - 1] \o s[k]
          BY <2>6, <3>3, <4>0, Zenon
        <4>3. s[k] \in Seq(T)
          BY <3>3
        <4>4. /\ f[k] \in Seq(T)
              /\ Elements(f[k]) = Elements(f[k - 1]) \cup Elements(s[k])
              /\ /\ Distinct(f[k - 1]) /\ Distinct(s[k])
                 /\ Elements(f[k - 1]) \cap Elements(s[k]) = {}
                 => Distinct(f[k])
          <5>1. PICK u, v : u = f[k - 1] /\ v = s[k]
            OBVIOUS
          <5>2. u \in Seq(T) /\ v \in Seq(T) /\ f[k] = u \o v
            BY <4>1, <4>2, <4>3, <5>1, Zenon
          <5> QED
            BY <5>1, <5>2, ConcatLemma
        <4>5. \A i : i \in 1 .. k <=> i \in 1 .. k - 1 \/ i = k
          BY <3>3
        <4>6. \A x : x \in Elements(f[k]) <=> \E i \in 1 .. k : x \in Elements(s[i])
          BY <4>1, <4>4, <4>5, Zenon
        <4>7. ASSUME Parted PROVE Distinct(f[k])
          <5>1. Distinct(f[k - 1]) /\ Distinct(s[k])
            BY <3>3, <4>1, <4>7
          <5>2. \A i \in 1 .. k - 1 : Elements(s[i]) \cap Elements(s[k]) = {}
            BY <3>3, <4>7
          <5>3. Elements(f[k - 1]) \cap Elements(s[k]) = {}
            BY <4>1, <5>2
          <5> QED
            BY <4>4, <5>1, <5>3
        <4> QED
          BY <3>3, <4>4, <4>6, <4>7
      <3>6. k = 1 \/ k > 1
        BY <3>3
      <3> QED
        BY <3>4, <3>5, <3>6, Zenon
    <2>4. Good(n)
      <3>1. n \in 1 .. n
        BY <1>3
      <3> QED
        BY <2>3, <3>1, Zenon
    <2>5. Elements(f[n]) = All(n)
      BY <2>4
    <2> QED
      BY <2>2, <2>4, <2>5 DEF Flattens
  <1> QED
    BY <1>2, <1>3

----------------------------------------------------------------------------
(* The page stack *)

Memory == PagesOf({"usable", "bootloader"})

\* A stack of distinct pages of the memory fits.
LEMMA FitsLemma ==
  ASSUME machine \in Machines, page_stack \in Seq(Nat), Distinct(page_stack),
         Elements(page_stack) \subseteq Memory
  PROVE  StackFits
  <1> DEFINE n == Len(page_stack)
             P == PagesOf(CountedTypes)
  <1>1. n \in Nat /\ DOMAIN page_stack = 1 .. n
    BY LenProperties
  <1>2. Memory \subseteq P
    BY DEF Memory, PagesOf, Entries, CountedTypes
  <1>3. \A i \in 1 .. n : page_stack[i] \in P
    BY <1>2 DEF Elements
  <1>4. page_stack \in [1 .. n -> P]
    BY <1>1, <1>3
  <1>5. page_stack \in Injection(1 .. n, P)
    BY <1>1, <1>4 DEF Injection, IsInjective, Distinct
  <1>6. IsFiniteSet(P) /\ Cardinality(P) = mem_size
    BY PagesLemma DEF mem_size
  <1>7. Cardinality(1 .. n) <= Cardinality(P)
    BY <1>5, <1>6, FS_Injection
  <1> HIDE DEF n, P
  <1>8. Cardinality(1 .. n) = n
    <2>1. n \in Nat /\ 1 \in Int /\ n \in Int
      BY <1>1
    <2>2. Cardinality(1 .. n) = IF 1 > n THEN 0 ELSE n - 1 + 1
      BY <2>1, FS_Interval, Zenon
    <2> QED
      BY <2>1, <2>2
  <1>9. n <= mem_size
    BY <1>6, <1>7, <1>8
  <1>10. PICK a : a = (reserve - BitmapPages) * PerPage
    OBVIOUS
  <1>11. a \in Int
    BY <1>10, ReserveLemma, MemoryAssumption
  <1>12. n <= a
    BY <1>1, <1>9, <1>10, <1>11, ReserveLemma
  <1> QED
    BY <1>10, <1>12 DEF StackFits, n

----------------------------------------------------------------------------
(* BuildStores *)

High == {p \in Nat : p >= LowPages}

\* What is pushed of an entry: its high pages, without the reserved ones.
LEMMA PushedLemma ==
  ASSUME NEW e, e.base \in Nat, e.n \in Nat, NEW at \in Nat, NEW q, q = Pushed(e, at),
         reserve \in Nat
  PROVE  /\ q \in Seq(Nat) /\ Distinct(q)
         /\ HighStart(e) # at => Elements(q) = Span(e) \cap High
         /\ HighStart(e) = at => Elements(q) = at + reserve .. e.base + e.n - 1
  <1>1. LowPages \in Nat
    BY MemoryAssumption
  <1> DEFINE low == IF HighStart(e) = at THEN at + reserve ELSE HighStart(e)
             last == e.base + e.n
             n == IF last - low < 0 THEN 0 ELSE last - low
  <1>2. /\ HighStart(e) \in Nat /\ HighStart(e) >= e.base /\ HighStart(e) >= LowPages
        /\ HighStart(e) = e.base \/ HighStart(e) = LowPages
    BY <1>1 DEF HighStart, Larger
  <1>3. low \in Nat /\ last \in Nat /\ n \in Nat /\ 1 .. n = 1 .. last - low
    <2>1. low \in Nat /\ last \in Nat
      BY <1>2
    <2> HIDE DEF low, last
    <2>2. n \in Nat /\ 1 .. n = 1 .. last - low
      BY <2>1
    <2> QED
      BY <2>1, <2>2
  <1>4. q = [k \in 1 .. last - low |-> last - k]
    <2>1. PICK f : f = low
      OBVIOUS
    <2>2. q = [k \in 1 .. e.base + e.n - f |-> e.base + e.n - k]
      BY <2>1, Zenon DEF Pushed
    <2>3. f \in Nat
      BY <1>3, <2>1
    <2>4. 1 .. e.base + e.n - f = 1 .. last - f
      BY <2>3
    <2>5. \A k \in 1 .. last - f : e.base + e.n - k = last - k
      BY <2>3
    <2> HIDE DEF last, low
    <2>6. q = [k \in 1 .. last - f |-> last - k]
      BY <2>2, <2>4, <2>5, Zenon
    <2> QED
      BY <2>1, <2>6
  <1> HIDE DEF low, last
  <1>5. q = [k \in 1 .. n |-> last - k] /\ \A k \in 1 .. n : last - k \in Nat /\ last - k >= low
    BY <1>3, <1>4
  <1>6. q \in [1 .. n -> Nat] /\ \A k \in 1 .. n : q[k] = last - k
    BY <1>5
  <1>7. q \in Seq(Nat) /\ Len(q) = n
    BY <1>3, <1>6, FunctionIsSeq
  <1>8. Distinct(q)
    BY <1>3, <1>6, <1>7 DEF Distinct
  <1>9. Elements(q) = low .. last - 1
    <2>1. \A k \in 1 .. n : q[k] \in low .. last - 1
      BY <1>3, <1>5, <1>6
    <2>2. ASSUME NEW p \in low .. last - 1 PROVE \E k \in 1 .. n : q[k] = p
      <3>1. last - p \in 1 .. n /\ last - (last - p) = p
        BY <1>3
      <3> QED
        BY <1>6, <3>1
    <2> QED
      BY <1>7, <2>1, <2>2 DEF Elements
  <1>10. ASSUME HighStart(e) # at PROVE Elements(q) = Span(e) \cap High
    <2>1. low = HighStart(e)
      BY <1>10 DEF low
    <2>2. PICK b, l : b = e.base /\ l = b + e.n - 1
      OBVIOUS
    <2>3. /\ b \in Nat /\ l \in Int /\ low \in Nat /\ low >= b /\ low >= LowPages
          /\ low = b \/ low = LowPages
      BY <1>2, <2>1, <2>2
    <2>4. low .. l = {p \in b .. l : p >= LowPages}
      BY <1>1, <2>3
    <2>5. Span(e) \cap High = {p \in b .. l : p >= LowPages}
      BY <2>2, <2>3 DEF Span, High
    <2>6. low .. last - 1 = Span(e) \cap High
      BY <2>2, <2>4, <2>5 DEF last
    <2> QED
      BY <1>9, <2>6
  <1>11. ASSUME HighStart(e) = at PROVE Elements(q) = at + reserve .. e.base + e.n - 1
    BY <1>9, <1>11 DEF low, last
  <1> QED
    BY <1>7, <1>8, <1>10, <1>11

Entry(i) == machine.mmap[i]
Usables == Entries({"usable"})

\* The pages reserved for the stores lie in one entry, behind its start.
LEMMA PlaceLemma ==
  ASSUME machine \in Machines, Candidates # {}, NEW at, at = HighStart(Entry(Min(Candidates)))
  PROVE  /\ at \in Nat /\ at >= LowPages
         /\ \E c \in Usables :
              /\ at = HighStart(Entry(c))
              /\ Entry(c).base + Entry(c).n > at + reserve
              /\ at .. at + reserve - 1 \subseteq Span(Entry(c)) \cap High
  <1> DEFINE c == Min(Candidates)
  <1>1. Candidates \subseteq Usables /\ Usables \subseteq 1 .. Len(machine.mmap)
        /\ Len(machine.mmap) \in Nat
    BY EntryLemma DEF Candidates, Usables, Entries
  <1>2. c \in Candidates
    <2>1. Candidates \in SUBSET Nat
      BY <1>1
    <2>2. \E x \in Candidates : \A y \in Candidates : x <= y
      BY <2>1, LeastLemma
    <2> QED
      BY <2>2 DEF Min
  <1> HIDE DEF c
  <1>3. PICK e : e = Entry(c)
    OBVIOUS
  <1>4. e.base \in Nat /\ e.n \in Nat
    BY <1>1, <1>2, <1>3, EntryLemma DEF Entry
  <1>5. at = HighStart(e) /\ e.base + e.n > HighStart(e) + reserve
    BY <1>2, <1>3 DEF Candidates, Entry, c
  <1>6. LowPages \in Nat /\ reserve \in Nat
    BY MemoryAssumption, ReserveLemma
  <1>7. at \in Nat /\ at >= LowPages /\ at >= e.base
    BY <1>4, <1>5, <1>6 DEF HighStart, Larger
  <1>8. at .. at + reserve - 1 \subseteq Span(e) \cap High
    BY <1>4, <1>5, <1>6, <1>7 DEF Span, High
  <1> QED
    BY <1>1, <1>2, <1>3, <1>5, <1>7, <1>8

Pushes(at) == [i \in DOMAIN machine.mmap |->
                 IF machine.mmap[i].type = "usable" THEN Pushed(machine.mmap[i], at) ELSE <<>>]

\* s is g backwards.
Backwards(s, g, n, T) ==
  /\ s \in [1 .. n -> T]
  /\ \A i \in 1 .. n : n - i + 1 \in 1 .. n /\ s[n - i + 1] = g[i]
  /\ \A i \in 1 .. n : n - i + 1 \in 1 .. n /\ s[i] = g[n - i + 1]

\* What Reverse does.
LEMMA ReverseLemma ==
  ASSUME NEW T, NEW n \in Nat, NEW g \in [1 .. n -> T]
  PROVE  Backwards(Reverse(g), g, n, T)
  <1>1. Len(g) = n
    BY FunctionIsSeq
  <1>2. Reverse(g) = [i \in 1 .. n |-> g[n - i + 1]]
    BY <1>1 DEF Reverse
  <1>3. \A i \in 1 .. n : n - i + 1 \in 1 .. n /\ n - (n - i + 1) + 1 = i
    OBVIOUS
  <1> QED
    BY <1>2, <1>3 DEF Backwards

\* The stack after BuildStores: the high usable pages, without the reserved ones.
LEMMA PushesLemma ==
  ASSUME machine \in Machines, Candidates # {}, NEW at, at = HighStart(Entry(Min(Candidates)))
  PROVE  LET t == FlattenSeq(Reverse(Pushes(at)))
             R == at .. at + reserve - 1
         IN  /\ t \in Seq(Nat) /\ Distinct(t)
             /\ Elements(t) = (PagesOf({"usable"}) \cap High) \ R
             /\ R \subseteq PagesOf({"usable"}) \cap High
  <1> DEFINE n == Len(machine.mmap)
             g == Pushes(at)
             s == Reverse(g)
             R == at .. at + reserve - 1
             S(i) == IF i \in Usables THEN (Span(Entry(i)) \cap High) \ R ELSE {}
  <1>1. n \in Nat /\ DOMAIN machine.mmap = 1 .. n /\ reserve \in Nat
    BY EntryLemma, ReserveLemma
  <1>2. PICK c \in Usables :
          /\ at \in Nat /\ at = HighStart(Entry(c))
          /\ Entry(c).base + Entry(c).n > at + reserve
          /\ R \subseteq Span(Entry(c)) \cap High
    BY PlaceLemma
  <1>3. \A i, j \in Usables : i # j => Span(Entry(i)) \cap Span(Entry(j)) = {}
    BY MapAssumption DEF Usables, Entries, Entry
  <1>4. \A i \in 1 .. n : i \in Usables <=> machine.mmap[i].type = "usable"
    BY <1>1 DEF Usables, Entries
  <1> HIDE DEF n, R
  <1>5. ASSUME NEW i \in 1 .. n
        PROVE  g[i] \in Seq(Nat) /\ Distinct(g[i]) /\ Elements(g[i]) = S(i)
    <2>1. CASE i \in Usables
      <3>1. PICK e : e = Entry(i)
        OBVIOUS
      <3>2. e.base \in Nat /\ e.n \in Nat
        BY <3>1, EntryLemma DEF Entry, n
      <3>3. PICK q : q = Pushed(e, at)
        OBVIOUS
      <3>4. g[i] = q
        BY <1>1, <1>4, <2>1, <3>1, <3>3 DEF Pushes, Entry
      <3>5. /\ q \in Seq(Nat) /\ Distinct(q)
            /\ HighStart(e) # at => Elements(q) = Span(e) \cap High
            /\ HighStart(e) = at => Elements(q) = at + reserve .. e.base + e.n - 1
        BY <1>1, <1>2, <3>2, <3>3, PushedLemma
      <3>6. Elements(q) = (Span(e) \cap High) \ R
        <4>1. CASE HighStart(e) # at
          <5>1. i # c
            BY <1>2, <3>1, <4>1
          <5>2. Span(e) \cap Span(Entry(c)) = {}
            BY <1>3, <2>1, <3>1, <5>1
          <5> QED
            BY <1>2, <3>5, <4>1, <5>2
        <4>2. CASE HighStart(e) = at /\ i = c
          <5>1. e.base + e.n > at + reserve
            BY <1>2, <3>1, <4>2
          <5>2. LowPages \in Nat /\ (at = e.base \/ at = LowPages) /\ at >= LowPages /\ at >= e.base
            BY <3>2, <4>2, MemoryAssumption DEF HighStart, Larger
          <5>3. at + reserve .. e.base + e.n - 1 = (Span(e) \cap High) \ R
            BY <1>1, <1>2, <3>2, <5>1, <5>2 DEF Span, High, R
          <5> QED
            BY <3>5, <4>2, <5>3
        <4>3. CASE HighStart(e) = at /\ i # c
          <5>1. LowPages \in Nat /\ (at = e.base \/ at = LowPages) /\ at >= LowPages /\ at >= e.base
            BY <3>2, <4>3, MemoryAssumption DEF HighStart, Larger
          <5>2. at \in Span(Entry(c))
            <6>1. PICK d : d = Entry(c)
              OBVIOUS
            <6>2. d.base \in Nat /\ d.n \in Nat
              BY <1>1, <6>1, EntryLemma DEF Entry, Usables, Entries
            <6>3. at >= d.base /\ d.base + d.n > at
              <7>1. LowPages \in Nat
                BY MemoryAssumption
              <7> QED
                BY <1>1, <1>2, <6>1, <6>2, <7>1 DEF HighStart, Larger
            <6> QED
              BY <1>2, <6>1, <6>2, <6>3 DEF Span
          <5>3. at \notin Span(e)
            BY <1>3, <2>1, <3>1, <4>3, <5>2
          <5>4. e.base + e.n <= at
            BY <1>2, <3>2, <5>1, <5>3 DEF Span
          <5>5. at + reserve .. e.base + e.n - 1 = {}
            BY <1>1, <1>2, <3>2, <5>4
          <5>6. Span(e) \cap High = {}
            BY <1>2, <3>2, <5>1, <5>4 DEF Span, High
          <5> QED
            BY <3>5, <4>3, <5>5, <5>6
        <4> QED
          BY <4>1, <4>2, <4>3
      <3> QED
        BY <2>1, <3>1, <3>4, <3>5, <3>6
    <2>2. CASE i \notin Usables
      <3>1. g[i] = <<>>
        BY <1>1, <1>4, <2>2 DEF Pushes
      <3>2. <<>> \in Seq(Nat) /\ Distinct(<<>>) /\ Elements(<<>>) = {}
        BY DEF Distinct, Elements
      <3> QED
        BY <2>2, <3>1, <3>2
    <2> QED
      BY <2>1, <2>2
  <1>6. DOMAIN g = 1 .. n /\ g = [i \in DOMAIN g |-> g[i]]
    BY <1>1 DEF Pushes, n
  <1> HIDE DEF g
  <1>7. g \in [1 .. n -> Seq(Nat)]
    BY <1>5, <1>6
  <1>8. /\ s \in [1 .. n -> Seq(Nat)]
        /\ \A i \in 1 .. n : n - i + 1 \in 1 .. n /\ s[n - i + 1] = g[i]
        /\ \A i \in 1 .. n : n - i + 1 \in 1 .. n /\ s[i] = g[n - i + 1]
    <2>1. n \in Nat
      BY <1>1 DEF n
    <2>2. Backwards(s, g, n, Seq(Nat))
      BY <1>7, <2>1, ReverseLemma, Zenon
    <2> QED
      BY <2>2 DEF Backwards
  <1> HIDE DEF s
  <1> DEFINE t == FlattenSeq(s)
  <1>9. \A i, j \in 1 .. n : i # j => S(i) \cap S(j) = {}
    BY <1>3
  <1>10. \A i \in 1 .. n : Distinct(s[i])
    BY <1>5, <1>8
  <1>11. \A i, j \in 1 .. n : i # j => Elements(s[i]) \cap Elements(s[j]) = {}
    <2> SUFFICES ASSUME NEW i \in 1 .. n, NEW j \in 1 .. n, i # j
                 PROVE  Elements(s[i]) \cap Elements(s[j]) = {}
      OBVIOUS
    <2>1. PICK k, l \in 1 .. n : k = n - i + 1 /\ l = n - j + 1
      BY <1>8
    <2>2. k # l
      BY <1>1, <2>1
    <2>3. s[i] = g[k] /\ s[j] = g[l]
      BY <1>8, <2>1
    <2>4. Elements(g[k]) = S(k) /\ Elements(g[l]) = S(l)
      BY <1>5
    <2> QED
      BY <1>9, <2>2, <2>3, <2>4, Zenon
  <1>12. /\ t \in Seq(Nat) /\ Distinct(t)
         /\ Elements(t) = UNION {Elements(s[i]) : i \in 1 .. n}
    <2>1. n \in Nat
      BY <1>1 DEF n
    <2>2. Flattens(t, s, n, Nat)
      BY <1>8, <2>1, FlattenLemma, Zenon
    <2> QED
      BY <1>10, <1>11, <2>2 DEF Flattens
  <1>13. \A p : p \in PagesOf({"usable"}) <=> \E i \in Usables : p \in Span(Entry(i))
    BY PagesLemma DEF Usables, Entry
  <1>14. Usables \subseteq 1 .. n
    BY <1>1 DEF Usables, Entries, n
  <1>15. \A p : p \in Elements(t) <=> \E i \in 1 .. n : p \in S(i)
    <2>1. \A p : p \in Elements(t) <=> \E i \in 1 .. n : p \in Elements(s[i])
      BY <1>12
    <2>2. ASSUME NEW p, NEW i \in 1 .. n, p \in Elements(s[i])
          PROVE  \E j \in 1 .. n : p \in S(j)
      BY <1>5, <1>8, <2>2
    <2>3. ASSUME NEW p, NEW j \in 1 .. n, p \in S(j)
          PROVE  \E i \in 1 .. n : p \in Elements(s[i])
      BY <1>5, <1>8, <2>3
    <2> QED
      BY <2>1, <2>2, <2>3, Zenon
  <1>16. Elements(t) = (PagesOf({"usable"}) \cap High) \ R
    <2>1. ASSUME NEW p \in Elements(t) PROVE p \in (PagesOf({"usable"}) \cap High) \ R
      BY <1>13, <1>15
    <2>2. ASSUME NEW p \in (PagesOf({"usable"}) \cap High) \ R PROVE p \in Elements(t)
      BY <1>13, <1>14, <1>15
    <2> QED
      BY <2>1, <2>2
  <1>17. R \subseteq PagesOf({"usable"}) \cap High
    BY <1>2, <1>13
  <1> QED
    BY <1>12, <1>16, <1>17 DEF t, s, g, R

----------------------------------------------------------------------------
(* Reclaim *)

Loaders == Entries({"bootloader"})

\* The address left out, a virtual one, is that of no page of the loader.
LEMMA ReclaimedLemma ==
  ASSUME machine \in Machines
  PROVE  Reclaimed = PagesOf({"bootloader"})
  <1>1. PagesOf({"bootloader"}) \subseteq 0 .. Hhdm - 1
    BY PagesLemma
  <1>2. Hhdm \in Nat /\ machine.top \in Nat
    BY MemoryAssumption, EntryLemma
  <1>3. Hhdm + machine.top \notin 0 .. Hhdm - 1
    BY <1>2
  <1> QED
    BY <1>1, <1>3 DEF Reclaimed

\* One page or none.
LEMMA SingleLemma ==
  ASSUME NEW T, NEW p \in T
  PROVE  /\ <<p>> \in Seq(T) /\ Distinct(<<p>>) /\ Elements(<<p>>) = {p}
         /\ <<>> \in Seq(T) /\ Distinct(<<>>) /\ Elements(<<>>) = {}
  BY DEF Distinct, Elements

\* The high pages of an entry.
LEMMA HighPagesLemma ==
  ASSUME machine \in Machines, NEW i \in Loaders, NEW q, q = HighPages(Entry(i))
  PROVE  q \in Seq(Nat) /\ Distinct(q) /\ Elements(q) = Span(Entry(i)) \cap High
  <1>1. PICK e, b, n : e = Entry(i) /\ b = e.base /\ n = e.n
    OBVIOUS
  <1>2. b \in Nat /\ n \in Nat /\ LowPages \in Nat
    BY <1>1, EntryLemma, MemoryAssumption DEF Entry, Loaders, Entries
  <1>3. Span(e) = b .. b + n - 1
    BY <1>1, <1>2 DEF Span
  <1>4. Span(e) \subseteq Reclaimed
    BY <1>1, ReclaimedLemma, PagesLemma DEF Loaders, Entry
  <1> DEFINE P(k) == b + k - 1
             s == [k \in 1 .. n |-> IF P(k) \in Reclaimed /\ P(k) >= LowPages
                                      THEN <<P(k)>> ELSE <<>>]
  <1>5. q = FlattenSeq(s)
    BY <1>1, Zenon DEF HighPages
  <1>6. \A k \in 1 .. n : s[k] = IF P(k) \in Reclaimed /\ P(k) >= LowPages
                                   THEN <<P(k)>> ELSE <<>>
    OBVIOUS
  <1>7. DOMAIN s = 1 .. n /\ s = [k \in 1 .. n |-> s[k]]
    OBVIOUS
  <1> HIDE DEF s
  <1>8. ASSUME NEW k \in 1 .. n
        PROVE  /\ s[k] \in Seq(Nat) /\ Distinct(s[k])
               /\ Elements(s[k]) = {P(k)} \cap High
    <2>1. PICK p \in Nat : p = P(k)
      BY <1>2
    <2>2. p \in Reclaimed
      BY <1>2, <1>3, <1>4, <2>1
    <2>3. CASE p >= LowPages
      <3>1. s[k] = <<p>>
        BY <1>6, <2>1, <2>2, <2>3
      <3>2. p \in High
        BY <2>3 DEF High
      <3>3. <<p>> \in Seq(Nat) /\ Distinct(<<p>>) /\ Elements(<<p>>) = {p}
        BY SingleLemma
      <3> QED
        BY <2>1, <3>1, <3>2, <3>3
    <2>4. CASE ~ (p >= LowPages)
      <3>1. s[k] = <<>>
        BY <1>6, <2>1, <2>4
      <3>2. p \notin High
        BY <2>4 DEF High
      <3>3. <<>> \in Seq(Nat) /\ Distinct(<<>>) /\ Elements(<<>>) = {}
        BY SingleLemma
      <3> QED
        BY <2>1, <3>1, <3>2, <3>3
    <2> QED
      BY <2>3, <2>4
  <1>9. s \in [1 .. n -> Seq(Nat)]
    BY <1>7, <1>8
  <1>10. Flattens(q, s, n, Nat)
    BY <1>2, <1>5, <1>9, FlattenLemma, Zenon
  <1>11. \A k, l \in 1 .. n : k # l => Elements(s[k]) \cap Elements(s[l]) = {}
    <2>1. \A k, l \in 1 .. n : k # l => P(k) # P(l)
      BY <1>2
    <2> HIDE DEF P
    <2> QED
      BY <1>8, <2>1
  <1>12. q \in Seq(Nat) /\ Distinct(q) /\ Elements(q) = UNION {Elements(s[k]) : k \in 1 .. n}
    BY <1>8, <1>10, <1>11 DEF Flattens
  <1>13. Elements(q) = Span(e) \cap High
    <2>1. \A k \in 1 .. n : P(k) \in Span(e)
      BY <1>2, <1>3
    <2>2. \A p \in Span(e) : \E k \in 1 .. n : p = P(k)
      <3> SUFFICES ASSUME NEW p \in Span(e) PROVE \E k \in 1 .. n : p = P(k)
        OBVIOUS
      <3>1. p - b + 1 \in 1 .. n /\ p = P(p - b + 1)
        BY <1>2, <1>3
      <3> QED
        BY <3>1
    <2> HIDE DEF P
    <2> QED
      BY <1>8, <1>12, <2>1, <2>2
  <1> QED
    BY <1>1, <1>12, <1>13

Reclaims == [i \in DOMAIN machine.mmap |->
               IF machine.mmap[i].type = "bootloader" THEN HighPages(machine.mmap[i]) ELSE <<>>]

\* What Reclaim pushes: the high pages of the loader.
LEMMA ReclaimsLemma ==
  ASSUME machine \in Machines, NEW t, t = FlattenSeq(Reclaims)
  PROVE  /\ t \in Seq(Nat) /\ Distinct(t)
         /\ Elements(t) = PagesOf({"bootloader"}) \cap High
  <1> DEFINE n == Len(machine.mmap)
             g == Reclaims
             S(i) == IF i \in Loaders THEN Span(Entry(i)) \cap High ELSE {}
  <1>1. n \in Nat /\ DOMAIN machine.mmap = 1 .. n
    BY EntryLemma
  <1>2. \A i, j \in Loaders : i # j => Span(Entry(i)) \cap Span(Entry(j)) = {}
    BY MapAssumption DEF Loaders, Entries, Entry
  <1>3. \A i \in 1 .. n : i \in Loaders <=> machine.mmap[i].type = "bootloader"
    BY <1>1 DEF Loaders, Entries
  <1>4. Loaders \subseteq 1 .. n
    BY <1>1 DEF Loaders, Entries
  <1> HIDE DEF n
  <1>5. ASSUME NEW i \in 1 .. n
        PROVE  g[i] \in Seq(Nat) /\ Distinct(g[i]) /\ Elements(g[i]) = S(i)
    <2>1. CASE i \in Loaders
      <3>1. PICK q : q = HighPages(Entry(i))
        OBVIOUS
      <3>2. g[i] = q
        BY <1>1, <1>3, <2>1, <3>1 DEF Reclaims, Entry
      <3> QED
        BY <2>1, <3>1, <3>2, HighPagesLemma
    <2>2. CASE i \notin Loaders
      <3>1. g[i] = <<>>
        BY <1>1, <1>3, <2>2 DEF Reclaims
      <3>2. <<>> \in Seq(Nat) /\ Distinct(<<>>) /\ Elements(<<>>) = {}
        BY DEF Distinct, Elements
      <3> QED
        BY <2>2, <3>1, <3>2
    <2> QED
      BY <2>1, <2>2
  <1>6. DOMAIN g = 1 .. n /\ g = [i \in DOMAIN g |-> g[i]]
    BY <1>1 DEF Reclaims, n
  <1> HIDE DEF g
  <1>7. g \in [1 .. n -> Seq(Nat)] /\ n \in Nat
    BY <1>1, <1>5, <1>6 DEF n
  <1>8. Flattens(t, g, n, Nat)
    BY <1>7, FlattenLemma, Zenon DEF g
  <1>9. \A i, j \in 1 .. n : i # j => S(i) \cap S(j) = {}
    BY <1>2
  <1>10. \A i, j \in 1 .. n : i # j => Elements(g[i]) \cap Elements(g[j]) = {}
    BY <1>5, <1>9, Zenon
  <1>11. /\ t \in Seq(Nat) /\ Distinct(t)
         /\ Elements(t) = UNION {Elements(g[i]) : i \in 1 .. n}
    BY <1>5, <1>8, <1>10 DEF Flattens
  <1>12. \A p : p \in PagesOf({"bootloader"}) <=> \E i \in Loaders : p \in Span(Entry(i))
    BY PagesLemma DEF Loaders, Entry
  <1>13. \A p : p \in Elements(t) <=> \E i \in 1 .. n : p \in S(i)
    <2>1. \A p : p \in Elements(t) <=> \E i \in 1 .. n : p \in Elements(g[i])
      BY <1>11
    <2> QED
      BY <1>5, <2>1, Zenon
  <1>14. Elements(t) = PagesOf({"bootloader"}) \cap High
    BY <1>4, <1>12, <1>13
  <1> QED
    BY <1>11, <1>14

----------------------------------------------------------------------------
(* Who has which page *)

\* The pages P are divided among the stack, the stores, the tables and the queues.
Divided(S, R, T, Q, P) ==
  /\ S \cap R = {} /\ S \cap T = {} /\ R \cap T = {}
  /\ \A a \in DOMAIN Q : Q[a] \cap S = {} /\ Q[a] \cap R = {} /\ Q[a] \cap T = {}
  /\ \A a, b \in DOMAIN Q : a # b => Q[a] \cap Q[b] = {}
  /\ \A p : p \in P <=> p \in S \/ p \in R \/ p \in T \/ \E a \in DOMAIN Q : p \in Q[a]

\* BuildStores.
LEMMA DividedFirst ==
  ASSUME NEW S, NEW R, NEW Q, NEW P, S = P \ R, R \subseteq P, \A a \in DOMAIN Q : Q[a] = {}
  PROVE  Divided(S, R, {}, Q, P)
  BY DEF Divided

\* Pages go from the stack to the tables, or come back.
LEMMA DividedShift ==
  ASSUME NEW S, NEW T, NEW S2, NEW T2, NEW R, NEW Q, NEW P,
         S2 \cup T2 = S \cup T, S2 \cap T2 = {}, Divided(S, R, T, Q, P)
  PROVE  Divided(S2, R, T2, Q, P)
  <1>1. /\ S \cap R = {} /\ R \cap T = {}
        /\ \A a \in DOMAIN Q : Q[a] \cap S = {} /\ Q[a] \cap R = {} /\ Q[a] \cap T = {}
        /\ \A a, b \in DOMAIN Q : a # b => Q[a] \cap Q[b] = {}
        /\ \A p : p \in P <=> p \in S \/ p \in R \/ p \in T \/ \E a \in DOMAIN Q : p \in Q[a]
    BY DEF Divided
  <1>2. \A p : p \in S2 \/ p \in T2 <=> p \in S \/ p \in T
    OBVIOUS
  <1>3. S2 \cap R = {} /\ R \cap T2 = {}
    BY <1>1, <1>2
  <1>4. \A a \in DOMAIN Q : Q[a] \cap S2 = {} /\ Q[a] \cap R = {} /\ Q[a] \cap T2 = {}
    BY <1>1, <1>2
  <1>5. \A p : p \in P <=> p \in S2 \/ p \in R \/ p \in T2 \/ \E a \in DOMAIN Q : p \in Q[a]
    BY <1>1, <1>2, Zenon
  <1> QED
    BY <1>1, <1>3, <1>4, <1>5, Zenon DEF Divided

\* More pages come onto the stack.
LEMMA DividedMore ==
  ASSUME NEW S, NEW R, NEW T, NEW Q, NEW P, NEW N, N \cap P = {}, Divided(S, R, T, Q, P)
  PROVE  Divided(S \cup N, R, T, Q, P \cup N)
  <1>1. /\ S \cap R = {} /\ S \cap T = {} /\ R \cap T = {}
        /\ \A a \in DOMAIN Q : Q[a] \cap S = {} /\ Q[a] \cap R = {} /\ Q[a] \cap T = {}
        /\ \A a, b \in DOMAIN Q : a # b => Q[a] \cap Q[b] = {}
        /\ \A p : p \in P <=> p \in S \/ p \in R \/ p \in T \/ \E a \in DOMAIN Q : p \in Q[a]
    BY DEF Divided
  <1>2. R \subseteq P /\ T \subseteq P /\ \A a \in DOMAIN Q : Q[a] \subseteq P
    BY <1>1
  <1>3. (S \cup N) \cap R = {} /\ (S \cup N) \cap T = {}
    BY <1>1, <1>2
  <1>4. \A a \in DOMAIN Q : Q[a] \cap (S \cup N) = {}
    BY <1>1, <1>2
  <1>5. \A p : p \in P \cup N <=> p \in S \cup N \/ p \in R \/ p \in T \/ \E a \in DOMAIN Q : p \in Q[a]
    BY <1>1, Zenon
  <1> QED
    BY <1>1, <1>3, <1>4, <1>5, Zenon DEF Divided

\* Pages that were on the stack become the queues of a controller.
LEMMA DividedQueue ==
  ASSUME NEW S, NEW R, NEW T, NEW Q, NEW P, NEW X, X \subseteq S, Divided(S, R, T, Q, P),
         NEW a \in DOMAIN Q, Q[a] = {}, NEW N, DOMAIN N = DOMAIN Q, N[a] = X,
         \A b \in DOMAIN Q : b # a => N[b] = Q[b]
  PROVE  Divided(S \ X, R, T, N, P)
  <1>1. /\ S \cap R = {} /\ S \cap T = {} /\ R \cap T = {}
        /\ \A b \in DOMAIN Q : Q[b] \cap S = {} /\ Q[b] \cap R = {} /\ Q[b] \cap T = {}
        /\ \A b, c \in DOMAIN Q : b # c => Q[b] \cap Q[c] = {}
        /\ \A p : p \in P <=> p \in S \/ p \in R \/ p \in T \/ \E b \in DOMAIN Q : p \in Q[b]
    BY DEF Divided
  <1>2. (S \ X) \cap R = {} /\ (S \ X) \cap T = {}
    BY <1>1
  <1>3. ASSUME NEW b \in DOMAIN N
        PROVE  N[b] \cap (S \ X) = {} /\ N[b] \cap R = {} /\ N[b] \cap T = {}
    <2>1. CASE b = a
      BY <1>1, <2>1
    <2>2. CASE b # a
      BY <1>1, <2>2
    <2> QED
      BY <2>1, <2>2
  <1>4. ASSUME NEW b \in DOMAIN N, NEW c \in DOMAIN N, b # c
        PROVE  N[b] \cap N[c] = {}
    <2>1. CASE b = a
      BY <1>1, <1>4, <2>1
    <2>2. CASE c = a
      BY <1>1, <1>4, <2>2
    <2>3. CASE b # a /\ c # a
      BY <1>1, <1>4, <2>3
    <2> QED
      BY <2>1, <2>2, <2>3
  <1>5. ASSUME NEW p
        PROVE  p \in P <=> p \in S \ X \/ p \in R \/ p \in T \/ \E b \in DOMAIN N : p \in N[b]
    <2>1. ASSUME NEW b \in DOMAIN N, p \in N[b] PROVE p \in P
      <3>1. CASE b = a
        BY <1>1, <2>1, <3>1
      <3>2. CASE b # a
        BY <1>1, <2>1, <3>2
      <3> QED
        BY <3>1, <3>2
    <2>2. ASSUME NEW b \in DOMAIN Q, p \in Q[b] PROVE \E c \in DOMAIN N : p \in N[c]
      <3>1. b # a
        BY <2>2
      <3> QED
        BY <2>2, <3>1
    <2>3. p \in S => p \in S \ X \/ \E b \in DOMAIN N : p \in N[b]
      OBVIOUS
    <2>4. p \in S \ X \/ p \in R \/ p \in T => p \in P
      BY <1>1
    <2> QED
      BY <1>1, <2>1, <2>2, <2>3, <2>4, Zenon
  <1> QED
    BY <1>1, <1>2, <1>3, <1>4, <1>5, Zenon DEF Divided

\* The stack without the k pages on top.
Rest(t, k) == k <= Len(page_stack) /\ t = SubSeq(page_stack, 1, Len(page_stack) - k)

\* Pages are taken from the top of the stack.
LEMMA TopLemma ==
  ASSUME page_stack \in Seq(Nat), Distinct(page_stack), NEW k \in Nat, NEW t, Rest(t, k)
  PROVE  /\ t \in Seq(Nat) /\ Distinct(t)
         /\ Top(k) \subseteq Elements(page_stack)
         /\ Elements(t) = Elements(page_stack) \ Top(k)
         /\ k > 0 => Top(k) # {}
  <1>1. PICK s, n : s = page_stack /\ n = Len(s) - k
    OBVIOUS
  <1>2. k <= Len(s) /\ t = SubSeq(s, 1, n) /\ Len(s) \in Nat /\ s \in Seq(Nat)
    BY <1>1, LenProperties DEF Rest
  <1>3. n \in Nat /\ n + 1 \in 1 .. Len(s) + 1 /\ n + 1 - 1 = n
    <2>1. PICK m : m = Len(s)
      OBVIOUS
    <2>2. m \in Nat /\ k <= m /\ n = m - k
      BY <1>1, <1>2, <2>1
    <2>3. n \in Nat /\ n + 1 \in 1 .. m + 1 /\ n + 1 - 1 = n
      BY <2>2
    <2> QED
      BY <2>1, <2>3
  <1>4. t \in Seq(Nat) /\ Len(t) = n /\ \A i \in 1 .. n : t[i] = s[i]
    BY <1>2, <1>3, FrontLemma
  <1>5. Distinct(t)
    <2>1. \A i \in 1 .. n : i \in 1 .. Len(s)
      BY <1>1, <1>2, <1>3
    <2>2. \A i, j \in 1 .. Len(s) : s[i] = s[j] => i = j
      BY <1>1 DEF Distinct
    <2> QED
      BY <1>4, <2>1, <2>2 DEF Distinct
  <1>6. Top(k) = {s[i] : i \in n + 1 .. Len(s)}
    BY <1>1, <1>2 DEF Top
  <1>7. Elements(t) = {s[i] : i \in 1 .. n}
    BY <1>4 DEF Elements
  <1>8. \A i \in 1 .. n : \A j \in n + 1 .. Len(s) : s[i] # s[j]
    BY <1>1, <1>2, <1>3 DEF Distinct
  <1>9. \A i \in 1 .. Len(s) : i \in 1 .. n \/ i \in n + 1 .. Len(s)
    BY <1>2, <1>3
  <1>10. (1 .. n) \subseteq 1 .. Len(s) /\ (n + 1 .. Len(s)) \subseteq 1 .. Len(s)
    BY <1>1, <1>2, <1>3
  <1>11. Elements(s) = {s[i] : i \in 1 .. Len(s)}
    BY DEF Elements
  <1>12. Top(k) \subseteq Elements(s)
    BY <1>6, <1>10, <1>11
  <1>13. Elements(t) = Elements(s) \ Top(k)
    BY <1>6, <1>7, <1>8, <1>9, <1>10, <1>11
  <1>14. k > 0 => Top(k) # {}
    <2> HAVE k > 0
    <2>1. Len(s) \in n + 1 .. Len(s)
      BY <1>1, <1>2, <1>3
    <2> QED
      BY <1>6, <2>1
  <1> QED
    BY <1>1, <1>4, <1>5, <1>12, <1>13, <1>14

LEMMA PopLemma ==
  ASSUME page_stack \in Seq(Nat), Distinct(page_stack), NEW k \in Nat, Pop(k)
  PROVE  /\ page_stack' \in Seq(Nat) /\ Distinct(page_stack')
         /\ Top(k) \subseteq Elements(page_stack)
         /\ Elements(page_stack') = Elements(page_stack) \ Top(k)
         /\ k > 0 => Top(k) # {}
  BY TopLemma DEF Pop, Rest

\* The stack and the tables have the same pages as before, each of them one.
Swapped ==
  \/ UNCHANGED <<page_stack, tables>>
  \/ /\ page_stack' \in Seq(Nat) /\ Distinct(page_stack')
     /\ Elements(page_stack') \cup tables' = Elements(page_stack) \cup tables
     /\ Elements(page_stack') \cap tables' = {}

\* So it is when some are taken.
LEMMA TakeLemma ==
  ASSUME page_stack \in Seq(Nat), Distinct(page_stack), Elements(page_stack) \cap tables = {},
         NEW k \in Nat, Take(k)
  PROVE  Swapped
  <1>1. Pop(k) /\ tables' = tables \cup Top(k)
    BY DEF Take
  <1>2. /\ page_stack' \in Seq(Nat) /\ Distinct(page_stack')
        /\ Top(k) \subseteq Elements(page_stack)
        /\ Elements(page_stack') = Elements(page_stack) \ Top(k)
    BY <1>1, PopLemma
  <1> QED
    BY <1>1, <1>2 DEF Swapped

\* A sequence of all the pages of a set.
LEMMA ListLemma ==
  ASSUME NEW B, IsFiniteSet(B), B \subseteq Nat, NEW q \in SetToSeqs(B)
  PROVE  q \in Seq(Nat) /\ Distinct(q) /\ Elements(q) = B
  <1>1. PICK n : n = Cardinality(B)
    OBVIOUS
  <1>2. n \in Nat
    BY <1>1, FS_CardinalityType
  <1>3. q \in [1 .. n -> B] /\ \A i, j \in 1 .. n : i # j => q[i] # q[j]
    BY <1>1 DEF SetToSeqs
  <1>4. q \in Seq(Nat) /\ Len(q) = n
    <2>1. q \in [1 .. n -> Nat]
      BY <1>3
    <2> QED
      BY <1>2, <2>1, SeqDef, LenProperties
  <1>5. Distinct(q)
    BY <1>3, <1>4 DEF Distinct
  <1>6. q \in Injection(1 .. n, B)
    BY <1>3 DEF Injection, IsInjective
  <1>7. Cardinality(1 .. n) = Cardinality(B)
    <2>1. 1 \in Int /\ n \in Int
      BY <1>2
    <2>2. Cardinality(1 .. n) = IF 1 > n THEN 0 ELSE n - 1 + 1
      BY <2>1, FS_Interval
    <2> QED
      BY <1>1, <1>2, <2>2
  <1>8. q \in Surjection(1 .. n, B)
    BY <1>6, <1>7, FS_Injection
  <1>9. Elements(q) = B
    <2>1. \A x \in B : \E i \in 1 .. n : q[i] = x
      BY <1>8 DEF Surjection
    <2>2. Elements(q) = {q[i] : i \in 1 .. n}
      BY <1>4 DEF Elements
    <2>3. \A i \in 1 .. n : q[i] \in B
      BY <1>3
    <2> QED
      BY <2>1, <2>2, <2>3
  <1> QED
    BY <1>4, <1>5, <1>9

\* So it is when unmap_page gives pages back.
LEMMA ExchangeLemma ==
  ASSUME page_stack \in Seq(Nat), Distinct(page_stack), Elements(page_stack) \cap tables = {},
         IsFiniteSet(Elements(page_stack) \cup tables), tables \subseteq Nat,
         NEW freed, Exchange(freed)
  PROVE  Swapped
  <1>1. PICK k \in 0 .. MaxTables : /\ MayTake(k)
                                    /\ \E back \in SUBSET (tables \cup Top(k)) :
                                         /\ tables' = (tables \cup Top(k)) \ back
                                         /\ \E q \in SetToSeqs(back) :
                                              page_stack' = SubSeq(page_stack, 1, Len(page_stack) - k) \o q
    BY DEF Exchange
  <1>2. PICK back \in SUBSET (tables \cup Top(k)) :
           /\ tables' = (tables \cup Top(k)) \ back
           /\ \E q \in SetToSeqs(back) :
                page_stack' = SubSeq(page_stack, 1, Len(page_stack) - k) \o q
    BY <1>1
  <1>3. PICK q \in SetToSeqs(back) :
          page_stack' = SubSeq(page_stack, 1, Len(page_stack) - k) \o q
    BY <1>2
  <1>4. PICK s : s = SubSeq(page_stack, 1, Len(page_stack) - k)
    OBVIOUS
  <1>5. k \in Nat /\ k <= Len(page_stack)
    BY <1>1, MemoryAssumption DEF MayTake
  <1>6. /\ s \in Seq(Nat) /\ Distinct(s) /\ Top(k) \subseteq Elements(page_stack)
        /\ Elements(s) = Elements(page_stack) \ Top(k)
    BY <1>4, <1>5, TopLemma DEF Rest
  <1>7. Elements(page_stack) \subseteq Nat
    BY ElementOfSeq, LenProperties DEF Elements
  <1>8. IsFiniteSet(back) /\ back \subseteq Nat
    <2>1. back \subseteq Elements(page_stack) \cup tables
      BY <1>2, <1>6
    <2> QED
      BY <1>7, <2>1, FS_Subset
  <1>9. q \in Seq(Nat) /\ Distinct(q) /\ Elements(q) = back
    BY <1>3, <1>8, ListLemma
  <1>10. Elements(s) \cap Elements(q) = {}
    BY <1>2, <1>6, <1>9
  <1>11. /\ page_stack' \in Seq(Nat) /\ Distinct(page_stack')
         /\ Elements(page_stack') = Elements(s) \cup back
    BY <1>3, <1>4, <1>6, <1>9, <1>10, ConcatLemma
  <1> QED
    BY <1>2, <1>6, <1>11 DEF Swapped

----------------------------------------------------------------------------
(* Each page has one use *)

Pool  == PagesOf({"usable"})
Taken == [a \in Controllers |-> hw[a].queues]

\* The pages in P are shared out: the low ones are free.
Shared(P) ==
  /\ bitmap = P \cap 0 .. LowPages - 1
  /\ Divided(Elements(page_stack), Reserved, tables, Taken, P \cap High)

\* Controllers of devices from the k-th on have no queues.
Fresh(k) == \A i \in 1 .. Len(pci_devices) :
              i >= k /\ Addr(i) \in Controllers => hw[Addr(i)].queues = {}

Early == Calibrating \cup {"memory_map", "mman", "page_tables"}
Whole == {"vmem", "acpi", "rsdp", "pci", "ps2"} \cup Driving
Ahead ==
  /\ stage \in {"nvme", "disabling", "check_disabled"} => Fresh(probe)
  /\ stage \in Driving => Fresh(probe + 1)

PagesInv ==
  /\ place \in Nat /\ page_stack \in Seq(Nat) /\ Distinct(page_stack)
  /\ Elements(page_stack) \subseteq Memory /\ \A p \in Elements(page_stack) : p >= LowPages
  /\ bitmap \subseteq 0 .. LowPages - 1
  /\ stage \in PreStages \cup {"pci"} => \A a \in Controllers : hw[a].queues = {}
  /\ stage \in Early => tables = {}
  /\ stage \in {"page_tables", "reclaim"} => Shared(Pool)
  /\ stage \in Whole => Shared(Memory)
  /\ Ahead

\* The memory is what is usable and what the loader takes up.
LEMMA MemoryLemma ==
  ASSUME machine \in Machines
  PROVE  /\ Memory = Pool \cup PagesOf({"bootloader"})
         /\ Pool \cap PagesOf({"bootloader"}) = {}
         /\ Memory \subseteq Nat
  <1>1. Memory = Pool \cup PagesOf({"bootloader"})
    BY DEF Memory, Pool, PagesOf, Entries
  <1>2. Pool \cap PagesOf({"bootloader"}) = {}
    <2> SUFFICES ASSUME NEW p \in Pool, p \in PagesOf({"bootloader"}) PROVE FALSE
      OBVIOUS
    <2>1. PICK i \in Usables : p \in Span(machine.mmap[i])
      BY DEF Pool, PagesOf, Usables
    <2>2. PICK j \in Loaders : p \in Span(machine.mmap[j])
      BY DEF PagesOf, Loaders
    <2>3. i # j
      BY DEF Usables, Loaders, Entries
    <2>4. Span(machine.mmap[i]) \cap Span(machine.mmap[j]) = {}
      BY <2>3, MapAssumption DEF Usables, Loaders, Entries
    <2> QED
      BY <2>1, <2>2, <2>4
  <1>3. Memory \subseteq Nat
    <2>1. Memory \subseteq 0 .. Hhdm - 1
      BY PagesLemma DEF Memory
    <2> QED
      BY <2>1, MemoryAssumption
  <1> QED
    BY <1>1, <1>2, <1>3

\* All of these depend on the machine alone.
LEMMA SamePages ==
  ASSUME UNCHANGED machine
  PROVE  /\ Memory' = Memory /\ Pool' = Pool /\ reserve' = reserve
         /\ Controllers' = Controllers
  <1>1. \A T : PagesOf(T)' = PagesOf(T)
    BY DEF PagesOf, Entries
  <1> QED
    BY <1>1 DEF Memory, Pool, reserve, mem_size, CountedTypes, Controllers, PagesOf, Entries

\* Steps that leave the pages where they are, but for the stack and the tables.
LEMMA SharedKept ==
  ASSUME UNCHANGED <<machine, bitmap, place>>, Swapped,
         \A a \in Controllers : hw'[a].queues = hw[a].queues
  PROVE  /\ Shared(Pool) => Shared(Pool)'
         /\ Shared(Memory) => Shared(Memory)'
  <1>1. /\ Memory' = Memory /\ Pool' = Pool /\ reserve' = reserve /\ Controllers' = Controllers
    BY SamePages
  <1>2. Taken' = Taken /\ Reserved' = Reserved /\ High' = High
    BY <1>1 DEF Taken, Reserved, High
  <1>3. ASSUME NEW P, Divided(Elements(page_stack), Reserved, tables, Taken, P)
        PROVE  Divided(Elements(page_stack'), Reserved, tables', Taken, P)
    <2>1. CASE UNCHANGED <<page_stack, tables>>
      BY <1>3, <2>1
    <2>2. CASE /\ Elements(page_stack') \cup tables' = Elements(page_stack) \cup tables
               /\ Elements(page_stack') \cap tables' = {}
      BY <1>3, <2>2, DividedShift
    <2> QED
      BY <2>1, <2>2 DEF Swapped
  <1> QED
    BY <1>1, <1>2, <1>3 DEF Shared

\* What is shared out lies in the memory.
LEMMA StoresApart ==
  ASSUME machine \in Machines, PagesInv, stage \in {"page_tables", "reclaim"} \cup Whole
  PROVE  /\ Elements(page_stack) \cap tables = {}
         /\ Elements(page_stack) \cup tables \subseteq Memory \cap High
         /\ IsFiniteSet(Elements(page_stack) \cup tables) /\ tables \subseteq Nat
  <1>1. Shared(Pool) \/ Shared(Memory)
    BY DEF PagesInv
  <1>2. /\ Elements(page_stack) \cap tables = {}
        /\ Elements(page_stack) \cup tables \subseteq Memory \cap High
    BY <1>1, MemoryLemma DEF Shared, Divided
  <1>3. IsFiniteSet(Memory) /\ Memory \subseteq Nat
    BY PagesLemma, MemoryLemma DEF Memory
  <1> QED
    BY <1>2, <1>3, FS_Subset

\* They stay shared out.
LEMMA PagesKept ==
  ASSUME PagesInv, UNCHANGED <<machine, bitmap, place>>, Swapped,
         \A a \in Controllers : hw'[a].queues = hw[a].queues,
         \/ UNCHANGED <<page_stack, tables>>
         \/ /\ machine \in Machines /\ stage \in {"page_tables"} \cup Whole
            /\ stage' \notin Early,
         stage' \in PreStages \cup {"pci"} => stage \in PreStages \cup {"pci"},
         stage' \in Early => stage \in Early,
         stage' \in {"page_tables", "reclaim"} => stage \in {"page_tables", "reclaim"},
         stage' \in Whole => stage \in Whole,
         Ahead'
  PROVE  PagesInv'
  <1>1. Memory' = Memory /\ Controllers' = Controllers
    BY SamePages
  <1>2. /\ Shared(Pool) => Shared(Pool)'
        /\ Shared(Memory) => Shared(Memory)'
    BY SharedKept
  <1>3. /\ page_stack' \in Seq(Nat) /\ Distinct(page_stack')
        /\ Elements(page_stack') \subseteq Memory
        /\ \A p \in Elements(page_stack') : p >= LowPages
    <2>1. CASE UNCHANGED <<page_stack, tables>>
      BY <2>1 DEF PagesInv
    <2>2. CASE /\ ~ UNCHANGED <<page_stack, tables>>
               /\ machine \in Machines /\ stage \in {"page_tables"} \cup Whole
      <3>1. Elements(page_stack) \cup tables \subseteq Memory \cap High
        BY <2>2, StoresApart
      <3>2. Elements(page_stack') \subseteq Memory \cap High
        BY <2>2, <3>1 DEF Swapped
      <3> QED
        BY <2>2, <3>2 DEF Swapped, High
    <2> QED
      BY <2>1, <2>2
  <1>4. stage' \in Early => tables' = {}
    BY DEF PagesInv
  <1>5. /\ place' \in Nat /\ bitmap' \subseteq 0 .. LowPages - 1
        /\ stage' \in PreStages \cup {"pci"} => \A a \in Controllers' : hw'[a].queues = {}
    BY <1>1 DEF PagesInv
  <1>6. /\ stage' \in {"page_tables", "reclaim"} => Shared(Pool)'
        /\ stage' \in Whole => Shared(Memory)'
    BY <1>2 DEF PagesInv
  <1> QED
    BY <1>1, <1>3, <1>4, <1>5, <1>6 DEF PagesInv

\* Devices are looked at one after the other.
LEMMA AheadKept ==
  ASSUME NvmeInv, PagesInv, UNCHANGED machine, Len(pci_devices') = Len(pci_devices),
         \A i \in 1 .. Len(pci_devices) : Addr(i)' = Addr(i),
         \A a \in Controllers : hw'[a].queues = hw[a].queues,
         \/ /\ probe' = probe
            /\ stage' \in {"nvme", "disabling", "check_disabled"}
                 => stage \in PreStages \cup {"pci", "nvme", "disabling", "check_disabled"}
            /\ stage' \in Driving => stage \in PreStages \cup {"pci"} \cup Driving
         \/ /\ probe' = probe + 1 /\ stage' = "nvme" /\ stage \in Driving
  PROVE  Ahead'
  <1>1. /\ Controllers' = Controllers
        /\ \A i \in 1 .. Len(pci_devices') : Addr(i)' = Addr(i) /\ i \in 1 .. Len(pci_devices)
    BY SamePages
  <1>2. \A k : Fresh(k) => \A i \in 1 .. Len(pci_devices') :
           i >= k /\ Addr(i)' \in Controllers' => hw'[Addr(i)'].queues = {}
    BY <1>1 DEF Fresh
  <1>3. probe \in Nat
    BY DEF NvmeInv, DriversRight
  <1>4. stage \in PreStages \cup {"pci"} => \A k : Fresh(k)
    BY DEF PagesInv, Fresh
  <1>5. CASE /\ probe' = probe
             /\ stage' \in {"nvme", "disabling", "check_disabled"}
                  => stage \in PreStages \cup {"pci", "nvme", "disabling", "check_disabled"}
             /\ stage' \in Driving => stage \in PreStages \cup {"pci"} \cup Driving
    <2>1. Fresh(probe) => Fresh(probe)'
      BY <1>2, <1>5 DEF Fresh
    <2>2. Fresh(probe + 1) => Fresh(probe + 1)'
      BY <1>2, <1>5 DEF Fresh
    <2> QED
      BY <1>4, <1>5, <2>1, <2>2 DEF Ahead, PagesInv, Driving
  <1>6. CASE probe' = probe + 1 /\ stage' = "nvme" /\ stage \in Driving
    <2>1. Fresh(probe + 1)
      BY <1>6 DEF PagesInv, Ahead
    <2>2. Fresh(probe)'
      BY <1>2, <1>6, <2>1 DEF Fresh
    <2>3. Fresh(probe + 1)'
      <3>1. \A i \in 1 .. Len(pci_devices') : i >= probe' + 1 => i >= probe'
        BY <1>3, <1>6
      <3> QED
        BY <2>2, <3>1 DEF Fresh
    <2> QED
      BY <1>6, <2>2, <2>3 DEF Ahead
  <1> QED
    BY <1>5, <1>6

\* Steps that touch neither the pages nor the controllers nor the driver.
Idle ==
  /\ UNCHANGED <<bitmap, page_stack, place, tables, hw, probe, pci_devices>>
  /\ stage' \in PreStages => stage \in PreStages
  /\ stage' \in Early => stage \in Early
  /\ stage' \in {"page_tables", "reclaim", "pci"} \cup Driving => stage' = stage
  /\ stage' \in Whole => stage \in Whole

\* Who does so: all but memory, ACPI, PCI and the driver.
LEMMA IdleParts ==
  Start \/ Time \/ Ps2Step(Ps2Next) \/ Ps2Step(Peripherals) => Idle
  <1>1. Start => Idle
    BY DEF Start, kinit, MemoryMap, LostAccess, At, Go, Idle, PreStages, Calibrating, Early, Whole,
           Driving, pciVars, memVars, nvmeVars
  <1>2. Time => Idle
    BY DEF Time, ClockNext, time_init, hlt, MaskTimer, TimerInterrupt, AfterFirstHlt,
           At, Go, Idle, PreStages, Calibrating, Early, Whole, Driving, pciVars, memVars,
           nvmeVars
  <1>3. Ps2Step(Ps2Next) => Idle
    BY DEF Ps2Step, Ps2Next, ps2_init, ResetKeyboard, ReadFirst, ReadSecond,
           ps2_register_kbd_isr, ReadConfig, At, Go, Idle, PreStages, Calibrating, Early,
           Whole, Driving, pciVars, memVars, nvmeVars
  <1>4. Ps2Step(Peripherals) => Idle
    BY DEF Ps2Step, Peripherals, KbdInterrupt, Reply, KbdByte, KeyPress, Arrive, Idle,
           pciVars, memVars, nvmeVars
  <1> QED
    BY <1>1, <1>2, <1>3, <1>4

\* Such steps keep the invariant.
LEMMA IdleStep ==
  ASSUME NvmeInv, PagesInv, Idle, UNCHANGED machine
  PROVE  PagesInv'
  <1>1. /\ UNCHANGED <<bitmap, page_stack, place, tables, hw, probe, pci_devices>>
        /\ stage' \in PreStages => stage \in PreStages
        /\ stage' \in Early => stage \in Early
        /\ stage' \in {"page_tables", "reclaim", "pci"} \cup Driving => stage' = stage
        /\ stage' \in Whole => stage \in Whole
    BY DEF Idle
  <1>2. Ahead'
    <2>1. /\ stage' \in {"nvme", "disabling", "check_disabled"}
               => stage \in PreStages \cup {"pci", "nvme", "disabling", "check_disabled"}
          /\ stage' \in Driving => stage \in PreStages \cup {"pci"} \cup Driving
      BY <1>1 DEF Driving
    <2>2. \A i \in 1 .. Len(pci_devices) : Addr(i)' = Addr(i)
      BY <1>1, SameDevices
    <2> QED
      BY <1>1, <2>1, <2>2, AheadKept
  <1> QED
    BY <1>1, <1>2, PagesKept DEF Swapped

\* acpi_init maps and unmaps pages; it ends with the enumeration or without.
LEMMA AcpiStep ==
  ASSUME NvmeInv, PagesInv, ACPI, UNCHANGED machine
  PROVE  PagesInv'
  <1>1. /\ stage \in {"acpi", "rsdp"} /\ stage' \in {"rsdp", "pci", "panic", "page_fault"}
        /\ UNCHANGED memVars \/ \E freed : Exchange(freed)
        /\ UNCHANGED <<hw, probe, pci_devices>>
    BY AcpiSteps DEF ACPI, nvmeVars, pciVars
  <1>2. machine \in Machines /\ page_stack \in Seq(Nat) /\ Distinct(page_stack)
    BY DEF NvmeInv, PciInv, TreeInv, TreeTypes, PagesInv
  <1>3. stage \in PreStages /\ stage \in Whole /\ stage' \notin Early /\ stage' \notin Driving
    BY <1>1 DEF PreStages, Whole, Early, Calibrating, Driving
  <1>4. UNCHANGED <<bitmap, place>> /\ Swapped
    <2>1. CASE UNCHANGED memVars
      BY <2>1 DEF memVars, Swapped
    <2>2. ASSUME NEW freed, Exchange(freed) PROVE UNCHANGED <<bitmap, place>> /\ Swapped
      <3>1. UNCHANGED <<bitmap, place>>
        BY <2>2 DEF Exchange
      <3> QED
        BY <1>2, <1>3, <2>2, <3>1, StoresApart, ExchangeLemma
    <2> QED
      BY <1>1, <2>1, <2>2
  <1>5. Ahead'
    BY <1>3 DEF Ahead, Driving
  <1>6. stage' \notin {"page_tables", "reclaim"}
    BY <1>1
  <1> QED
    BY <1>1, <1>2, <1>3, <1>4, <1>5, <1>6, PagesKept

\* The enumeration begins before and ends after controllers have queues.
LEMMA PciStep ==
  ASSUME NvmeInv, PagesInv, PCI, UNCHANGED machine
  PROVE  PagesInv'
  <1>1. /\ UNCHANGED <<bitmap, place, hw, probe>>
        /\ stage = "pci" /\ stage' \in {"pci", "nvme"}
        /\ UNCHANGED <<page_stack, tables>> \/ \E k \in 0 .. MaxTables : Take(k)
    BY DEF PCI, PciNext, StartGroup, pci_check_func, Return, PciDone, At, Go, nvmeVars
  <1>2. machine \in Machines /\ page_stack \in Seq(Nat) /\ Distinct(page_stack)
        /\ \A a \in Controllers : hw[a].queues = {}
    BY <1>1 DEF NvmeInv, PciInv, TreeInv, TreeTypes, PagesInv
  <1>3. Controllers' = Controllers
    BY SamePages
  <1>4. Ahead'
    BY <1>1, <1>2, <1>3 DEF Ahead, Fresh
  <1>5. stage \in Whole /\ stage' \notin Early
    BY <1>1 DEF Whole, Early, Calibrating
  <1>6. Swapped
    BY <1>1, <1>2, <1>5, StoresApart, TakeLemma, MemoryAssumption DEF Swapped
  <1>7. /\ stage' \in PreStages \cup {"pci"} => stage \in PreStages \cup {"pci"}
        /\ stage' \notin {"page_tables", "reclaim"}
    BY <1>1
  <1> QED
    BY <1>1, <1>2, <1>4, <1>5, <1>6, <1>7, PagesKept

\* The driver takes pages for the kernel, or none; nvme_enable is treated below.
LEMMA NvmeOtherStep ==
  ASSUME NvmeInv, PagesInv, UNCHANGED machine,
         UNCHANGED <<bitmap, place>>, Swapped,
         Len(pci_devices') = Len(pci_devices),
         \A i \in 1 .. Len(pci_devices) : Addr(i)' = Addr(i),
         \A a \in Controllers : hw'[a].queues = hw[a].queues,
         stage \in Driving, stage' \in Driving \cup {"ps2"},
         \/ /\ probe' = probe
            /\ stage' \in {"nvme", "disabling", "check_disabled"}
                 => stage \in {"nvme", "disabling", "check_disabled"}
         \/ probe' = probe + 1 /\ stage' = "nvme"
  PROVE  PagesInv'
  <1>1. Ahead'
    BY AheadKept
  <1>2. stage' \notin PreStages \cup {"pci"} /\ stage' \notin Early
        /\ stage' \notin {"page_tables", "reclaim"} /\ stage \in Whole
    BY DEF Driving, PreStages, Calibrating, Early, Whole
  <1>3. machine \in Machines
    BY DEF NvmeInv, PciInv, TreeInv, TreeTypes
  <1> QED
    BY <1>1, <1>2, <1>3, PagesKept

\* A controller does not change where its queues are.
LEMMA ControllerQueues ==
  ASSUME HwTypes, Controller
  PROVE  \A b \in Controllers : hw'[b].queues = hw[b].queues
  <1>0. PICK a \in Controllers : \E r :
          /\ hw' = [hw EXCEPT ![a] = r]
          /\ \/ r = [hw[a] EXCEPT !.rdy = FALSE, !.cfs = FALSE]
             \/ r = [hw[a] EXCEPT !.rdy = TRUE] \/ r = [hw[a] EXCEPT !.cfs = TRUE]
    BY DEF Controller, ControllerStep
  <1>1. PICK r :
          /\ hw' = [hw EXCEPT ![a] = r]
          /\ \/ r = [hw[a] EXCEPT !.rdy = FALSE, !.cfs = FALSE]
             \/ r = [hw[a] EXCEPT !.rdy = TRUE] \/ r = [hw[a] EXCEPT !.cfs = TRUE]
    BY <1>0
  <1>2. PICK c : c = hw[a]
    OBVIOUS
  <1>3. c = [en |-> c.en, rdy |-> c.rdy, cfs |-> c.cfs, queues |-> c.queues]
    BY <1>2 DEF HwTypes
  <1>4. r.queues = c.queues
    <2>1. CASE r = [c EXCEPT !.rdy = FALSE, !.cfs = FALSE]
      BY <1>3, <2>1
    <2>2. CASE r = [c EXCEPT !.rdy = TRUE] \/ r = [c EXCEPT !.cfs = TRUE]
      BY <1>3, <2>2
    <2> QED
      BY <1>1, <1>2, <2>1, <2>2
  <1>5. DOMAIN hw = Controllers
    BY DEF HwTypes
  <1> QED
    BY <1>1, <1>2, <1>4, <1>5

\* Nor does nvme_attach.
LEMMA AttachQueues ==
  ASSUME HwTypes, nvme_attach, a0 \in Controllers \/ hw' = hw
  PROVE  \A b \in Controllers : hw'[b].queues = hw[b].queues
  <1>1. CASE hw' = hw
    BY <1>1
  <1>2. CASE hw' # hw
    <2>1. PICK a, c : a = a0 /\ c = hw[a]
      OBVIOUS
    <2>2. hw' = [hw EXCEPT ![a] = [c EXCEPT !.en = FALSE]]
      BY <1>2, <2>1 DEF nvme_attach
    <2>3. c = [en |-> c.en, rdy |-> c.rdy, cfs |-> c.cfs, queues |-> c.queues]
      BY <1>2, <2>1 DEF HwTypes
    <2>4. PICK r : r = [c EXCEPT !.en = FALSE]
      OBVIOUS
    <2>5. r.queues = c.queues
      BY <2>3, <2>4
    <2>6. DOMAIN hw = Controllers
      BY DEF HwTypes
    <2> QED
      BY <2>1, <2>2, <2>4, <2>5, <2>6
  <1> QED
    BY <1>1, <1>2

\* nvme_enable gives its controller two pages.
LEMMA EnableQueues ==
  ASSUME HwTypes, a0 \in Controllers, nvme_enable, ~ csts.rdy
  PROVE  /\ hw'[a0].queues = Top(2)
         /\ \A b \in Controllers : b # a0 => hw'[b].queues = hw[b].queues
  <1>1. PICK a, c, top, sup : a = a0 /\ c = hw[a] /\ top = Top(2) /\ sup = Supported
    OBVIOUS
  <1>2. hw' = [hw EXCEPT ![a].queues = top, ![a].en = sup]
    BY <1>1 DEF nvme_enable
  <1>3. c = [en |-> c.en, rdy |-> c.rdy, cfs |-> c.cfs, queues |-> c.queues]
    BY <1>1 DEF HwTypes
  <1>4. DOMAIN hw = Controllers /\ hw = [b \in Controllers |-> hw[b]]
    BY DEF HwTypes
  <1>5. PICK r : r = [[c EXCEPT !.queues = top] EXCEPT !.en = sup]
    OBVIOUS
  <1>6. hw' = [hw EXCEPT ![a] = r]
    BY <1>1, <1>2, <1>4, <1>5
  <1>7. r.queues = top
    BY <1>3, <1>5
  <1> QED
    BY <1>1, <1>4, <1>6, <1>7

\* The stores are built of the usable pages.
LEMMA BuildStep ==
  ASSUME machine \in Machines, PagesInv, Mman, BuildStores, UNCHANGED machine
  PROVE  PagesInv'
  <1>1. stage = "mman" /\ UNCHANGED <<tables, hw, probe, pci_devices>>
    BY DEF Mman, BuildStores, At, nvmeVars, pciVars
  <1>2. tables = {} /\ \A a \in Controllers : hw[a].queues = {}
    BY <1>1 DEF PagesInv, Early, PreStages
  <1>3. /\ Memory' = Memory /\ Pool' = Pool /\ reserve' = reserve
        /\ Controllers' = Controllers
    BY SamePages
  <1>4. CASE Candidates = {}
    <2>1. stage' = "panic" /\ UNCHANGED <<place, bitmap, page_stack>>
      BY <1>4 DEF BuildStores, Go
    <2>2. stage' \notin PreStages \cup {"pci"} /\ stage' \notin Early
          /\ stage' \notin {"page_tables", "reclaim"} /\ stage' \notin Whole
          /\ stage' \notin Driving
      BY <2>1 DEF PreStages, Calibrating, Early, Whole, Driving
    <2>3. Ahead'
      BY <2>2 DEF Ahead, Driving
    <2> QED
      BY <1>1, <2>1, <2>2, <2>3, PagesKept DEF Swapped
  <1>5. CASE Candidates # {}
    <2>1. PICK at, t, R : /\ at = HighStart(Entry(Min(Candidates)))
                          /\ t = FlattenSeq(Reverse(Pushes(at))) /\ R = at .. at + reserve - 1
      OBVIOUS
    <2>2. /\ place' = at /\ bitmap' = Pool \cap 0 .. LowPages - 1 /\ stage' = "page_tables"
          /\ page_stack' = FlattenSeq(Reverse([i \in DOMAIN machine.mmap |->
               IF machine.mmap[i].type = "usable" THEN Pushed(machine.mmap[i], place')
                                                  ELSE <<>>]))
      BY <1>5, <2>1 DEF BuildStores, Go, Entry, Pool
    <2>3. page_stack' = t
      BY <2>1, <2>2, Zenon DEF Pushes
    <2>4. /\ t \in Seq(Nat) /\ Distinct(t) /\ Elements(t) = (Pool \cap High) \ R
          /\ R \subseteq Pool \cap High
      BY <1>5, <2>1, PushesLemma DEF Pool
    <2>5. at \in Nat
      BY <1>5, <2>1, PlaceLemma
    <2>6. Reserved' = R
      BY <1>3, <2>1, <2>2 DEF Reserved
    <2>7. \A a \in DOMAIN Taken' : Taken'[a] = {}
      BY <1>1, <1>2, <1>3 DEF Taken
    <2>8. Divided(Elements(t), R, {}, Taken', Pool \cap High)
      BY <2>4, <2>7, DividedFirst
    <2>9. Shared(Pool)'
      BY <1>1, <1>2, <1>3, <2>2, <2>3, <2>6, <2>8 DEF Shared
    <2>10. /\ Elements(page_stack') \subseteq Memory'
           /\ \A p \in Elements(page_stack') : p >= LowPages
           /\ bitmap' \subseteq 0 .. LowPages - 1
      BY <1>3, <2>2, <2>3, <2>4, MemoryLemma DEF High
    <2>11. stage' \notin Whole /\ stage' \notin Driving
      BY <2>2 DEF Whole, Driving
    <2>12. Ahead'
      BY <2>11 DEF Ahead, Driving
    <2> QED
      BY <1>1, <1>2, <1>3, <2>2, <2>3, <2>4, <2>5, <2>9, <2>10, <2>11, <2>12 DEF PagesInv
  <1> QED
    BY <1>4, <1>5

\* Some become page tables.
LEMMA MapStep ==
  ASSUME machine \in Machines, PagesInv, Mman, MapMemory, UNCHANGED machine
  PROVE  PagesInv'
  <1>1. /\ stage = "page_tables" /\ stage' \in {"reclaim", "endless"}
        /\ UNCHANGED <<bitmap, place, hw>> /\ \E k \in 1 .. MaxTables - 1 : Take(k)
    BY DEF Mman, MapMemory, At, Go, nvmeVars
  <1>2. PICK k \in 1 .. MaxTables - 1 : Take(k)
    BY <1>1
  <1>3. k \in Nat /\ page_stack \in Seq(Nat) /\ Distinct(page_stack)
    BY <1>2, MemoryAssumption DEF PagesInv
  <1>4. Swapped
    BY <1>1, <1>2, <1>3, StoresApart, TakeLemma
  <1>5. stage' \notin Whole /\ stage' \notin Driving /\ stage' \notin Early
    BY <1>1 DEF Whole, Driving, Early, Calibrating
  <1>6. Ahead' /\ stage \in PreStages
    BY <1>1, <1>5 DEF Ahead, Driving, PreStages
  <1> QED
    BY <1>1, <1>4, <1>5, <1>6, PagesKept

\* vmem_init and kmalloc_init take some.
LEMMA VmemStep ==
  ASSUME machine \in Machines, PagesInv, Mman, vmem_init, UNCHANGED machine
  PROVE  PagesInv'
  <1>1. /\ stage = "vmem" /\ stage' = "acpi"
        /\ UNCHANGED <<bitmap, place, hw>> /\ \E k \in 1 .. MaxTables : Take(k)
    BY DEF Mman, vmem_init, At, Go, nvmeVars
  <1>2. PICK k \in 1 .. MaxTables : Take(k)
    BY <1>1
  <1>3. k \in Nat /\ page_stack \in Seq(Nat) /\ Distinct(page_stack)
    BY <1>2, MemoryAssumption DEF PagesInv
  <1>4. /\ stage \in Whole /\ stage \in PreStages /\ stage' \notin Early
        /\ stage' \notin Driving /\ stage' \notin {"page_tables", "reclaim"}
    BY <1>1 DEF Whole, PreStages, Driving, Early, Calibrating
  <1>5. Swapped
    BY <1>2, <1>3, <1>4, StoresApart, TakeLemma
  <1>6. Ahead'
    BY <1>4 DEF Ahead, Driving
  <1> QED
    BY <1>1, <1>4, <1>5, <1>6, PagesKept

\* The loader's pages come to them.
LEMMA ReclaimStep ==
  ASSUME machine \in Machines, PagesInv, Mman, Reclaim, UNCHANGED machine
  PROVE  PagesInv'
  <1>1. stage = "reclaim" /\ stage' = "vmem" /\ UNCHANGED <<place, tables, hw>>
    BY DEF Mman, Reclaim, At, Go, nvmeVars
  <1>2. /\ \A a \in Controllers : hw[a].queues = {}
        /\ page_stack \in Seq(Nat) /\ Distinct(page_stack) /\ Elements(page_stack) \subseteq Memory
        /\ Shared(Pool)
    BY <1>1 DEF PagesInv, PreStages
  <1>3. /\ Memory' = Memory /\ Controllers' = Controllers
    BY SamePages
  <1>4. PICK t, L : t = FlattenSeq(Reclaims) /\ L = PagesOf({"bootloader"})
    OBVIOUS
  <1>5. page_stack' = page_stack \o t /\ bitmap' = bitmap \cup (L \cap 0 .. LowPages - 1)
    <2>1. page_stack' = page_stack \o t
      BY <1>4, Zenon DEF Reclaim, Reclaims
    <2>2. Reclaimed = L
      BY <1>4, ReclaimedLemma
    <2> QED
      BY <2>1, <2>2 DEF Reclaim
  <1>6. t \in Seq(Nat) /\ Distinct(t) /\ Elements(t) = L \cap High
    BY <1>4, ReclaimsLemma
  <1>7. Memory = Pool \cup L /\ Pool \cap L = {}
    BY <1>4, MemoryLemma
  <1>8. Divided(Elements(page_stack), Reserved, tables, Taken, Pool \cap High)
    BY <1>2 DEF Shared
  <1>9. Elements(page_stack) \cap Elements(t) = {}
    <2>1. Elements(page_stack) \subseteq Pool \cap High
      BY <1>8 DEF Divided
    <2> QED
      BY <1>6, <1>7, <2>1
  <1>10. /\ page_stack' \in Seq(Nat) /\ Distinct(page_stack')
         /\ Elements(page_stack') = Elements(page_stack) \cup (L \cap High)
    <2>1. PICK s : s = page_stack
      OBVIOUS
    <2>2. s \in Seq(Nat) /\ Distinct(s) /\ Elements(s) \cap Elements(t) = {}
      BY <1>2, <1>9, <2>1
    <2>3. /\ s \o t \in Seq(Nat) /\ Elements(s \o t) = Elements(s) \cup Elements(t)
          /\ Distinct(s \o t)
      BY <1>6, <2>2, ConcatLemma
    <2> QED
      BY <1>5, <1>6, <2>1, <2>3
  <1>11. Taken' = Taken /\ Reserved' = Reserved
    BY <1>1, <1>3, SamePages DEF Taken, Reserved
  <1>12. Divided(Elements(page_stack'), Reserved', tables', Taken', (Memory \cap High)')
    <2>1. PICK S, R, Q, P, N, T : /\ S = Elements(page_stack) /\ R = Reserved /\ Q = Taken
                                  /\ P = Pool \cap High /\ N = L \cap High /\ T = tables
      OBVIOUS
    <2>2. Divided(S, R, T, Q, P) /\ N \cap P = {}
      BY <1>7, <1>8, <2>1
    <2>3. Divided(S \cup N, R, T, Q, P \cup N)
      BY <2>2, DividedMore
    <2>4. (Memory \cap High)' = P \cup N
      BY <1>3, <1>7, <2>1 DEF High
    <2> QED
      BY <1>1, <1>10, <1>11, <2>1, <2>3, <2>4
  <1>13. bitmap' = Memory' \cap 0 .. LowPages - 1
    BY <1>2, <1>3, <1>5, <1>7 DEF Shared
  <1>14. Shared(Memory)'
    BY <1>12, <1>13 DEF Shared
  <1>15. stage' \notin Driving /\ stage' \notin Early
    BY <1>1 DEF Driving, Early, Calibrating
  <1>16. Ahead'
    BY <1>15 DEF Ahead, Driving
  <1>17. place' \in Nat /\ \A a \in Controllers' : hw'[a].queues = {}
    BY <1>1, <1>2, <1>3 DEF PagesInv
  <1>18. /\ Elements(page_stack') \subseteq Memory' /\ bitmap' \subseteq 0 .. LowPages - 1
         /\ \A p \in Elements(page_stack') : p >= LowPages
    BY <1>2, <1>3, <1>7, <1>10, <1>13 DEF PagesInv, High
  <1> QED
    BY <1>1, <1>10, <1>14, <1>15, <1>16, <1>17, <1>18 DEF PagesInv

\* Two become the queues of the controller in hand, which had none.
LEMMA TakeStep ==
  ASSUME NvmeInv, PagesInv, NVMeStep(nvme_enable), UNCHANGED machine, ~ csts.rdy
  PROVE  PagesInv'
  <1>1. /\ PciInv /\ HwTypes /\ DriversRight /\ stage = "check_disabled"
        /\ probe <= Len(pci_devices) /\ a0 \in Controllers
        /\ UNCHANGED <<bitmap, place, tables, pci_devices>>
    BY DEF NvmeInv, NVMeStep, nvme_enable, InHandRight, InHand, At
  <1>2. /\ probe \in 1 .. Len(pci_devices) /\ a0 = Addr(probe)
        /\ \A i \in 1 .. Len(pci_devices) : Addr(i) = a0 => i = probe
    BY <1>1, NotDriven DEF PciInv, TreeInv, ListRight
  <1>3. /\ page_stack \in Seq(Nat) /\ Distinct(page_stack) /\ Elements(page_stack) \subseteq Memory
        /\ Shared(Memory) /\ Fresh(probe)
    BY <1>1 DEF PagesInv, Whole, Driving, Ahead
  <1>4. hw[a0].queues = {}
    BY <1>1, <1>2, <1>3 DEF Fresh
  <1>5. /\ hw'[a0].queues = Top(2)
        /\ \A b \in Controllers : b # a0 => hw'[b].queues = hw[b].queues
    BY <1>1, EnableQueues DEF NVMeStep
  <1>6. /\ Pop(2)
        /\ \/ probe' = probe /\ stage' = "enabling"
           \/ probe' = probe + 1 /\ stage' = "nvme"
    BY DEF NVMeStep, nvme_enable, Done, Go
  <1>7. /\ page_stack' \in Seq(Nat) /\ Distinct(page_stack')
        /\ Top(2) \subseteq Elements(page_stack)
        /\ Elements(page_stack') = Elements(page_stack) \ Top(2)
    BY <1>3, <1>6, PopLemma
  <1>8. /\ Memory' = Memory /\ reserve' = reserve /\ Controllers' = Controllers
        /\ Reserved' = Reserved /\ High' = High
    BY <1>1, SamePages DEF Reserved, High
  <1>9. Divided(Elements(page_stack'), Reserved', tables', Taken', (Memory \cap High)')
    <2>1. PICK S, R, T, Q, P, X, a, N :
            /\ S = Elements(page_stack) /\ R = Reserved /\ T = tables /\ Q = Taken
            /\ P = Memory \cap High /\ X = Top(2) /\ a = a0 /\ N = Taken'
      OBVIOUS
    <2>2. Divided(S, R, T, Q, P) /\ X \subseteq S
      BY <1>3, <1>7, <2>1 DEF Shared
    <2>3. a \in DOMAIN Q /\ Q[a] = {} /\ DOMAIN N = DOMAIN Q /\ N[a] = X
      BY <1>1, <1>4, <1>5, <1>8, <2>1 DEF Taken
    <2>4. \A b \in DOMAIN Q : b # a => N[b] = Q[b]
      BY <1>5, <1>8, <2>1 DEF Taken
    <2>5. Divided(S \ X, R, T, N, P)
      BY <2>2, <2>3, <2>4, DividedQueue
    <2> QED
      BY <1>1, <1>7, <1>8, <2>1, <2>5
  <1>10. Shared(Memory)'
    BY <1>1, <1>3, <1>8, <1>9 DEF Shared
  <1>11. Ahead'
    <2>1. \A i \in 1 .. Len(pci_devices) : i >= probe + 1 => i # probe /\ i >= probe
      BY <1>2
    <2>2. \A i : Addr(i)' = Addr(i)
      BY <1>1, SameDevices
    <2>3. \A i \in 1 .. Len(pci_devices) :
            i >= probe + 1 /\ Addr(i) \in Controllers => hw'[Addr(i)].queues = {}
      BY <1>2, <1>3, <1>5, <2>1 DEF Fresh
    <2>4. CASE probe' = probe /\ stage' = "enabling"
      <3>1. Fresh(probe + 1)'
        BY <1>1, <1>8, <2>2, <2>3, <2>4 DEF Fresh
      <3> QED
        BY <2>4, <3>1 DEF Ahead
    <2>5. CASE probe' = probe + 1 /\ stage' = "nvme"
      <3>1. Fresh(probe)'
        BY <1>1, <1>8, <2>2, <2>3, <2>5 DEF Fresh
      <3>2. \A i \in 1 .. Len(pci_devices) : i >= probe' + 1 => i >= probe'
        BY <1>2, <2>5
      <3>3. Fresh(probe + 1)'
        BY <1>1, <3>1, <3>2 DEF Fresh
      <3> QED
        BY <3>1, <3>3 DEF Ahead
    <2> QED
      BY <1>6, <2>4, <2>5
  <1>12. /\ stage' \notin PreStages \cup {"pci"} /\ stage' \notin Early
         /\ stage' \notin {"page_tables", "reclaim"}
    BY <1>6 DEF PreStages, Calibrating, Early
  <1>13. /\ place' \in Nat /\ Elements(page_stack') \subseteq Memory'
         /\ bitmap' \subseteq 0 .. LowPages - 1
         /\ \A p \in Elements(page_stack') : p >= LowPages
    BY <1>1, <1>3, <1>7, <1>8 DEF PagesInv
  <1> QED
    BY <1>7, <1>10, <1>11, <1>12, <1>13 DEF PagesInv

\* All steps of the driver.
LEMMA DriverPages ==
  ASSUME NvmeInv, PagesInv, NVMeStep(NvmeNext), UNCHANGED machine
  PROVE  PagesInv'
  <1>1. HwTypes /\ UNCHANGED <<bitmap, place>>
    BY DEF NvmeInv, NVMeStep
  <1>2. CASE nvme_attach
    <2>1. /\ stage = "nvme" /\ UNCHANGED pci_devices
          /\ UNCHANGED <<page_stack, tables>> \/ \E k \in 0 .. MaxTables : Take(k)
          /\ \/ probe' = probe
             \/ probe' = probe + 1 /\ stage' = "nvme"
          /\ stage' \in Driving
      BY <1>2 DEF nvme_attach, At, Done, Go, Driving
    <2>2. probe <= Len(pci_devices) /\ (a0 \in Controllers \/ hw' = hw)
      <3>1. CASE hw' = hw
        BY <1>2, <3>1 DEF nvme_attach
      <3>2. CASE Matches(nvme_driver, machine.functions[a0]) /\ probe <= Len(pci_devices)
        <4>1. a0 \in Present
          BY <3>2, NotDriven DEF NvmeInv
        <4> QED
          BY <3>2, <4>1 DEF Matches, nvme_driver, Controllers, Present
      <3> QED
        BY <1>2, <3>1, <3>2 DEF nvme_attach
    <2>3. \A a \in Controllers : hw'[a].queues = hw[a].queues
      BY <1>1, <1>2, <2>2, AttachQueues
    <2>4. \A i \in 1 .. Len(pci_devices) : Addr(i)' = Addr(i)
      BY <2>1, SameDevices
    <2>5. stage \in Driving /\ stage \in Whole
      BY <2>1 DEF Driving, Whole
    <2>6. machine \in Machines /\ page_stack \in Seq(Nat) /\ Distinct(page_stack)
      BY DEF NvmeInv, PciInv, TreeInv, TreeTypes, PagesInv
    <2>7. Swapped
      BY <2>1, <2>5, <2>6, StoresApart, TakeLemma, MemoryAssumption DEF Swapped
    <2> QED
      BY <1>1, <2>1, <2>3, <2>4, <2>5, <2>7, NvmeOtherStep
  <1>3. CASE WaitDisabled \/ WaitEnabled \/ CheckAnswer \/ NvmeDone
    <2>1. /\ stage \in Driving /\ stage' \in Driving \cup {"ps2"}
          /\ UNCHANGED <<page_stack, tables, pci_devices, hw>>
          /\ \/ /\ probe' = probe
                /\ stage' \in {"nvme", "disabling", "check_disabled"}
                     => stage \in {"nvme", "disabling", "check_disabled"}
             \/ probe' = probe + 1 /\ stage' = "nvme"
      BY <1>3 DEF WaitDisabled, WaitEnabled, CheckAnswer, NvmeDone, At, Done, Go, Driving,
                  nvmeVars
    <2>2. \A i \in 1 .. Len(pci_devices) : Addr(i)' = Addr(i)
      BY <2>1, SameDevices
    <2> QED
      BY <1>1, <2>1, <2>2, NvmeOtherStep DEF Swapped
  <1>4. CASE nvme_enable /\ csts.rdy
    <2>1. /\ stage \in Driving /\ stage' = "nvme" /\ probe' = probe + 1
          /\ UNCHANGED <<page_stack, tables, pci_devices, hw>>
      BY <1>4 DEF nvme_enable, At, Done, Go, Driving
    <2>2. \A i \in 1 .. Len(pci_devices) : Addr(i)' = Addr(i)
      BY <2>1, SameDevices
    <2>3. stage' \in Driving
      BY <2>1 DEF Driving
    <2> QED
      BY <1>1, <2>1, <2>2, <2>3, NvmeOtherStep DEF Swapped
  <1>5. CASE nvme_enable /\ ~ csts.rdy
    BY <1>5, TakeStep DEF NVMeStep
  <1>6. CASE nvme_list
    <2>1. /\ stage \in Driving /\ stage' = "nvme" /\ probe' = probe + 1
          /\ UNCHANGED <<page_stack, tables, hw>>
          /\ \/ UNCHANGED pci_devices
             \/ pci_devices' = [pci_devices EXCEPT ![probe].driver = "nvme"]
      BY <1>6 DEF nvme_list, At, Done, Go, Driving
    <2>2. pci_devices \in Seq(DeviceType) /\ Len(pci_devices) \in Nat
      BY LenProperties DEF NvmeInv, PciInv, TreeInv, TreeTypes
    <2>3. /\ Len(pci_devices') = Len(pci_devices)
          /\ \A i \in 1 .. Len(pci_devices) : Addr(i)' = Addr(i)
      <3>1. CASE UNCHANGED pci_devices
        BY <3>1, SameDevices
      <3>2. CASE pci_devices' = [pci_devices EXCEPT ![probe].driver = "nvme"]
        <4>1. PICK n, s, k, d : n = Len(pci_devices) /\ s = pci_devices' /\ k = probe
                                /\ d = pci_devices[k]
          OBVIOUS
        <4>2. pci_devices \in [1 .. n -> DeviceType]
          BY <2>2, <4>1, LenProperties, SeqDef, ElementOfSeq
        <4>3. PICK r : r = [d EXCEPT !.driver = "nvme"]
          OBVIOUS
        <4>4. s = [pci_devices EXCEPT ![k] = r]
          BY <3>2, <4>1, <4>3
        <4>5. s = [i \in 1 .. n |-> IF i = k THEN r ELSE pci_devices[i]]
          BY <4>2, <4>4
        <4>6. k \in 1 .. n => r.addr = d.addr
          BY <4>1, <4>2, <4>3 DEF DeviceType
        <4>7. Len(s) = n /\ \A i \in 1 .. n : s[i].addr = pci_devices[i].addr
          BY <2>2, <4>1, <4>5, <4>6, FunctionIsSeq
        <4> QED
          BY <4>1, <4>7 DEF Addr
      <3> QED
        BY <2>1, <3>1, <3>2
    <2>4. stage' \in Driving
      BY <2>1 DEF Driving
    <2> QED
      BY <1>1, <2>1, <2>3, <2>4, NvmeOtherStep DEF Swapped
  <1> QED
    BY <1>2, <1>3, <1>4, <1>5, <1>6 DEF NVMeStep, NvmeNext

\* The invariant holds at first.
LEMMA PagesInvInit == Init => PagesInv
  <1> SUFFICES ASSUME Init PROVE PagesInv
    OBVIOUS
  <1>1. /\ stage = "kinit" /\ place = 0 /\ page_stack = <<>> /\ tables = {} /\ bitmap = {}
        /\ \A a \in Controllers : hw[a].queues = {}
    BY DEF Init, MemInit, NvmeInit
  <1>2. page_stack \in Seq(Nat) /\ Distinct(page_stack) /\ Elements(page_stack) = {}
    BY <1>1, SingleLemma
  <1>3. stage \notin {"page_tables", "reclaim"} /\ stage \notin Whole /\ stage \notin Driving
    BY <1>1 DEF Whole, Driving
  <1> QED
    BY <1>1, <1>2, <1>3 DEF PagesInv, Ahead, Driving

\* And after each step.
LEMMA PagesInvNext == NvmeInv /\ PagesInv /\ [Next]_vars => PagesInv'
  <1> SUFFICES ASSUME NvmeInv, PagesInv, [Next]_vars PROVE PagesInv'
    OBVIOUS
  <1>1. machine \in Machines /\ UNCHANGED machine
    BY MachineNext DEF NvmeInv, PciInv, TreeInv, TreeTypes
  <1>2. CASE Start \/ Time \/ Ps2Step(Ps2Next) \/ Ps2Step(Peripherals)
    BY <1>1, <1>2, IdleParts, IdleStep
  <1>3. CASE Mman
    BY <1>1, <1>3, BuildStep, MapStep, ReclaimStep, VmemStep DEF Mman, MemNext
  <1>4. CASE ACPI
    BY <1>1, <1>4, AcpiStep
  <1>5. CASE PCI
    BY <1>1, <1>5, PciStep
  <1>6. CASE NVMeStep(NvmeNext)
    BY <1>1, <1>6, DriverPages
  <1>7. CASE NVMeStep(Controller)
    <2>1. /\ stage \in Driving /\ UNCHANGED <<stage, probe, pci_devices, page_stack>>
          /\ UNCHANGED <<bitmap, place, tables>>
      BY <1>7 DEF NVMeStep, Controller, ControllerStep
    <2>2. \A a \in Controllers : hw'[a].queues = hw[a].queues
      BY <1>7, ControllerQueues DEF NVMeStep, NvmeInv
    <2>3. \A i \in 1 .. Len(pci_devices) : Addr(i)' = Addr(i)
      BY <1>1, <2>1, SameDevices
    <2> QED
      BY <1>1, <2>1, <2>2, <2>3, NvmeOtherStep DEF Swapped
  <1>8. CASE NVMeStep(Tick)
    <2>1. /\ stage \in Driving /\ UNCHANGED <<stage, probe, pci_devices, page_stack, hw>>
          /\ UNCHANGED <<bitmap, place, tables>>
      BY <1>8 DEF NVMeStep, Tick, Driving
    <2>2. \A i \in 1 .. Len(pci_devices) : Addr(i)' = Addr(i)
      BY <1>1, <2>1, SameDevices
    <2> QED
      BY <1>1, <2>1, <2>2, NvmeOtherStep DEF Swapped
  <1>9. CASE UNCHANGED vars
    BY <1>1, <1>9, IdleStep DEF vars, pciVars, memVars, nvmeVars, Idle
  <1> QED
    BY <1>2, <1>3, <1>4, <1>5, <1>6, <1>7, <1>8, <1>9 DEF Next, Kernel, Devices, TimePasses

\* Of parts that are apart, no two have a page in common.
LEMMA UsesLemma ==
  ASSUME NEW F, NEW R, NEW T, NEW Q, NEW U, NEW V, U # V,
         U \in {F, R, T} \cup ({Q[a] : a \in DOMAIN Q} \ {{}}),
         V \in {F, R, T} \cup ({Q[a] : a \in DOMAIN Q} \ {{}}),
         F \cap R = {}, F \cap T = {}, R \cap T = {},
         \A a \in DOMAIN Q : Q[a] \cap F = {} /\ Q[a] \cap R = {} /\ Q[a] \cap T = {},
         \A a, b \in DOMAIN Q : a # b => Q[a] \cap Q[b] = {}
  PROVE  U \cap V = {}
  <1>1. U \in {F, R, T} \/ \E a \in DOMAIN Q : U = Q[a]
    OBVIOUS
  <1>2. V \in {F, R, T} \/ \E a \in DOMAIN Q : V = Q[a]
    OBVIOUS
  <1>3. CASE U \in {F, R, T} /\ V \in {F, R, T}
    BY <1>3
  <1>4. CASE U \in {F, R, T} /\ \E a \in DOMAIN Q : V = Q[a]
    BY <1>4
  <1>5. CASE V \in {F, R, T} /\ \E a \in DOMAIN Q : U = Q[a]
    BY <1>5
  <1>6. CASE (\E a \in DOMAIN Q : U = Q[a]) /\ (\E a \in DOMAIN Q : V = Q[a])
    BY <1>6
  <1> QED
    BY <1>1, <1>2, <1>3, <1>4, <1>5, <1>6

\* There are as many sets of queues as controllers that have some.
LEMMA CountLemma ==
  ASSUME NEW Q, NEW M, IsFiniteSet(M), \A a \in DOMAIN Q : Q[a] \subseteq M,
         \A a, b \in DOMAIN Q : a # b => Q[a] \cap Q[b] = {}
  PROVE  Cardinality({Q[a] : a \in DOMAIN Q} \ {{}}) = Cardinality({a \in DOMAIN Q : Q[a] # {}})
  <1> DEFINE A == {a \in DOMAIN Q : Q[a] # {}}
             B == {Q[a] : a \in DOMAIN Q} \ {{}}
             one == [a \in A |-> CHOOSE p \in M : p \in Q[a]]
             all == [a \in A |-> Q[a]]
  <1>1. \A a, b \in A : a # b => Q[a] \cap Q[b] = {}
    OBVIOUS
  <1>2. \A a \in A : Q[a] # {} /\ Q[a] \in B /\ Q[a] \subseteq M
    OBVIOUS
  <1>3. \A V \in B : \E a \in A : V = Q[a]
    OBVIOUS
  <1> HIDE DEF A, B
  <1>4. \A a \in A : one[a] \in M /\ one[a] \in Q[a]
    BY <1>2
  <1>5. one \in [A -> M]
    BY <1>4
  <1>6. \A a, b \in A : one[a] = one[b] => a = b
    <2> HIDE DEF one
    <2> QED
      BY <1>1, <1>4
  <1>7. one \in Injection(A, M)
    <2> HIDE DEF one
    <2> QED
      BY <1>5, <1>6 DEF Injection, IsInjective
  <1>8. IsFiniteSet(A)
    BY <1>7, FS_Injection
  <1>9. all \in Bijection(A, B)
    <2>1. all \in [A -> B]
      BY <1>2
    <2>2. \A a, b \in A : all[a] = all[b] => a = b
      <3> SUFFICES ASSUME NEW a \in A, NEW b \in A, Q[a] = Q[b] PROVE a = b
        OBVIOUS
      <3> QED
        BY <1>1, <1>2
    <2>3. \A V \in B : \E a \in A : all[a] = V
      BY <1>3
    <2> HIDE DEF all
    <2> QED
      BY <2>1, <2>2, <2>3 DEF Bijection, Injection, Surjection, IsInjective
  <1>10. ExistsBijection(A, B)
    BY <1>9 DEF ExistsBijection
  <1>11. Cardinality(B) = Cardinality(A)
    BY <1>8, <1>10, FS_Bijection, Zenon
  <1> QED
    BY <1>11 DEF A, B

\* It says that each page has one use.
LEMMA PagesOnceLemma ==
  ASSUME machine \in Machines, PagesInv
  PROVE  PagesOnce
  <1>1. StackFits
    BY FitsLemma DEF PagesInv
  <1>2. ASSUME stage \in {"vmem", "acpi", "rsdp", "pci", "ps2"} \cup Driving
        PROVE  /\ IsInjective(page_stack)
               /\ bitmap \cap Range(page_stack) = {}
               /\ \A U, V \in Uses : U # V => U \cap V = {}
               /\ Cardinality(Queues) = Cardinality({a \in Controllers : hw[a].queues # {}})
               /\ UNION Uses = PagesOf({"usable", "bootloader"})
    <2>1. Shared(Memory) /\ page_stack \in Seq(Nat) /\ Distinct(page_stack)
      BY <1>2 DEF PagesInv, Whole
    <2>2. DOMAIN page_stack = 1 .. Len(page_stack)
      BY <2>1, LenProperties
    <2>3. IsInjective(page_stack)
      BY <2>1, <2>2 DEF IsInjective, Distinct
    <2>4. PICK S, L, R, T, Q, P :
            /\ S = Elements(page_stack) /\ L = Memory \cap 0 .. LowPages - 1 /\ R = Reserved
            /\ T = tables /\ Q = Taken /\ P = Memory \cap High
      OBVIOUS
    <2>5. Range(page_stack) = S
      BY <2>2, <2>4 DEF Range, Elements
    <2>6. /\ S \cap R = {} /\ S \cap T = {} /\ R \cap T = {}
          /\ \A a \in DOMAIN Q : Q[a] \cap S = {} /\ Q[a] \cap R = {} /\ Q[a] \cap T = {}
          /\ \A a, b \in DOMAIN Q : a # b => Q[a] \cap Q[b] = {}
          /\ \A p : p \in P <=> p \in S \/ p \in R \/ p \in T \/ \E a \in DOMAIN Q : p \in Q[a]
      BY <2>1, <2>4 DEF Shared, Divided
    <2>7. L \cap P = {} /\ Memory = L \cup P
      <3>1. LowPages \in Nat /\ Memory \subseteq Nat
        BY MemoryAssumption, MemoryLemma
      <3>2. \A p \in Memory : ~ (p \in 0 .. LowPages - 1 /\ p \in High)
                             /\ (p \in 0 .. LowPages - 1 \/ p \in High)
        <4> SUFFICES ASSUME NEW p \in Memory
                     PROVE  /\ ~ (p \in 0 .. LowPages - 1 /\ p \in High)
                            /\ (p \in 0 .. LowPages - 1 \/ p \in High)
          OBVIOUS
        <4>1. p \in Nat
          BY <3>1
        <4> QED
          BY <3>1, <4>1 DEF High
      <3> QED
        BY <2>4, <3>2
    <2>8. bitmap = L /\ Free = L \cup S
      BY <2>1, <2>4, <2>5 DEF Shared, Free
    <2>9. S \subseteq P /\ R \subseteq P /\ T \subseteq P /\ \A a \in DOMAIN Q : Q[a] \subseteq P
      BY <2>6
    <2>10. bitmap \cap Range(page_stack) = {}
      BY <2>5, <2>7, <2>8, <2>9
    <2>11. Queues = {Q[a] : a \in DOMAIN Q} \ {{}}
           /\ {a \in DOMAIN Q : Q[a] # {}} = {a \in Controllers : hw[a].queues # {}}
      BY <2>4 DEF Queues, Taken
    <2>12. PICK F : F = L \cup S
      OBVIOUS
    <2>13. Uses = {F, R, T} \cup ({Q[a] : a \in DOMAIN Q} \ {{}})
      BY <2>4, <2>8, <2>11, <2>12 DEF Uses
    <2>14. /\ F \cap R = {} /\ F \cap T = {}
           /\ \A a \in DOMAIN Q : Q[a] \cap F = {}
      BY <2>6, <2>7, <2>9, <2>12
    <2>15. \A U, V \in Uses : U # V => U \cap V = {}
      BY <2>6, <2>13, <2>14, UsesLemma
    <2>16. Cardinality(Queues) = Cardinality({a \in Controllers : hw[a].queues # {}})
      <3>1. IsFiniteSet(Memory)
        BY PagesLemma DEF Memory
      <3>2. \A a \in DOMAIN Q : Q[a] \subseteq Memory
        BY <2>7, <2>9
      <3> QED
        BY <2>6, <2>11, <3>1, <3>2, CountLemma
    <2>17. UNION Uses = Memory
      <3>1. \A p : p \in UNION Uses <=> p \in F \/ p \in R \/ p \in T \/ \E a \in DOMAIN Q : p \in Q[a]
        <4>1. ASSUME NEW a \in DOMAIN Q, NEW p \in Q[a]
              PROVE  p \in UNION Uses
          <5>1. Q[a] \in Uses
            BY <2>13, <4>1
          <5> QED
            BY <4>1, <5>1
        <4>2. ASSUME NEW U \in Uses, NEW p \in U
              PROVE  p \in F \/ p \in R \/ p \in T \/ \E a \in DOMAIN Q : p \in Q[a]
          BY <2>13, <4>2
        <4>3. F \in Uses /\ R \in Uses /\ T \in Uses
          BY <2>13
        <4> QED
          BY <4>1, <4>2, <4>3
      <3>2. \A p : p \in Memory <=> p \in L \/ p \in P
        BY <2>7
      <3>3. \A p : p \in F <=> p \in L \/ p \in S
        BY <2>12
      <3>4. \A p : p \in UNION Uses <=> p \in Memory
        BY <2>6, <3>1, <3>2, <3>3, Zenon
      <3> QED
        BY <3>4
    <2> QED
      BY <2>3, <2>10, <2>15, <2>16, <2>17 DEF Memory
  <1> QED
    BY <1>1, <1>2 DEF PagesOnce

\* From the boot loader's map to the last driver, each page of usable and loader
\* memory has one use, and the page stack keeps to the pages reserved for it,
\* whatever the map, and whenever the controllers answer.
THEOREM PagesHaveOneUse == Spec => []PagesOnce
  <1>1. Init => NvmeInv /\ PagesInv
    BY NvmeInvInit, PagesInvInit
  <1>2. (NvmeInv /\ PagesInv) /\ [Next]_vars => (NvmeInv /\ PagesInv)'
    BY NvmeInvNext, PagesInvNext
  <1>3. NvmeInv /\ PagesInv => PagesOnce
    BY PagesOnceLemma DEF NvmeInv, PciInv, TreeInv, TreeTypes
  <1> QED
    BY <1>1, <1>2, <1>3, PTL DEF Spec

----------------------------------------------------------------------------
(* The types *)

OneByte(q) == q = <<>> \/ \E b \in Byte : q = <<b>>

ClockTypes ==
  tsc_freq \in Nat /\ get_utime \in {"default", "tsc"} /\ calibrate_state \in 0 .. 1

Ps2Types ==
  /\ config \in Byte /\ OneByte(out) /\ OneByte(reply) /\ kbdq \in Seq(Byte)
  /\ keys \in 0 .. MaxKeys

TypeInv ==
  machine \in Machines /\ ClockTypes /\ Ps2Types /\ rsdt \in BOOLEAN /\ clock \in Nat

\* What the firmware leaves has the types.
LEMMA TypeInvInit == Init => TypeInv
  <1> SUFFICES ASSUME Init PROVE TypeInv
    OBVIOUS
  <1>1. machine \in Machines /\ ClockTypes /\ rsdt \in BOOLEAN /\ clock \in Nat
    <2>1. machine \in Machines /\ tsc_freq = 0 /\ get_utime = "default" /\ calibrate_state = 0
          /\ rsdt = FALSE /\ clock = 0
      BY DEF Init, ClockInit, AcpiInit, NvmeInit
    <2>2. rsdt \in BOOLEAN
      BY <2>1, Zenon
    <2> QED
      BY <2>1, <2>2 DEF ClockTypes
  <1>2. OneByte(out) /\ config \in Byte
    <2>1. config = machine.i8042.config /\ out = machine.i8042.out
      BY DEF Init, Ps2Init
    <2>2. machine.i8042.config \subseteq 0 .. 7
      BY <1>1, Ps2Assumption
    <2>3. machine.i8042.out = <<>> \/ \E b \in Byte : machine.i8042.out = <<b>>
      BY <1>1, Ps2Assumption DEF Byte
    <2> QED
      BY <2>1, <2>2, <2>3 DEF OneByte, Byte
  <1>3. reply = <<>> /\ kbdq = <<>> /\ keys \in 0 .. MaxKeys
    BY Ps2Assumption DEF Init, Ps2Init
  <1> QED
    BY <1>1, <1>2, <1>3 DEF TypeInv, Ps2Types, OneByte

\* time_init and the ticks.
LEMMA TimeTypes ==
  ASSUME machine \in Machines, ClockTypes, Time
  PROVE  ClockTypes'
  <1>1. cpu.hz \in Nat /\ TscCount \in Nat
    BY ClockAssumption DEF cpu
  <1>2. CpuidFrequency \in Nat
    <2>1. cpu.eax \in Nat \ {0} /\ cpu.ebx \in Nat /\ cpu.ecx \in Nat
      BY ClockAssumption DEF cpu
    <2>2. PICK c, m : c = cpu.ecx * cpu.ebx /\ m = 2^RegBits
      OBVIOUS
    <2>3. c \in Int /\ m \in Nat \ {0}
      BY <2>1, <2>2, ClockAssumption
    <2>4. c % m \in Nat
      BY <2>3
    <2>5. (c % m) \div cpu.eax \in Nat
      <3>1. PICK x, y : x = c % m /\ y = cpu.eax
        OBVIOUS
      <3>2. x \div y \in Nat
        BY <2>1, <2>4, <3>1
      <3> QED
        BY <3>1, <3>2
    <2> QED
      BY <2>2, <2>5 DEF CpuidFrequency
  <1>3. CASE time_init
    <2>1. /\ tsc_freq' = IF FrequencyKnown THEN CpuidFrequency ELSE tsc_freq
          /\ get_utime' = IF FrequencyKnown \/ ~ cpu.tsc THEN "tsc" ELSE get_utime
          /\ calibrate_state' = calibrate_state
      BY <1>3, Zenon DEF time_init
    <2>2. tsc_freq' \in Nat /\ get_utime' \in {"default", "tsc"}
      BY <1>2, <2>1, Zenon DEF ClockTypes
    <2> QED
      BY <2>1, <2>2 DEF ClockTypes
  <1>4. CASE hlt \/ MaskTimer
    BY <1>4 DEF hlt, MaskTimer, ClockTypes, clockVars
  <1>5. CASE TimerInterrupt
    BY <1>1, <1>5 DEF TimerInterrupt, calibrate_tsc, ClockTypes
  <1> QED
    BY <1>3, <1>4, <1>5 DEF Time, ClockNext

\* What a read returns is a byte, whether or not there is one.
LEMMA ReadLemma ==
  ASSUME Ps2Types
  PROVE  /\ ps2_read_sync \in Byte /\ (out # <<>> => Head(out) \in Byte)
         /\ (reply # <<>> => Head(reply) \in Byte)
         /\ BufferRead => OneByte(out') /\ OneByte(reply')
  <1>1. ASSUME NEW q, OneByte(q) PROVE q # <<>> => Head(q) \in Byte
    BY <1>1 DEF OneByte
  <1>2. FF \in Byte
    BY DEF FF, Byte
  <1>3. OneByte(out) /\ OneByte(reply)
    BY DEF Ps2Types
  <1> QED
    BY <1>1, <1>2, <1>3 DEF ps2_read_sync, BufferRead, OneByte

\* The kernel's steps at the controller.
LEMMA Ps2NextTypes ==
  ASSUME Ps2Types, Ps2Next
  PROVE  Ps2Types'
  <1>1. CASE ps2_init
    <2>1. CASE UNCHANGED ps2Vars
      BY <2>1 DEF ps2Vars, Ps2Types
    <2>2. CASE /\ config' = config \cup {PORT1_OFF, PORT2_OFF} /\ out' = <<>>
               /\ reply' = <<config'>> /\ UNCHANGED <<kbdq, keys>>
      <3>1. config' \in Byte
        BY <2>2 DEF Ps2Types, Byte, PORT1_OFF, PORT2_OFF
      <3> QED
        BY <2>2, <3>1 DEF Ps2Types, OneByte
    <2> QED
      BY <1>1, <2>1, <2>2 DEF ps2_init
  <1>2. CASE ResetKeyboard
    <2>1. config' \in Byte
      BY <1>2, ReadLemma DEF ResetKeyboard, Cleared, Byte
    <2>2. kbdq' \in Seq(Byte)
      <3>1. ACK \in Byte /\ PASS \in Byte
        BY DEF ACK, PASS, Byte
      <3>2. <<ACK, PASS>> \in Seq(Byte) /\ <<PASS, ACK>> \in Seq(Byte)
        BY <3>1
      <3> QED
        BY <1>2, <3>2 DEF ResetKeyboard, Ps2Types
    <2> QED
      BY <1>2, <2>1, <2>2, ReadLemma DEF ResetKeyboard, Ps2Types
  <1>3. CASE ReadFirst \/ ReadSecond
    BY <1>3 DEF ReadFirst, ReadSecond, Ps2Types, OneByte
  <1>4. CASE ps2_register_kbd_isr
    BY <1>4 DEF ps2_register_kbd_isr, Ps2Types, OneByte
  <1>5. CASE ReadConfig
    <2>1. config' \in Byte
      BY <1>5, ReadLemma DEF ReadConfig, IRQ1, Byte
    <2> QED
      BY <1>5, <2>1, ReadLemma DEF ReadConfig, Ps2Types
  <1> QED
    BY <1>1, <1>2, <1>3, <1>4, <1>5 DEF Ps2Next

\* Those of the controller and the keyboard.
LEMMA PeripheralTypes ==
  ASSUME Ps2Types, Peripherals
  PROVE  Ps2Types'
  <1>1. CASE KbdInterrupt
    BY <1>1 DEF KbdInterrupt, Ps2Types, OneByte
  <1>2. CASE Reply
    BY <1>2, ReadLemma DEF Reply, Arrive, Ps2Types, OneByte
  <1>3. CASE KbdByte
    <2>1. kbdq \in Seq(Byte) /\ kbdq # <<>>
      BY <1>3 DEF KbdByte, Ps2Types
    <2>2. Head(kbdq) \in Byte /\ Tail(kbdq) \in Seq(Byte)
      BY <2>1, HeadTailProperties
    <2> QED
      BY <1>3, <2>2 DEF KbdByte, Arrive, Ps2Types, OneByte
  <1>4. CASE KeyPress
    <2>1. Append(kbdq, KEY) \in Seq(Byte)
      BY AppendProperties DEF KEY, Byte, Ps2Types
    <2>2. keys + 1 \in 0 .. MaxKeys
      BY <1>4, Ps2Assumption DEF KeyPress, Ps2Types
    <2> QED
      BY <1>4, <2>1, <2>2 DEF KeyPress, Ps2Types
  <1> QED
    BY <1>1, <1>2, <1>3, <1>4 DEF Peripherals

\* Each part changes its own variables.
LEMMA TypeInvNext == TypeInv /\ [Next]_vars => TypeInv'
  <1> SUFFICES ASSUME TypeInv, [Next]_vars PROVE TypeInv'
    OBVIOUS
  <1>1. UNCHANGED machine
    BY MachineNext
  <1>2. ASSUME UNCHANGED clockVars PROVE ClockTypes'
    BY <1>2 DEF TypeInv, ClockTypes, clockVars
  <1>3. ASSUME UNCHANGED ps2Vars PROVE Ps2Types'
    BY <1>3 DEF TypeInv, Ps2Types, ps2Vars
  <1>4. CASE Start
    BY <1>1, <1>2, <1>3, <1>4 DEF Start, acpiVars, nvmeVars, TypeInv
  <1>5. CASE Time
    BY <1>1, <1>3, <1>5, TimeTypes DEF Time, acpiVars, nvmeVars, TypeInv
  <1>6. CASE Mman \/ PCI
    BY <1>1, <1>2, <1>3, <1>6 DEF Mman, PCI, acpiVars, nvmeVars, TypeInv
  <1>7. CASE ACPI
    <2>1. rsdt' \in BOOLEAN
      BY <1>7, AcpiSteps, Zenon DEF ACPI, TypeInv
    <2> QED
      BY <1>1, <1>2, <1>3, <1>7, <2>1 DEF ACPI, nvmeVars, TypeInv
  <1>8. CASE NVMeStep(NvmeNext) \/ NVMeStep(Controller) \/ NVMeStep(Tick)
    <2>1. UNCHANGED <<clockVars, acpiVars, ps2Vars>>
      BY <1>8 DEF NVMeStep
    <2>2. clock' \in Nat
      <3>1. NvmeNext => clock' \in {0, clock}
        BY DEF NvmeNext, nvme_attach, WaitDisabled, nvme_enable, WaitEnabled, CheckAnswer,
               nvme_list, NvmeDone, nvmeVars
      <3>2. Controller => clock' = clock
        BY DEF Controller, ControllerStep
      <3>3. Tick => clock' = clock + 1
        BY DEF Tick
      <3> QED
        BY <1>8, <3>1, <3>2, <3>3 DEF NVMeStep, TypeInv
    <2> QED
      BY <1>1, <1>2, <1>3, <2>1, <2>2 DEF acpiVars, TypeInv
  <1>9. CASE Ps2Step(Ps2Next) \/ Ps2Step(Peripherals)
    BY <1>1, <1>2, <1>9, Ps2NextTypes, PeripheralTypes DEF Ps2Step, acpiVars, nvmeVars, TypeInv
  <1>10. CASE UNCHANGED vars
    BY <1>1, <1>2, <1>3, <1>10 DEF vars, acpiVars, nvmeVars, TypeInv
  <1> QED
    BY <1>4, <1>5, <1>6, <1>7, <1>8, <1>9, <1>10 DEF Next, Kernel, Devices, TimePasses

\* The pages and the list have their types from the invariants above.
LEMMA TypeOKLemma ==
  ASSUME TypeInv, NvmeInv, PagesInv
  PROVE  TypeOK
  <1>1. /\ machine \in Machines /\ ClockTypes /\ rsdt \in BOOLEAN /\ clock \in Nat
        /\ config \in Byte /\ keys \in 0 .. MaxKeys
    BY DEF TypeInv, Ps2Types
  <1>2. Len(out) <= 1
    <2>1. OneByte(out)
      BY DEF TypeInv, Ps2Types
    <2>2. CASE out = <<>>
      BY <2>2
    <2>3. CASE \E b : out = <<b>>
      <3>1. PICK b : out = <<b>>
        BY <2>3
      <3>2. Len(<<b>>) = 1
        OBVIOUS
      <3> QED
        BY <3>1, <3>2
    <2> QED
      BY <2>1, <2>2, <2>3 DEF OneByte
  <1>3. /\ bitmap \subseteq 0 .. LowPages - 1 /\ place \in Nat
        /\ \A p \in Range(page_stack) : p >= LowPages
    <2>1. page_stack \in Seq(Nat)
      BY DEF PagesInv
    <2>2. Range(page_stack) = Elements(page_stack)
      BY <2>1 DEF Range, Elements
    <2> QED
      BY <2>2 DEF PagesInv
  <1>4. \A i \in DOMAIN pci_devices :
          pci_devices[i].addr \in Present /\ pci_devices[i].node \in DOMAIN buses
    <2>1. TreeTypes /\ ListRight
      BY DEF NvmeInv, PciInv, TreeInv
    <2>2. DOMAIN pci_devices = 1 .. Len(pci_devices) /\ DOMAIN buses = 1 .. Len(buses)
      BY <2>1 DEF TreeTypes
    <2> QED
      BY <2>1, <2>2, ListedLemma DEF ListRight, NodeFits, DeviceType
  <1>5. probe \in Nat \ {0}
    BY DEF NvmeInv, DriversRight
  <1> QED
    BY <1>1, <1>2, <1>3, <1>4, <1>5 DEF TypeOK, ClockTypes

\* Through the whole initialisation the frequency is a number, low pages are in
\* the bitmap and high ones on the stack, a listed device is one that is there,
\* below a bus that was found, and a buffer holds at most one byte.
THEOREM TypeCorrect == Spec => []TypeOK
  <1>1. TypeInv /\ NvmeInv /\ PagesInv => TypeOK
    BY TypeOKLemma
  <1> QED
    BY TypeInvInit, TypeInvNext, NvmeInvInit, NvmeInvNext, PagesInvInit, PagesInvNext,
       <1>1, PTL DEF Spec

=============================================================================
