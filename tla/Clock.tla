-------------------------------- MODULE Clock --------------------------------
(***************************************************************************)
(* kernel/arch/x86_64/time.c: where the frequency of the time stamp        *)
(* counter comes from.  Either CPUID tells it, or time_init unmasks the    *)
(* timer, executes hlt twice and masks it again, while calibrate_tsc       *)
(* handles each tick.  The interrupts are on all the time, so a tick may   *)
(* also come in front of a hlt or of the masking: one that the interrupt   *)
(* controller has kept, or one that came while the handler was printing.   *)
(***************************************************************************)
EXTENDS Machine

CONSTANTS
  RegBits,     \* bits of a register of CPUID: 32
  TscCount,    \* what the counter reads at a tick: not a frequency
  MaxStrays    \* bound: ticks that do not end a hlt

ASSUME ClockAssumption ==
  /\ RegBits \in Nat /\ 2^RegBits \in Nat \ {0} /\ MaxStrays \in Nat /\ TscCount \in Nat
  /\ \A m \in Machines :
       m.cpu \in [tsc : BOOLEAN, invariant : BOOLEAN, eax : Nat \ {0}, ebx : Nat, ecx : Nat,
                  hz : Nat \ {TscCount}]

VARIABLES tsc_freq, get_utime, calibrate_state,
          strays   \* ticks so far that did not end a hlt

clockVars == <<tsc_freq, get_utime, calibrate_state, strays>>

cpu == machine.cpu

\* The test is ebx & ecx.
ShareABit(x, y) ==
  \E b \in 0 .. RegBits - 1 : (x \div 2^b) % 2 = 1 /\ (y \div 2^b) % 2 = 1

\* What CPUID reports of a counter is right, before it is cut off to 32 bits.
ASSUME CpuidAssumption ==
  \A m \in Machines : m.cpu.invariant /\ ShareABit(m.cpu.ebx, m.cpu.ecx) =>
    m.cpu.hz = (m.cpu.ecx * m.cpu.ebx) \div m.cpu.eax

\* Leaf 15H: crystal frequency ecx, ratio ebx / eax, in 32 bits.
CpuidFrequency == ((cpu.ecx * cpu.ebx) % 2^RegBits) \div cpu.eax

FrequencyKnown == cpu.invariant /\ ShareABit(cpu.ebx, cpu.ecx)

\* The next message reads the counter and divides by the frequency.  Without a
\* counter (time.c:67) the reading is an invalid instruction.
time_init ==
  /\ At("time")
  /\ tsc_freq' = IF FrequencyKnown THEN CpuidFrequency ELSE tsc_freq
  /\ get_utime' = IF FrequencyKnown \/ ~ cpu.tsc THEN "tsc" ELSE get_utime
  /\ Go(IF ~ cpu.tsc THEN "panic"
        ELSE IF ~ FrequencyKnown THEN "hlt_1"
        ELSE IF tsc_freq' = 0 THEN "panic" ELSE "memory_map")
  /\ UNCHANGED <<calibrate_state, strays>>

hlt ==
  /\ stage \in {"hlt_1", "hlt_2"}
  /\ Go(IF At("hlt_1") THEN "halted_1" ELSE "halted_2")
  /\ UNCHANGED clockVars

MaskTimer ==
  /\ At("mask_timer")
  /\ Go("memory_map")
  /\ UNCHANGED clockVars

calibrate_tsc ==
  IF calibrate_state = 0
    THEN /\ calibrate_state' = 1
         /\ tsc_freq' = TscCount
         /\ UNCHANGED get_utime
    ELSE /\ calibrate_state' = 0
         /\ tsc_freq' = cpu.hz
         /\ get_utime' = "tsc"

AfterFirstHlt_Mask == "mask_timer"
AfterFirstHlt == "hlt_2"

TimerInterrupt ==
  /\ calibrate_tsc
  /\ \/ At("halted_1") /\ Go(AfterFirstHlt) /\ UNCHANGED strays
     \/ At("halted_2") /\ Go("mask_timer") /\ UNCHANGED strays
     \/ /\ stage \in {"hlt_1", "hlt_2", "mask_timer"}
        /\ strays < MaxStrays
        /\ strays' = strays + 1
        /\ UNCHANGED stage

ClockInit ==
  tsc_freq = 0 /\ get_utime = "default" /\ calibrate_state = 0 /\ strays = 0

ClockNext == time_init \/ hlt \/ MaskTimer \/ TimerInterrupt

Calibrating == {"kinit", "halted", "time", "hlt_1", "halted_1", "hlt_2", "halted_2",
                "mask_timer"}

\* Whatever a processor with a counter reports and however the ticks fall
\* between the two hlt, time_init leaves a clock in Hz (time.c:22), unless the
\* product of CPUID's numbers is cut off or an odd number of stray ticks leaves
\* the handler in the middle of a measurement.
ClockRight ==
  /\ stage \notin Calibrating /\ cpu.tsc
  /\ strays % 2 = 0
  /\ cpu.ecx * cpu.ebx < 2^RegBits
  => tsc_freq = cpu.hz /\ get_utime = "tsc"

=============================================================================
