---------------------------------- MODULE Ps2 ----------------------------------
(***************************************************************************)
(* ps2_init of kernel/src/ps2.c, ps2_register_kbd_isr of                   *)
(* kernel/arch/x86_64/ps2.c and the two registrations of kbd_init          *)
(* (kernel/src/kbd.c): the kernel, the controller and the keyboard, each   *)
(* in its own time.  What follows, commands to the keyboard and the        *)
(* decoding of its bytes, is Kbd.                                          *)
(*                                                                         *)
(* A byte is the set of its bits.  machine.i8042 is the configuration byte *)
(* and the output buffer that the firmware leaves.                         *)
(***************************************************************************)
EXTENDS Nvme

CONSTANT MaxKeys   \* bound: bytes of keys pressed meanwhile

\* Bits 3 and 7 of the configuration byte are 0: it is no byte a keyboard sends.
\* The output buffer holds at most one byte.
ASSUME Ps2Assumption ==
  /\ MaxKeys \in Nat
  /\ \A m \in Machines : m.i8042.config \subseteq {0, 1, 2, 4, 5, 6}
  /\ \A m \in Machines :
       m.i8042.out = <<>> \/ \E b \in SUBSET (0 .. 7) : m.i8042.out = <<b>>

VARIABLES
  config,        \* the configuration byte of the controller
  out,           \* its output buffer: empty or one byte
  reply,         \* its answer to command 20, not yet in the buffer
  kbdq,          \* bytes that the keyboard has not sent yet
  first,         \* the first byte read of the self test
  kbd_handler,   \* "none" before it is registered
  keys,          \* bytes of keys so far
  keyboard       \* what ps2_init returned

ps2Vars == <<config, out, reply, kbdq, first, kbd_handler, keys, keyboard>>

Byte == SUBSET (0 .. 7)
ACK  == {1, 3, 4, 5, 6, 7}   \* FA
PASS == {1, 3, 5, 7}         \* AA
KEY  == {2, 3, 4}            \* 1C
FF   == 0 .. 7               \* also -1, cast to a byte

IRQ1 == 0                    \* bits of the configuration byte
PORT1_OFF == 4
PORT2_OFF == 5
TRANSLATE == 6

----------------------------------------------------------------------------
(* The kernel *)

facp == acpi_get_table("FACP")

\* Both ports are disabled, one byte is thrown away, the configuration is asked
\* for.
ps2_init ==
  /\ At("ps2")
  /\ IF facp # 0 /\ ~ fw.tables[facp].i8042
       THEN Go("kmain") /\ UNCHANGED ps2Vars
       ELSE /\ config' = config \cup {PORT1_OFF, PORT2_OFF}
            /\ out' = <<>>
            /\ reply' = <<config'>>
            /\ Go("read_config")
            /\ UNCHANGED <<kbdq, first, kbd_handler, keys, keyboard>>

\* A byte, or -1 when 1000 polls have found none.
ps2_read_sync == IF out = <<>> THEN FF ELSE Head(out)

\* When a command follows that has no answer: the controller works them off in
\* order, so the answer to an earlier one is in the buffer before.
BufferRead == IF reply = <<>> THEN out' = <<>> /\ UNCHANGED reply
                              ELSE out' = reply /\ reply' = <<>>

\* The keyboard is reset, unless ps2_send_kbd gives up: it answers and passes
\* its self test, in either order.
Cleared_NoTranslation(b) == b \ {0, 1}
Cleared(b) == b \ {0, 1, TRANSLATE}
ResetKeyboard ==
  /\ At("read_config")
  /\ config' = Cleared(ps2_read_sync) \ {PORT1_OFF}
  /\ BufferRead
  /\ kbdq' \in {kbdq, <<ACK, PASS>>, <<PASS, ACK>>}
  /\ Go("first")
  /\ UNCHANGED <<first, kbd_handler, keys, keyboard>>

ReadFirst ==
  /\ At("first")
  /\ first' = ps2_read_sync
  /\ out' = <<>>
  /\ Go("second")
  /\ UNCHANGED <<config, reply, kbdq, kbd_handler, keys, keyboard>>

ReadSecond ==
  /\ At("second")
  /\ keyboard' = (<<first, ps2_read_sync>> \in {<<ACK, PASS>>, <<PASS, ACK>>})
  /\ out' = <<>>
  /\ Go(IF keyboard' THEN "register_1" ELSE "kmain")
  /\ UNCHANGED <<config, reply, kbdq, first, kbd_handler, keys>>

\* NULL first, then kbd_isr.
ps2_register_kbd_isr ==
  /\ stage \in {"register_1", "register_2"}
  /\ kbd_handler' = IF At("register_1") THEN "NULL" ELSE "kbd_isr"
  /\ reply' = <<config>>
  /\ Go(IF At("register_1") THEN "config_1" ELSE "config_2")
  /\ UNCHANGED <<config, out, kbdq, first, keys, keyboard>>

\* ps2_read_data does not wait: it returns what is there, or 0.
ReadConfig ==
  /\ stage \in {"config_1", "config_2"}
  /\ config' = {IRQ1} \cup (IF out = <<>> THEN {} ELSE Head(out))
  /\ BufferRead
  /\ Go(IF At("config_1") THEN "register_2" ELSE "kmain")
  /\ UNCHANGED <<kbdq, first, kbd_handler, keys, keyboard>>

\* Once it is registered, kbd_isr reads whatever raised the interrupt; the stub
\* without a handler leaves it there.
KbdInterrupt ==
  /\ At("config_2") /\ kbd_handler = "kbd_isr" /\ IRQ1 \in config /\ out # <<>>
  /\ out' = <<>>
  /\ UNCHANGED <<stage, config, reply, kbdq, first, kbd_handler, keys, keyboard>>

Ps2Next ==
  \/ ps2_init \/ ResetKeyboard \/ ReadFirst \/ ReadSecond
  \/ ps2_register_kbd_isr \/ ReadConfig

----------------------------------------------------------------------------
(* The controller and the keyboard *)

Initialising == {"read_config", "first", "second", "register_1", "config_1",
                 "register_2", "config_2"}

Arrive(b) ==
  /\ stage \in Initialising /\ out = <<>>
  /\ out' = <<b>>
  /\ UNCHANGED <<stage, config, first, kbd_handler, keys, keyboard>>

Reply   == reply # <<>> /\ Arrive(Head(reply)) /\ reply' = <<>> /\ UNCHANGED kbdq
KbdByte == /\ kbdq # <<>> /\ PORT1_OFF \notin config /\ Arrive(Head(kbdq))
           /\ kbdq' = Tail(kbdq) /\ UNCHANGED reply

KeyPress ==
  /\ stage \in Initialising /\ keys < MaxKeys
  /\ keys' = keys + 1 /\ kbdq' = Append(kbdq, KEY)
  /\ UNCHANGED <<stage, config, out, reply, first, kbd_handler, keyboard>>

Peripherals == KbdInterrupt \/ Reply \/ KbdByte \/ KeyPress

Ps2Init ==
  /\ config = machine.i8042.config /\ out = machine.i8042.out
  /\ reply = <<>> /\ kbdq = <<>> /\ first = {} /\ kbd_handler = "none"
  /\ keys = 0 /\ keyboard = FALSE

----------------------------------------------------------------------------
(* Properties *)

\* Whether the answers to command 20 come in time, late, or are taken away by
\* the interrupt, the keyboard that was found ends connected, with interrupts
\* and without translation, provided that no key is pressed meanwhile; and
\* interrupts are on only with a handler.
KeyboardConnected ==
  /\ At("kmain") /\ keyboard /\ keys = 0 =>
       IRQ1 \in config /\ {PORT1_OFF, TRANSLATE} \cap config = {}
  /\ stage \in Initialising \ {"read_config"} /\ IRQ1 \in config => kbd_handler # "none"

=============================================================================
