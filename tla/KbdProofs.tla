------------------------------ MODULE KbdProofs ------------------------------
(***************************************************************************)
(* Proofs about Kbd for every size of the rings and every number of keys,   *)
(* refusals and failed sends.                                               *)
(*                                                                         *)
(* The commands: CmdInv says, besides the two properties, where the one     *)
(* byte in flight is, and that the bytes up to wbuf_widx are those of       *)
(* kbd_init.  The ring: RingFaithful is inductive with TypeOK.              *)
(*                                                                         *)
(* The keystrokes: KeysInv says which presses the bytes waiting in the      *)
(* port are the rest of, that current_state and prev are what the bytes     *)
(* already read of the next one leave behind, and that every event stored   *)
(* is the press it came from with the Shift state of that moment.           *)
(***************************************************************************)
EXTENDS Kbd, CommonLemmas

----------------------------------------------------------------------------
(* Lemmas about the indices *)

\* A number below the modulus is its own remainder.
LEMMA ModSmall ==
  ASSUME NEW m \in Nat \ {0}, NEW n \in 0 .. m - 1
  PROVE  n % m = n
  <1> DEFINE q == n \div m
             r == n % m
  <1>1. q \in Int /\ r \in 0 .. m - 1 /\ n = m * q + r
    OBVIOUS
  <1> HIDE DEF q, r
  <1>2. ~ (q >= 1)
    <2> SUFFICES ASSUME q >= 1 PROVE FALSE
      OBVIOUS
    <2>1. m * q >= m
      BY <1>1
    <2> QED
      BY <1>1, <2>1
  <1>3. ~ (q <= -1)
    <2> SUFFICES ASSUME q <= -1 PROVE FALSE
      OBVIOUS
    <2>1. m * q <= -m
      BY <1>1
    <2> QED
      BY <1>1, <2>1
  <1>4. q = 0
    BY <1>1, <1>2, <1>3
  <1> QED
    BY <1>1, <1>4 DEF r

\* The modulus leaves no remainder.
LEMMA ModSelf ==
  ASSUME NEW m \in Nat \ {0}
  PROVE  m % m = 0
  <1> DEFINE q == m \div m
             r == m % m
  <1>1. q \in Int /\ r \in 0 .. m - 1 /\ m = m * q + r
    OBVIOUS
  <1> HIDE DEF q, r
  <1>2. ~ (q >= 2)
    <2> SUFFICES ASSUME q >= 2 PROVE FALSE
      OBVIOUS
    <2>1. m * q >= m * 2
      BY <1>1
    <2> QED
      BY <1>1, <2>1
  <1>3. ~ (q <= 0)
    <2> SUFFICES ASSUME q <= 0 PROVE FALSE
      OBVIOUS
    <2>1. m * q <= 0
      BY <1>1
    <2> QED
      BY <1>1, <2>1
  <1>4. q = 1
    BY <1>1, <1>2, <1>3
  <1> QED
    BY <1>1, <1>4 DEF r

\* An index goes up by one and from the last entry back to the first.
LEMMA IncRLemma ==
  ASSUME NEW i \in 0 .. RingSize - 1
  PROVE  /\ IncR(i) = IF i = RingSize - 1 THEN 0 ELSE i + 1
         /\ IncR(i) \in 0 .. RingSize - 1
  <1>1. CASE i = RingSize - 1
    BY <1>1, ModSelf, BoundsAssumption DEF IncR
  <1>2. CASE i # RingSize - 1
    BY <1>2, ModSmall, BoundsAssumption DEF IncR
  <1> QED
    BY <1>1, <1>2

\* The first three commands do not wrap wbuf.
LEMMA IncWLemma ==
  /\ \A i \in 0 .. WbufSize - 1 : IncW(i) \in 0 .. WbufSize - 1
  /\ \A i \in 0 .. 2 : IncW(i) = i + 1
  <1>1. ASSUME NEW i \in 0 .. WbufSize - 1 PROVE IncW(i) \in 0 .. WbufSize - 1
    BY BoundsAssumption DEF IncW
  <1>2. ASSUME NEW i \in 0 .. 2 PROVE IncW(i) = i + 1
    BY ModSmall, BoundsAssumption DEF IncW
  <1> QED
    BY <1>1, <1>2

----------------------------------------------------------------------------
(* Type correctness *)

\* The two maps name a key for every byte.
LEMMA KeyOfType ==
  ASSUME NEW b \in Bytes
  PROVE  KeyOf(b) \in KeyCodes
  <1>1. normal_map[b] \in KeyCodes
    BY DEF normal_map, KeyCodes, Bytes
  <1>2. extended_map[b] \in KeyCodes
    BY DEF extended_map, KeyCodes, Bytes
  <1> QED
    BY <1>1, <1>2 DEF KeyOf

LEMMA FlagsType ==
  ASSUME NEW down
  PROVE  Flags(down) \in SUBSET {"Released", "Control", "Shift"}
  BY DEF Flags

\* What a read of a scancode byte keeps.
LEMMA ReadScanFrame ==
  ASSUME NEW b, TypeOK, ReadScan(b)
  PROVE  /\ torn' \in BOOLEAN
         /\ pc' \in {pc, "drain"}
         /\ UNCHANGED <<wbuf_ridx, wbuf_widx, retry_cnt, active>>
  BY DEF TypeOK, ReadScan, Wake, keyboardVars, commandVars

LEMMA StoreType ==
  ASSUME TypeOK, NEW k \in Keystrokes, Store(k)
  PROVE  /\ rbuf' \in [0 .. RingSize - 1 -> Keystrokes]
         /\ rbuf_ridx' \in 0 .. RingSize - 1
         /\ rbuf_widx' \in 0 .. RingSize - 1
         /\ events' \in Seq(Keystrokes)
         /\ nread' \in Nat /\ lost' \in Nat
  <1>1. rbuf_widx' \in 0 .. RingSize - 1
    BY IncRLemma DEF Store, TypeOK
  <1>2. rbuf' \in [0 .. RingSize - 1 -> Keystrokes]
    BY DEF Store, StoreSlot, TypeOK
  <1>3. events' \in Seq(Keystrokes)
    BY DEF Store, TypeOK
  <1>4. lost' \in Nat
    BY BoundsAssumption DEF Store, TypeOK
  <1> QED
    BY <1>1, <1>2, <1>3, <1>4 DEF Store, TypeOK

LEMMA TypeInit == Init => TypeOK
  <1> SUFFICES ASSUME Init PROVE TypeOK
    OBVIOUS
  <1>1. [code |-> "LCtrl", flags |-> {}] \in Keystrokes
    BY DEF Keystrokes, KeyCodes
  <1>2. rbuf \in [0 .. RingSize - 1 -> Keystrokes]
    BY <1>1 DEF Init
  <1>3. /\ wbuf_ridx \in 0 .. WbufSize - 1 /\ wbuf_widx \in 0 .. WbufSize - 1
        /\ rbuf_ridx \in 0 .. RingSize - 1 /\ rbuf_widx \in 0 .. RingSize - 1
        /\ retry_cnt \in 0 .. 3 /\ nread \in Nat /\ lost \in Nat
    BY BoundsAssumption DEF Init
  <1>4. /\ prev \in Bytes \cup {None} /\ keystates \subseteq KeyCodes
        /\ events \in Seq(Keystrokes)
    BY DEF Init
  <1>5. /\ active \in BOOLEAN /\ torn \in BOOLEAN
        /\ pc \in {"write1", "write2", "write3", "activate", "hlt", "asleep",
                   "drain"}
    BY DEF Init
  <1> QED
    BY <1>2, <1>3, <1>4, <1>5 DEF TypeOK

LEMMA TypeStep == TypeOK /\ [Next]_vars => TypeOK'
  <1> SUFFICES ASSUME TypeOK, [Next]_vars PROVE TypeOK'
    OBVIOUS
  <1>1. ASSUME NEW i \in 1 .. Len(Commands), kbd_write(i) PROVE TypeOK'
    <2>1. i \in 1 .. 3
      BY DEF Commands
    <2>2. pc' \in {"write1", "write2", "write3", "activate"}
      BY <1>1, <2>1 DEF kbd_write, InitPc
    <2>3. wbuf_widx' \in 0 .. WbufSize - 1
      BY <1>1, IncWLemma DEF kbd_write, TypeOK
    <2> QED
      BY <1>1, <2>2, <2>3
      DEF kbd_write, TypeOK, parserVars, ringVars, typingVars
  <1>2. CASE Activate
    BY <1>2
    DEF Activate, TypeOK, commandVars, parserVars, ringVars, typingVars
  <1>3. CASE Halt
    BY <1>3 DEF Halt, TypeOK, commandVars, parserVars, ringVars, typingVars
  <1>4. CASE kbd_read
    <2>1. rbuf_ridx' \in 0 .. RingSize - 1
      BY <1>4, IncRLemma DEF kbd_read, TypeOK
    <2>2. nread' \in Nat /\ pc' \in {"hlt", "drain"}
      BY <1>4 DEF kbd_read, TypeOK
    <2> QED
      BY <1>4, <2>1, <2>2
      DEF kbd_read, TypeOK, commandVars, parserVars, typingVars
  <1>5. CASE Ack
    BY <1>5, IncWLemma
    DEF Ack, Wake, TypeOK, parserVars, ringVars, typingVars
  <1>6. CASE Resend
    <2>1. retry_cnt' \in 0 .. 3
      BY <1>6 DEF Resend, CanRetry, TypeOK
    <2> QED
      BY <1>6, <2>1 DEF Resend, Wake, TypeOK, parserVars, ringVars, typingVars
  <1>7. ASSUME NEW b \in Bytes, Ignored(b) PROVE TypeOK'
    BY <1>7, ReadScanFrame DEF Ignored, TypeOK, parserVars, ringVars
  <1>8. ASSUME NEW b \in Bytes, Prefix(b) PROVE TypeOK'
    BY <1>8, ReadScanFrame DEF Prefix, TypeOK, ringVars
  <1>9. ASSUME NEW b \in Bytes, Digraph(b) PROVE TypeOK'
    BY <1>9, ReadScanFrame DEF Digraph, TypeOK, ringVars
  <1>10. ASSUME NEW b \in Bytes, TopByte(b) PROVE TypeOK'
    BY <1>10, ReadScanFrame DEF TopByte, TypeOK, ringVars
  <1>11. ASSUME NEW b \in Bytes, Keystroke(b) PROVE TypeOK'
    <2> DEFINE k == [code |-> KeyOf(b), flags |-> Flags(keystates')]
    <2>1. k \in Keystrokes
      BY KeyOfType, FlagsType DEF Keystrokes
    <2>2. Store(k)
      BY <1>11 DEF Keystroke
    <2> HIDE DEF k
    <2>3. keystates' \subseteq KeyCodes /\ prev' \in Bytes \cup {None}
      BY <1>11, KeyOfType DEF Keystroke, TypeOK
    <2>4. ReadScan(b)
      BY <1>11 DEF Keystroke
    <2> QED
      BY <2>1, <2>2, <2>3, <2>4, StoreType, ReadScanFrame DEF TypeOK
  <1>12. ASSUME NEW a, Answer(a) PROVE TypeOK'
    BY <1>12
    DEF Answer, TypeOK, commandVars, parserVars, ringVars, typingVars
  <1>13. ASSUME NEW key, NEW released, Type(key, released) PROVE TypeOK'
    BY <1>13
    DEF Type, TypeOK, commandVars, parserVars, ringVars
  <1>14. CASE UNCHANGED vars
    BY <1>14
    DEF vars, TypeOK, commandVars, parserVars, ringVars, typingVars
  <1> QED
    BY <1>1, <1>2, <1>3, <1>4, <1>5, <1>6, <1>7, <1>8, <1>9, <1>10, <1>11,
       <1>12, <1>13, <1>14
    DEF Next, thread, kbd_isr, keyboard

\* The indices stay inside their arrays, and every entry of the ring is a
\* keystroke of a known code with known flags, whatever bytes arrive.
THEOREM TypeCorrect == Spec => []TypeOK
  BY TypeInit, TypeStep, PTL DEF Spec

----------------------------------------------------------------------------
(* The ring of keystrokes *)

\* Storing adds a keystroke behind the unread ones, or, when it fills the last
\* slot, makes all of them vanish.
LEMMA StoreStep ==
  ASSUME TypeOK, RingFaithful, NEW k \in Keystrokes, Store(k)
  PROVE  RingFaithful'
  <1>1. /\ rbuf_ridx \in 0 .. RingSize - 1 /\ rbuf_widx \in 0 .. RingSize - 1
        /\ RingSize \in Nat \ {0} /\ nread \in Nat /\ lost \in Nat
        /\ events \in Seq(Keystrokes)
    BY BoundsAssumption DEF TypeOK
  <1>2. /\ rbuf' = [rbuf EXCEPT ![rbuf_widx] = k]
        /\ DOMAIN rbuf = 0 .. RingSize - 1
        /\ events' = Append(events, k)
        /\ rbuf_ridx' = rbuf_ridx /\ nread' = nread
    BY DEF Store, StoreSlot, TypeOK
  <1>3. rbuf_widx' = IF rbuf_widx = RingSize - 1 THEN 0 ELSE rbuf_widx + 1
    BY <1>1, IncRLemma DEF Store
  <1>4. lost' = IF rbuf_widx' = rbuf_ridx THEN lost + RingSize ELSE lost
    BY DEF Store
  <1>5. /\ Len(events') = Len(events) + 1
        /\ events'[Len(events) + 1] = k
        /\ \A j \in 1 .. Len(events) : events'[j] = events[j]
    BY <1>1, <1>2
  <1>6. Len(events) = nread + lost + Unread
    BY DEF RingFaithful
  <1>7. CASE rbuf_widx' = rbuf_ridx
    <2>1. Unread = RingSize - 1
      BY <1>1, <1>3, <1>7 DEF Unread
    <2>2. Unread' = 0
      BY <1>1, <1>2, <1>7 DEF Unread
    <2>3. Len(events') = nread' + lost' + Unread'
      BY <1>1, <1>2, <1>4, <1>5, <1>6, <1>7, <2>1, <2>2
    <2> QED
      BY <2>2, <2>3 DEF RingFaithful
  <1>8. CASE rbuf_widx' # rbuf_ridx
    <2>1. Unread' = Unread + 1 /\ Unread \in 0 .. RingSize - 2
      BY <1>1, <1>2, <1>3, <1>8 DEF Unread
    <2>2. Len(events') = nread' + lost' + Unread'
      BY <1>1, <1>2, <1>4, <1>5, <1>6, <1>8, <2>1
    <2>3. Slot(rbuf_ridx + Unread) = rbuf_widx
      BY <1>1, <2>1 DEF Slot, Unread
    <2>4. ASSUME NEW i \in 0 .. Unread - 1
          PROVE  rbuf'[Slot(rbuf_ridx + i)] = events'[nread + lost + i + 1]
      <3>1. Slot(rbuf_ridx + i) \in 0 .. RingSize - 1
        BY <1>1, <2>1 DEF Slot
      <3>2. Slot(rbuf_ridx + i) # rbuf_widx
        BY <1>1, <2>1 DEF Slot, Unread
      <3>3. rbuf[Slot(rbuf_ridx + i)] = events[nread + lost + i + 1]
        BY DEF RingFaithful
      <3>4. nread + lost + i + 1 \in 1 .. Len(events)
        BY <1>1, <1>6, <2>1
      <3> QED
        BY <1>2, <1>5, <3>1, <3>2, <3>3, <3>4
    <2>5. rbuf'[Slot(rbuf_ridx + Unread)] = events'[nread + lost + Unread + 1]
      BY <1>1, <1>2, <1>5, <1>6, <2>3
    <2>6. ASSUME NEW i \in 0 .. Unread' - 1
          PROVE  rbuf'[Slot(rbuf_ridx + i)] = events'[nread + lost + i + 1]
      <3>1. i \in 0 .. Unread - 1 \/ i = Unread
        BY <2>1
      <3> QED
        BY <2>4, <2>5, <3>1
    <2>7. \A i \in 0 .. Unread' - 1 :
            rbuf'[Slot(rbuf_ridx' + i)] = events'[nread' + lost' + i + 1]
      BY <1>2, <1>4, <1>8, <2>6
    <2> QED
      BY <2>2, <2>7 DEF RingFaithful, Slot
  <1> QED
    BY <1>7, <1>8

\* Reading takes the oldest of the unread keystrokes.
LEMMA ReadStep ==
  ASSUME TypeOK, RingFaithful, kbd_read
  PROVE  /\ RingFaithful'
         /\ nread' # nread => rbuf[ReadSlot] = events[nread + lost + 1]
  <1>1. /\ rbuf_ridx \in 0 .. RingSize - 1 /\ rbuf_widx \in 0 .. RingSize - 1
        /\ RingSize \in Nat \ {0} /\ nread \in Nat /\ lost \in Nat
    BY BoundsAssumption DEF TypeOK
  <1>2. UNCHANGED <<rbuf, rbuf_widx, events, lost>>
    BY DEF kbd_read
  <1>3. CASE IsEmpty
    <2>1. UNCHANGED <<rbuf_ridx, nread>>
      BY <1>3 DEF kbd_read
    <2> QED
      BY <1>2, <2>1 DEF RingFaithful, Unread, Slot
  <1>4. CASE ~ IsEmpty
    <2>1. rbuf_ridx' = IF rbuf_ridx = RingSize - 1 THEN 0 ELSE rbuf_ridx + 1
      BY <1>1, <1>4, IncRLemma DEF kbd_read
    <2>2. nread' = nread + 1
      BY <1>4 DEF kbd_read
    <2>3. rbuf_ridx # rbuf_widx
      BY <1>4 DEF IsEmpty
    <2>4. Unread \in 1 .. RingSize - 1 /\ Unread' = Unread - 1
      BY <1>1, <1>2, <2>1, <2>3 DEF Unread
    <2>5. Len(events) = nread + lost + Unread
      BY DEF RingFaithful
    <2>6. Len(events') = nread' + lost' + Unread'
      BY <1>1, <1>2, <2>2, <2>4, <2>5
    <2>7. ASSUME NEW i \in 0 .. Unread' - 1
          PROVE  rbuf[Slot(rbuf_ridx' + i)] = events[nread' + lost + i + 1]
      <3>1. Slot(rbuf_ridx' + i) = Slot(rbuf_ridx + (i + 1))
        BY <1>1, <2>1, <2>4 DEF Slot
      <3>2. i + 1 \in 0 .. Unread - 1
        BY <2>4
      <3>3. rbuf[Slot(rbuf_ridx + (i + 1))]
              = events[nread + lost + (i + 1) + 1]
        BY <3>2 DEF RingFaithful
      <3>4. nread' + lost + i + 1 = nread + lost + (i + 1) + 1
        BY <1>1, <2>2, <2>4
      <3> QED
        BY <3>1, <3>3, <3>4
    <2>8. RingFaithful'
      BY <1>2, <2>6, <2>7 DEF RingFaithful, Slot
    <2>9. rbuf[Slot(rbuf_ridx + 0)] = events[nread + lost + 0 + 1]
      BY <2>4 DEF RingFaithful
    <2>10. rbuf[ReadSlot] = events[nread + lost + 1]
      BY <1>1, <2>9 DEF ReadSlot, Slot
    <2> QED
      BY <2>8, <2>10
  <1> QED
    BY <1>3, <1>4

\* The other steps leave the ring alone.
LEMMA RingFrame ==
  ASSUME UNCHANGED ringVars, RingFaithful
  PROVE  RingFaithful' /\ nread' = nread
  BY DEF ringVars, RingFaithful, Unread, Slot

LEMMA RingStep ==
  ASSUME TypeOK, RingFaithful, [Next]_vars
  PROVE  /\ RingFaithful'
         /\ nread' # nread => rbuf[ReadSlot] = events[nread + lost + 1]
  <1>1. ASSUME NEW b \in Bytes, Keystroke(b) PROVE RingFaithful' /\ nread' = nread
    <2> DEFINE k == [code |-> KeyOf(b), flags |-> Flags(keystates')]
    <2>1. k \in Keystrokes
      BY KeyOfType, FlagsType DEF Keystrokes
    <2>2. Store(k)
      BY <1>1 DEF Keystroke
    <2> HIDE DEF k
    <2> QED
      BY <2>1, <2>2, StoreStep DEF Store
  <1>2. ASSUME NEW i \in 1 .. Len(Commands), kbd_write(i)
        PROVE  UNCHANGED ringVars
    BY <1>2 DEF kbd_write
  <1>3. ASSUME NEW b \in Bytes,
               Ignored(b) \/ Prefix(b) \/ Digraph(b) \/ TopByte(b)
        PROVE  UNCHANGED ringVars
    BY <1>3 DEF Ignored, Prefix, Digraph, TopByte
  <1>4. CASE Activate \/ Halt \/ Ack \/ Resend \/ UNCHANGED vars
    <2>1. UNCHANGED ringVars
      BY <1>4 DEF Activate, Halt, Ack, Resend, vars
    <2> QED
      BY <2>1, RingFrame
  <1>5. ASSUME NEW a, Answer(a) PROVE UNCHANGED ringVars
    BY <1>5 DEF Answer
  <1>6. ASSUME NEW key, NEW released, Type(key, released)
        PROVE  UNCHANGED ringVars
    BY <1>6 DEF Type
  <1>7. CASE kbd_read
    BY <1>7, ReadStep
  <1> QED
    BY <1>1, <1>2, <1>3, <1>4, <1>5, <1>6, <1>7, RingFrame
    DEF Next, thread, kbd_isr, keyboard

LEMMA RingInit == Init => RingFaithful
  BY BoundsAssumption DEF Init, RingFaithful, Unread

\* However kbd_isr and kbd_read interleave, what is in the ring is the oldest
\* keystrokes stored and not returned, and only full turns of it are lost.
THEOREM RingCorrect == Spec => []RingFaithful
  <1>1. Init => TypeOK /\ RingFaithful
    BY TypeInit, RingInit
  <1>2. TypeOK /\ RingFaithful /\ [Next]_vars => (TypeOK /\ RingFaithful)'
    BY TypeStep, RingStep
  <1> QED
    BY <1>1, <1>2, PTL DEF Spec

\* Every keystroke kbd_read returns is the one after the last it returned or
\* lost to a full turn.
THEOREM ReadOrder == Spec => ReadsInOrder
  <1>1. TypeOK /\ RingFaithful /\ [Next]_vars
          => [nread' # nread => rbuf[ReadSlot] = events[nread + lost + 1]]_vars
    BY RingStep
  <1> QED
    BY <1>1, TypeCorrect, RingCorrect, PTL DEF Spec, ReadsInOrder

----------------------------------------------------------------------------
(* The queue of commands *)

CommandBytes == {"F0", "02", "F4"}

\* How many commands the boot thread has queued.
Queued == IF pc = "write1" THEN 0
          ELSE IF pc = "write2" THEN 1
          ELSE IF pc = "write3" THEN 2 ELSE 3

\* The byte at wbuf_ridx is either nowhere, because a send failed or kbd_isr
\* gave it up, or on its way, or accepted, or refused.
InFlight ==
  \/ line = <<>> /\ answers = <<>> /\ Len(accepted) = wbuf_ridx
  \/ /\ wbuf_ridx < wbuf_widx
     /\ \/ /\ line = <<wbuf[wbuf_ridx]>> /\ answers = <<>>
           /\ Len(accepted) = wbuf_ridx
        \/ line = <<>> /\ answers = <<"FA">> /\ Len(accepted) = wbuf_ridx + 1
        \/ line = <<>> /\ answers = <<"FE">> /\ Len(accepted) = wbuf_ridx

CmdInv ==
  /\ wbuf_widx = Queued
  /\ wbuf_ridx \in 0 .. wbuf_widx
  /\ wbuf \in [0 .. WbufSize - 1 -> CommandBytes \cup {None}]
  /\ \A i \in 0 .. wbuf_widx - 1 : wbuf[i] = Commands[i + 1]
  /\ accepted \in Seq(CommandBytes)
  /\ \A i \in 1 .. Len(accepted) : accepted[i] = Commands[i]
  /\ InFlight

\* A send of at most one byte into an empty line.
LEMMA SendLemma ==
  ASSUME NEW c, NEW bytes \in {<<>>, <<c>>}, Send(bytes), line = <<>>
  PROVE  line' \in {<<>>, bytes}
  BY DEF Send

LEMMA CommandsLemma ==
  /\ Len(Commands) = 3
  /\ \A i \in 1 .. 3 : Commands[i] \in CommandBytes
  /\ WbufSize \in Nat /\ WbufSize > 3
  BY BoundsAssumption DEF Commands, CommandBytes

LEMMA CmdInit == Init => CmdInv
  BY CommandsLemma DEF Init, CmdInv, Queued, InFlight

\* A step that leaves the commands and the keyboard alone.
LEMMA CmdFrame ==
  ASSUME CmdInv, UNCHANGED <<line, answers, accepted>>, UNCHANGED commandVars,
         Queued' = Queued
  PROVE  CmdInv'
  BY DEF CmdInv, InFlight, commandVars

LEMMA CmdStep == CmdInv /\ [Next]_vars => CmdInv'
  <1> SUFFICES ASSUME CmdInv, [Next]_vars PROVE CmdInv'
    OBVIOUS
  <1>0. /\ wbuf_widx = Queued /\ wbuf_widx \in 0 .. 3
        /\ wbuf_ridx \in 0 .. wbuf_widx
        /\ wbuf \in [0 .. WbufSize - 1 -> CommandBytes \cup {None}]
        /\ \A i \in 0 .. wbuf_widx - 1 : wbuf[i] = Commands[i + 1]
        /\ accepted \in Seq(CommandBytes)
        /\ \A i \in 1 .. Len(accepted) : accepted[i] = Commands[i]
        /\ InFlight
    BY DEF CmdInv, Queued
  <1>1. ASSUME NEW i \in 1 .. Len(Commands), kbd_write(i) PROVE CmdInv'
    <2> DEFINE c == Commands[i]
    <2>1. i \in 1 .. 3 /\ c \in CommandBytes
      BY CommandsLemma
    <2>2. pc = InitPc[i] /\ pc' = InitPc[i + 1]
      BY <1>1 DEF kbd_write
    <2>3. wbuf_widx = i - 1 /\ Queued' = i
      BY <1>0, <2>1, <2>2 DEF InitPc, Queued
    <2>4. wbuf_widx' = i
      BY <1>1, <2>1, <2>3, IncWLemma DEF kbd_write
    <2>5. /\ wbuf' = [wbuf EXCEPT ![wbuf_widx] = c]
          /\ UNCHANGED <<answers, accepted, wbuf_ridx>>
          /\ Send(SentOnWrite(c))
      BY <1>1 DEF kbd_write
    <2> HIDE DEF c
    <2>6. wbuf' \in [0 .. WbufSize - 1 -> CommandBytes \cup {None}]
      BY <1>0, <2>1, <2>5
    <2>7. wbuf'[i - 1] = c
      BY <1>0, <2>1, <2>3, <2>5, CommandsLemma
    <2>8. \A j \in 0 .. i - 2 : wbuf'[j] = wbuf[j]
      BY <1>0, <2>1, <2>3, <2>5, CommandsLemma
    <2>9. \A j \in 0 .. wbuf_widx' - 1 : wbuf'[j] = Commands[j + 1]
      <3> SUFFICES ASSUME NEW j \in 0 .. i - 1 PROVE wbuf'[j] = Commands[j + 1]
        BY <2>4
      <3>1. CASE j = i - 1
        BY <2>1, <2>7, <3>1 DEF c
      <3>2. CASE j # i - 1
        BY <1>0, <2>1, <2>3, <2>8, <3>2
      <3> QED
        BY <3>1, <3>2
    <2>10. InFlight'
      <3>1. CASE wbuf_ridx = wbuf_widx
        <4>1. line = <<>> /\ answers = <<>> /\ Len(accepted) = wbuf_ridx
          BY <1>0, <3>1 DEF InFlight
        <4>2. SentOnWrite(c) = <<c>>
          BY <3>1 DEF SentOnWrite
        <4>3. line' \in {<<>>, <<c>>}
          BY <2>5, <4>1, <4>2, SendLemma
        <4>4. wbuf_ridx < wbuf_widx' /\ wbuf'[wbuf_ridx] = c
          BY <2>1, <2>3, <2>4, <2>7, <3>1
        <4> QED
          BY <2>5, <4>1, <4>3, <4>4 DEF InFlight
      <3>2. CASE wbuf_ridx # wbuf_widx
        <4>1. SentOnWrite(c) = <<>>
          BY <3>2 DEF SentOnWrite
        <4>2. line' = line \o <<>>
          BY <2>5, <4>1 DEF Send
        <4>3. line' = line
          BY <1>0, <4>2 DEF InFlight
        <4>4. wbuf_ridx < wbuf_widx /\ wbuf_ridx < wbuf_widx'
          BY <1>0, <2>1, <2>3, <2>4, <3>2
        <4>5. wbuf'[wbuf_ridx] = wbuf[wbuf_ridx]
          BY <1>0, <2>3, <2>8, <4>4
        <4> QED
          BY <1>0, <2>5, <4>3, <4>4, <4>5 DEF InFlight
      <3> QED
        BY <3>1, <3>2
    <2> QED
      BY <1>0, <2>1, <2>3, <2>4, <2>5, <2>6, <2>9, <2>10 DEF CmdInv
  <1>2. CASE Activate
    BY <1>2, CmdFrame DEF Activate, Queued, keyboardVars
  <1>3. CASE Halt
    BY <1>3, CmdFrame DEF Halt, Queued, keyboardVars
  <1>4. CASE kbd_read
    BY <1>4, CmdFrame DEF kbd_read, Queued, keyboardVars
  <1>5. CASE Ack
    <2>1. /\ wbuf_ridx < wbuf_widx /\ line = <<>> /\ answers = <<"FA">>
          /\ Len(accepted) = wbuf_ridx + 1
      BY <1>0, <1>5 DEF Ack, InFlight
    <2>2. /\ answers' = <<>>
          /\ UNCHANGED <<accepted, wbuf, wbuf_widx>>
          /\ Send(SentOnAck(wbuf_ridx'))
      BY <1>5, <2>1 DEF Ack
    <2>3. wbuf_ridx' = wbuf_ridx + 1
      BY <1>0, <1>5, <2>1, IncWLemma DEF Ack
    <2>4. Queued' = Queued
      BY <1>5 DEF Ack, Wake, Queued
    <2>5. InFlight'
      <3>1. CASE wbuf_ridx' # wbuf_widx
        <4>1. SentOnAck(wbuf_ridx') = <<wbuf[wbuf_ridx']>>
          BY <3>1 DEF SentOnAck
        <4>2. line' \in {<<>>, <<wbuf[wbuf_ridx']>>}
          BY <2>1, <2>2, <4>1, SendLemma
        <4>3. wbuf_ridx' < wbuf_widx'
          BY <1>0, <2>1, <2>2, <2>3, <3>1
        <4> QED
          BY <2>1, <2>2, <2>3, <4>2, <4>3 DEF InFlight
      <3>2. CASE wbuf_ridx' = wbuf_widx
        <4>1. line' = <<>>
          BY <2>1, <2>2, <3>2, SendLemma DEF SentOnAck
        <4> QED
          BY <2>1, <2>2, <2>3, <4>1 DEF InFlight
      <3> QED
        BY <3>1, <3>2
    <2> QED
      BY <1>0, <2>1, <2>2, <2>3, <2>4, <2>5 DEF CmdInv
  <1>6. CASE Resend
    <2>1. /\ wbuf_ridx < wbuf_widx /\ line = <<>> /\ answers = <<"FE">>
          /\ Len(accepted) = wbuf_ridx
      BY <1>0, <1>6 DEF Resend, InFlight
    <2>2. /\ answers' = <<>>
          /\ UNCHANGED <<accepted, wbuf, wbuf_ridx, wbuf_widx>>
      BY <1>6, <2>1 DEF Resend
    <2>3. Queued' = Queued
      BY <1>6 DEF Resend, Wake, Queued
    <2>4. line' \in {<<>>, <<wbuf[wbuf_ridx]>>}
      BY <1>6, <2>1, SendLemma DEF Resend
    <2>5. InFlight'
      BY <2>1, <2>2, <2>4 DEF InFlight
    <2> QED
      BY <1>0, <2>2, <2>3, <2>5 DEF CmdInv
  <1>7. ASSUME NEW b, ReadScan(b) PROVE CmdInv'
    BY <1>7, CmdFrame DEF ReadScan, Wake, Queued, keyboardVars
  <1>8. ASSUME NEW a \in {"FA", "FE"}, Answer(a) PROVE CmdInv'
    <2>1. /\ wbuf_ridx < wbuf_widx /\ line = <<wbuf[wbuf_ridx]>>
          /\ answers = <<>> /\ Len(accepted) = wbuf_ridx
      BY <1>0, <1>8 DEF Answer, InFlight
    <2>2. line' = <<>> /\ answers' = <<a>>
      BY <1>8, <2>1 DEF Answer
    <2>3. UNCHANGED commandVars /\ Queued' = Queued
      BY <1>8 DEF Answer, Queued
    <2>4. wbuf[wbuf_ridx] = Commands[wbuf_ridx + 1]
      BY <1>0, <2>1
    <2>5. wbuf[wbuf_ridx] \in CommandBytes
      BY <1>0, <2>1, <2>4, CommandsLemma
    <2>6. CASE a = "FA"
      <3>1. accepted' = Append(accepted, wbuf[wbuf_ridx])
        BY <1>8, <2>1, <2>6 DEF Answer
      <3>2. /\ accepted' \in Seq(CommandBytes)
            /\ Len(accepted') = wbuf_ridx + 1
            /\ accepted'[wbuf_ridx + 1] = wbuf[wbuf_ridx]
            /\ \A j \in 1 .. wbuf_ridx : accepted'[j] = accepted[j]
        BY <1>0, <2>1, <2>5, <3>1
      <3>3. \A j \in 1 .. Len(accepted') : accepted'[j] = Commands[j]
        BY <1>0, <2>1, <2>4, <3>2
      <3>4. InFlight'
        BY <2>1, <2>2, <2>3, <2>6, <3>2 DEF InFlight, commandVars
      <3> QED
        BY <1>0, <2>3, <3>2, <3>3, <3>4 DEF CmdInv, commandVars
    <2>7. CASE a = "FE"
      <3>1. UNCHANGED accepted
        BY <1>8, <2>7 DEF Answer
      <3>2. InFlight'
        BY <2>1, <2>2, <2>3, <2>7, <3>1 DEF InFlight, commandVars
      <3> QED
        BY <1>0, <2>3, <3>1, <3>2 DEF CmdInv, commandVars
    <2> QED
      BY <2>6, <2>7
  <1>9. ASSUME NEW key, NEW released, Type(key, released) PROVE CmdInv'
    BY <1>9, CmdFrame DEF Type, Queued, keyboardVars
  <1>10. CASE UNCHANGED vars
    BY <1>10, CmdFrame DEF vars, Queued, keyboardVars
  <1> QED
    BY <1>1, <1>2, <1>3, <1>4, <1>5, <1>6, <1>7, <1>8, <1>9, <1>10
    DEF Next, thread, kbd_isr, keyboard, Ignored, Prefix, Digraph, TopByte,
        Keystroke

LEMMA CmdInvariant == Spec => []CmdInv
  BY CmdInit, CmdStep, PTL DEF Spec

\* At most one command byte is unanswered, through every refusal, resend and
\* failed send and wherever kbd_write comes between.
THEOREM Outstanding == Spec => []OneOutstanding
  <1>1. ASSUME CmdInv PROVE OneOutstanding
    <2>1. \/ line = <<>> /\ answers = <<>>
          \/ line = <<wbuf[wbuf_ridx]>> /\ answers = <<>>
          \/ line = <<>> /\ answers = <<"FA">>
          \/ line = <<>> /\ answers = <<"FE">>
      BY <1>1 DEF CmdInv, InFlight
    <2>2. Len(line) \in {0, 1} /\ Len(answers) \in {0, 1}
      BY <2>1
    <2>3. Len(line) = 0 \/ Len(answers) = 0
      BY <2>1
    <2> DEFINE m == Len(line)
               n == Len(answers)
    <2>4. m \in {0, 1} /\ n \in {0, 1} /\ (m = 0 \/ n = 0)
      BY <2>2, <2>3
    <2> HIDE DEF m, n
    <2>5. m + n <= 1
      BY <2>4
    <2> QED
      BY <2>5 DEF OneOutstanding, m, n
  <1> QED
    BY <1>1, CmdInvariant, PTL

\* The keyboard accepts the bytes of kbd_init in their order, none twice.
THEOREM CommandOrder == Spec => []CommandsInOrder
  <1>1. CmdInv => CommandsInOrder
    BY CommandsLemma DEF CmdInv, InFlight, CommandsInOrder, Queued
  <1> QED
    BY <1>1, CmdInvariant, PTL

----------------------------------------------------------------------------
(* Presses become keystrokes *)

\* The keys whose codes Code gives.
Modelled == {"A", "LShift", "Unknown", "Home", "PrintScreen", "Pause"}

\* The bytes of a code in front of its p-th.
Before(key, released, p) == {Code(key, released)[i] : i \in 1 .. p - 1}

\* What kbd_isr knows when it has read these: the states the prefixes have set,
\* and DIGRAPH, which the first half of PrintScreen sets.
StatesBefore(key, released, p) ==
  {s \in {"EXTENDED", "BREAK", "TWOBYTE", "DIGRAPH"} :
     \/ s = "EXTENDED" /\ "E0" \in Before(key, released, p)
     \/ s = "BREAK" /\ "F0" \in Before(key, released, p)
     \/ s = "TWOBYTE" /\ "E1" \in Before(key, released, p)
     \/ s = "DIGRAPH" /\ key = "PrintScreen"
          /\ ("12" \in Before(key, released, p) \/ "7C" \in Before(key, released, p))}

\* The first of the two bytes of Pause, once it has been read.
PrevBefore(key, released, p) ==
  IF key = "Pause" /\ "14" \in Before(key, released, p) THEN "14" ELSE None

\* The codes written out.
LEMMA Codes ==
  ASSUME NEW key, NEW released
  PROVE  /\ key = "A" =>
              Code(key, released) =
                IF released THEN <<"F0", "1C">> ELSE <<"1C">>
         /\ key = "LShift" =>
              Code(key, released) =
                IF released THEN <<"F0", "12">> ELSE <<"12">>
         /\ key = "Unknown" =>
              Code(key, released) =
                IF released THEN <<"F0", "02">> ELSE <<"02">>
         /\ key = "Home" =>
              Code(key, released) =
                IF released THEN <<"E0", "F0", "6C">> ELSE <<"E0", "6C">>
         /\ key = "PrintScreen" =>
              Code(key, released) =
                IF released THEN <<"E0", "F0", "7C", "E0", "F0", "12">> ELSE <<"E0", "12", "E0", "7C">>
         /\ key = "Pause" =>
              Code(key, released) =
                IF released THEN <<"E1", "F0", "14", "F0", "77">> ELSE <<"E1", "14", "77">>
  <1>1. key = "A" =>
         Code(key, released) = IF released THEN <<"F0", "1C">> ELSE <<"1C">>
    BY TupleConcat DEF Code
  <1>2. key = "LShift" =>
         Code(key, released) = IF released THEN <<"F0", "12">> ELSE <<"12">>
    BY TupleConcat DEF Code
  <1>3. key = "Unknown" =>
         Code(key, released) = IF released THEN <<"F0", "02">> ELSE <<"02">>
    BY TupleConcat DEF Code
  <1>4. key = "Home" =>
         Code(key, released) = IF released THEN <<"E0", "F0", "6C">> ELSE <<"E0", "6C">>
    <2>1. <<"E0">> \o <<"6C">> = <<"E0", "6C">>
      BY TupleConcat
    <2>2. <<"E0">> \o <<"F0", "6C">> = <<"E0", "F0", "6C">>
      BY TupleConcat
    <2> QED
      BY <2>1, <2>2 DEF Code
  <1>5. key = "PrintScreen" =>
         Code(key, released) = IF released THEN <<"E0", "F0", "7C", "E0", "F0", "12">> ELSE <<"E0", "12", "E0", "7C">>
    <2>1. <<"E0">> \o <<"12">> = <<"E0", "12">>
      BY TupleConcat
    <2>2. <<"E0">> \o <<"7C">> = <<"E0", "7C">>
      BY TupleConcat
    <2>3. <<"E0", "12">> \o <<"E0", "7C">> = <<"E0", "12", "E0", "7C">>
      BY TupleConcat
    <2>4. <<"E0">> \o <<"F0", "7C">> = <<"E0", "F0", "7C">>
      BY TupleConcat
    <2>5. <<"E0">> \o <<"F0", "12">> = <<"E0", "F0", "12">>
      BY TupleConcat
    <2>6. <<"E0", "F0", "7C">> \o <<"E0", "F0", "12">> = <<"E0", "F0", "7C", "E0", "F0", "12">>
      BY TupleConcat
    <2> QED
      BY <2>1, <2>2, <2>3, <2>4, <2>5, <2>6 DEF Code
  <1>6. key = "Pause" =>
         Code(key, released) = IF released THEN <<"E1", "F0", "14", "F0", "77">> ELSE <<"E1", "14", "77">>
    <2>1. <<"E1">> \o <<"14">> = <<"E1", "14">>
      BY TupleConcat
    <2>2. <<"E1", "14">> \o <<"77">> = <<"E1", "14", "77">>
      BY TupleConcat
    <2>3. <<"E1">> \o <<"F0", "14">> = <<"E1", "F0", "14">>
      BY TupleConcat
    <2>4. <<"E1", "F0", "14">> \o <<"F0", "77">> = <<"E1", "F0", "14", "F0", "77">>
      BY TupleConcat
    <2> QED
      BY <2>1, <2>2, <2>3, <2>4 DEF Code
  <1> QED
    BY <1>1, <1>2, <1>3, <1>4, <1>5, <1>6

\* The bytes read so far, one more at a time.
LEMMA BeforeStep ==
  ASSUME NEW key, NEW released, NEW p \in Nat \ {0}
  PROVE  /\ Before(key, released, 1) = {}
         /\ Before(key, released, p + 1) =
              Before(key, released, p) \cup {Code(key, released)[p]}
  BY DEF Before

\* The p-th byte b adds to what kbd_isr knows.
Adds(key, released, p, b) ==
  /\ StatesBefore(key, released, p + 1) =
       StatesBefore(key, released, p)
         \cup (IF b \in {"E0", "F0", "E1"} THEN {PrefixState(b)} ELSE {})
         \cup (IF key = "PrintScreen" /\ b \in {"12", "7C"} THEN {"DIGRAPH"} ELSE {})
  /\ PrevBefore(key, released, p + 1) =
       IF key = "Pause" /\ b = "14" THEN "14" ELSE PrevBefore(key, released, p)

\* What kbd_isr knows in front of the first byte.
LEMMA StatesFirst ==
  \A key, released : /\ StatesBefore(key, released, 1) = {}
                     /\ PrevBefore(key, released, 1) = None
  BY DEF Before, StatesBefore, PrevBefore

\* What it knows behind one more.
LEMMA StatesStep ==
  ASSUME NEW key, NEW released, NEW p \in Nat \ {0}, NEW b, b = Code(key, released)[p]
  PROVE  Adds(key, released, p, b)
  <1> PICK X : X = Before(key, released, p)
    OBVIOUS
  <1>1. Before(key, released, p + 1) = X \cup {b}
    BY BeforeStep
  <1>2. PrevBefore(key, released, p + 1) =
          IF key = "Pause" /\ b = "14" THEN "14" ELSE PrevBefore(key, released, p)
    BY <1>1 DEF PrevBefore
  <1>3. StatesBefore(key, released, p + 1) =
          StatesBefore(key, released, p)
            \cup (IF b \in {"E0", "F0", "E1"} THEN {PrefixState(b)} ELSE {})
            \cup (IF key = "PrintScreen" /\ b \in {"12", "7C"}
                    THEN {"DIGRAPH"} ELSE {})
    BY <1>1 DEF StatesBefore, PrefixState
  <1> QED
    BY <1>2, <1>3 DEF Adds

\* The bytes in front of each of the first six.
LEMMA BeforeTable ==
  ASSUME NEW key, NEW released, NEW c, Code(key, released) = c
  PROVE  /\ Before(key, released, 1) = {}
         /\ Before(key, released, 2) = {c[1]}
         /\ Before(key, released, 3) = {c[1], c[2]}
         /\ Before(key, released, 4) = {c[1], c[2], c[3]}
         /\ Before(key, released, 5) = {c[1], c[2], c[3], c[4]}
         /\ Before(key, released, 6) = {c[1], c[2], c[3], c[4], c[5]}
  <1>1. Before(key, released, 1) = {}
    <2>1. Before(key, released, 1) = {c[i] : i \in 1 .. 1 - 1}
      BY DEF Before
    <2>2. \A i : i \in 1 .. 1 - 1 <=> FALSE
      OBVIOUS
    <2> QED
      BY <2>1, <2>2
  <1>2. Before(key, released, 2) = {c[1]}
    <2>1. Before(key, released, 2) = {c[i] : i \in 1 .. 2 - 1}
      BY DEF Before
    <2>2. \A i : i \in 1 .. 2 - 1 <=> i = 1
      OBVIOUS
    <2> QED
      BY <2>1, <2>2
  <1>3. Before(key, released, 3) = {c[1], c[2]}
    <2>1. Before(key, released, 3) = {c[i] : i \in 1 .. 3 - 1}
      BY DEF Before
    <2>2. \A i : i \in 1 .. 3 - 1 <=> i = 1 \/ i = 2
      OBVIOUS
    <2> QED
      BY <2>1, <2>2
  <1>4. Before(key, released, 4) = {c[1], c[2], c[3]}
    <2>1. Before(key, released, 4) = {c[i] : i \in 1 .. 4 - 1}
      BY DEF Before
    <2>2. \A i : i \in 1 .. 4 - 1 <=> i = 1 \/ i = 2 \/ i = 3
      OBVIOUS
    <2> QED
      BY <2>1, <2>2
  <1>5. Before(key, released, 5) = {c[1], c[2], c[3], c[4]}
    <2>1. Before(key, released, 5) = {c[i] : i \in 1 .. 5 - 1}
      BY DEF Before
    <2>2. \A i : i \in 1 .. 5 - 1 <=> i = 1 \/ i = 2 \/ i = 3 \/ i = 4
      OBVIOUS
    <2> QED
      BY <2>1, <2>2
  <1>6. Before(key, released, 6) = {c[1], c[2], c[3], c[4], c[5]}
    <2>1. Before(key, released, 6) = {c[i] : i \in 1 .. 6 - 1}
      BY DEF Before
    <2>2. \A i : i \in 1 .. 6 - 1 <=> i = 1 \/ i = 2 \/ i = 3 \/ i = 4 \/ i = 5
      OBVIOUS
    <2> QED
      BY <2>1, <2>2
  <1> QED
    BY <1>1, <1>2, <1>3, <1>4, <1>5, <1>6

\* What a byte does to a parser that has read those in front of it: the last
\* makes a keystroke, of the right key and direction, and no other does.
Decides(key, released, p, n, b, S, v) ==
  LET digraph == "EXTENDED" \in S /\ b \in {"12", "7C"} /\ "DIGRAPH" \notin S
      first == "TWOBYTE" \in S /\ v = None
      last == b \notin {"E0", "F0", "E1"} /\ ~ digraph /\ ~ first
  IN  /\ last <=> p = n
      /\ digraph /\ ~ last => key = "PrintScreen"
      /\ first /\ ~ last /\ b \notin {"E0", "F0", "E1"} =>
           ~ digraph /\ key = "Pause" /\ b = "14"
      /\ key = "Pause" /\ b = "14" => first
      /\ key = "PrintScreen" /\ b \in {"12", "7C"} => digraph \/ last
      /\ last =>
           /\ (IF {"TWOBYTE", "EXTENDED"} \cap S # {}
                 THEN extended_map[b] ELSE normal_map[b]) = Meaning(key)
           /\ IF released THEN "BREAK" \in S ELSE "BREAK" \notin S
           /\ "TWOBYTE" \in S \/ v = None

\* The cases of Decides, one per key, direction and byte.
LEMMA ParserTable ==
  ASSUME NEW key \in Modelled, NEW released \in BOOLEAN,
         NEW p \in 1 .. Len(Code(key, released))
  PROVE  Decides(key, released, p, Len(Code(key, released)),
                 Code(key, released)[p], StatesBefore(key, released, p),
                 PrevBefore(key, released, p))
  <1>1. CASE key = "A" /\ ~ released
    <2>1. Code(key, released) = <<"1C">>
      BY <1>1, Codes
    <2>0. PICK c : c = <<"1C">>
      OBVIOUS
    <2>2. Len(c) = 1 /\ c[1] = "1C"
      BY <2>0
    <2>3. Before(key, released, 1) = {}
      BY <2>0, <2>1, <2>2, BeforeTable
    <2>4. CASE p = 1
      <3>1. StatesBefore(key, released, p) = {}
        BY <1>1, <2>3, <2>4 DEF StatesBefore
      <3>2. PrevBefore(key, released, p) = None
        BY <1>1, <2>3, <2>4 DEF PrevBefore
      <3>3. Code(key, released)[p] = "1C" /\ Len(Code(key, released)) = 1
        BY <2>0, <2>1, <2>2, <2>4
      <3>4. Decides(key, released, 1, 1, "1C", {}, None)
        BY <1>1 DEF Decides, None, extended_map, normal_map, Meaning, Bytes
      <3> QED
        BY <2>4, <3>1, <3>2, <3>3, <3>4
    <2>5. p \in 1 .. 1
      BY <2>0, <2>1, <2>2
    <2> QED
      BY <2>4, <2>5
  <1>2. CASE key = "A" /\ released
    <2>1. Code(key, released) = <<"F0", "1C">>
      BY <1>2, Codes
    <2>0. PICK c : c = <<"F0", "1C">>
      OBVIOUS
    <2>2. Len(c) = 2 /\ c[1] = "F0" /\ c[2] = "1C"
      BY <2>0
    <2>3. Before(key, released, 1) = {}
      BY <2>0, <2>1, <2>2, BeforeTable
    <2>4. Before(key, released, 2) = {"F0"}
      BY <2>0, <2>1, <2>2, BeforeTable
    <2>5. CASE p = 1
      <3>1. StatesBefore(key, released, p) = {}
        BY <1>2, <2>3, <2>5 DEF StatesBefore
      <3>2. PrevBefore(key, released, p) = None
        BY <1>2, <2>3, <2>5 DEF PrevBefore
      <3>3. Code(key, released)[p] = "F0" /\ Len(Code(key, released)) = 2
        BY <2>0, <2>1, <2>2, <2>5
      <3>4. Decides(key, released, 1, 2, "F0", {}, None)
        BY <1>2 DEF Decides, None, extended_map, normal_map, Meaning, Bytes
      <3> QED
        BY <2>5, <3>1, <3>2, <3>3, <3>4
    <2>6. CASE p = 2
      <3>1. StatesBefore(key, released, p) = {"BREAK"}
        BY <1>2, <2>4, <2>6 DEF StatesBefore
      <3>2. PrevBefore(key, released, p) = None
        BY <1>2, <2>4, <2>6 DEF PrevBefore
      <3>3. Code(key, released)[p] = "1C" /\ Len(Code(key, released)) = 2
        BY <2>0, <2>1, <2>2, <2>6
      <3>4. Decides(key, released, 2, 2, "1C", {"BREAK"}, None)
        BY <1>2 DEF Decides, None, extended_map, normal_map, Meaning, Bytes
      <3> QED
        BY <2>6, <3>1, <3>2, <3>3, <3>4
    <2>7. p \in 1 .. 2
      BY <2>0, <2>1, <2>2
    <2> QED
      BY <2>5, <2>6, <2>7
  <1>3. CASE key = "LShift" /\ ~ released
    <2>1. Code(key, released) = <<"12">>
      BY <1>3, Codes
    <2>0. PICK c : c = <<"12">>
      OBVIOUS
    <2>2. Len(c) = 1 /\ c[1] = "12"
      BY <2>0
    <2>3. Before(key, released, 1) = {}
      BY <2>0, <2>1, <2>2, BeforeTable
    <2>4. CASE p = 1
      <3>1. StatesBefore(key, released, p) = {}
        BY <1>3, <2>3, <2>4 DEF StatesBefore
      <3>2. PrevBefore(key, released, p) = None
        BY <1>3, <2>3, <2>4 DEF PrevBefore
      <3>3. Code(key, released)[p] = "12" /\ Len(Code(key, released)) = 1
        BY <2>0, <2>1, <2>2, <2>4
      <3>4. Decides(key, released, 1, 1, "12", {}, None)
        BY <1>3 DEF Decides, None, extended_map, normal_map, Meaning, Bytes
      <3> QED
        BY <2>4, <3>1, <3>2, <3>3, <3>4
    <2>5. p \in 1 .. 1
      BY <2>0, <2>1, <2>2
    <2> QED
      BY <2>4, <2>5
  <1>4. CASE key = "LShift" /\ released
    <2>1. Code(key, released) = <<"F0", "12">>
      BY <1>4, Codes
    <2>0. PICK c : c = <<"F0", "12">>
      OBVIOUS
    <2>2. Len(c) = 2 /\ c[1] = "F0" /\ c[2] = "12"
      BY <2>0
    <2>3. Before(key, released, 1) = {}
      BY <2>0, <2>1, <2>2, BeforeTable
    <2>4. Before(key, released, 2) = {"F0"}
      BY <2>0, <2>1, <2>2, BeforeTable
    <2>5. CASE p = 1
      <3>1. StatesBefore(key, released, p) = {}
        BY <1>4, <2>3, <2>5 DEF StatesBefore
      <3>2. PrevBefore(key, released, p) = None
        BY <1>4, <2>3, <2>5 DEF PrevBefore
      <3>3. Code(key, released)[p] = "F0" /\ Len(Code(key, released)) = 2
        BY <2>0, <2>1, <2>2, <2>5
      <3>4. Decides(key, released, 1, 2, "F0", {}, None)
        BY <1>4 DEF Decides, None, extended_map, normal_map, Meaning, Bytes
      <3> QED
        BY <2>5, <3>1, <3>2, <3>3, <3>4
    <2>6. CASE p = 2
      <3>1. StatesBefore(key, released, p) = {"BREAK"}
        BY <1>4, <2>4, <2>6 DEF StatesBefore
      <3>2. PrevBefore(key, released, p) = None
        BY <1>4, <2>4, <2>6 DEF PrevBefore
      <3>3. Code(key, released)[p] = "12" /\ Len(Code(key, released)) = 2
        BY <2>0, <2>1, <2>2, <2>6
      <3>4. Decides(key, released, 2, 2, "12", {"BREAK"}, None)
        BY <1>4 DEF Decides, None, extended_map, normal_map, Meaning, Bytes
      <3> QED
        BY <2>6, <3>1, <3>2, <3>3, <3>4
    <2>7. p \in 1 .. 2
      BY <2>0, <2>1, <2>2
    <2> QED
      BY <2>5, <2>6, <2>7
  <1>5. CASE key = "Unknown" /\ ~ released
    <2>1. Code(key, released) = <<"02">>
      BY <1>5, Codes
    <2>0. PICK c : c = <<"02">>
      OBVIOUS
    <2>2. Len(c) = 1 /\ c[1] = "02"
      BY <2>0
    <2>3. Before(key, released, 1) = {}
      BY <2>0, <2>1, <2>2, BeforeTable
    <2>4. CASE p = 1
      <3>1. StatesBefore(key, released, p) = {}
        BY <1>5, <2>3, <2>4 DEF StatesBefore
      <3>2. PrevBefore(key, released, p) = None
        BY <1>5, <2>3, <2>4 DEF PrevBefore
      <3>3. Code(key, released)[p] = "02" /\ Len(Code(key, released)) = 1
        BY <2>0, <2>1, <2>2, <2>4
      <3>4. Decides(key, released, 1, 1, "02", {}, None)
        BY <1>5 DEF Decides, None, extended_map, normal_map, Meaning, Bytes
      <3> QED
        BY <2>4, <3>1, <3>2, <3>3, <3>4
    <2>5. p \in 1 .. 1
      BY <2>0, <2>1, <2>2
    <2> QED
      BY <2>4, <2>5
  <1>6. CASE key = "Unknown" /\ released
    <2>1. Code(key, released) = <<"F0", "02">>
      BY <1>6, Codes
    <2>0. PICK c : c = <<"F0", "02">>
      OBVIOUS
    <2>2. Len(c) = 2 /\ c[1] = "F0" /\ c[2] = "02"
      BY <2>0
    <2>3. Before(key, released, 1) = {}
      BY <2>0, <2>1, <2>2, BeforeTable
    <2>4. Before(key, released, 2) = {"F0"}
      BY <2>0, <2>1, <2>2, BeforeTable
    <2>5. CASE p = 1
      <3>1. StatesBefore(key, released, p) = {}
        BY <1>6, <2>3, <2>5 DEF StatesBefore
      <3>2. PrevBefore(key, released, p) = None
        BY <1>6, <2>3, <2>5 DEF PrevBefore
      <3>3. Code(key, released)[p] = "F0" /\ Len(Code(key, released)) = 2
        BY <2>0, <2>1, <2>2, <2>5
      <3>4. Decides(key, released, 1, 2, "F0", {}, None)
        BY <1>6 DEF Decides, None, extended_map, normal_map, Meaning, Bytes
      <3> QED
        BY <2>5, <3>1, <3>2, <3>3, <3>4
    <2>6. CASE p = 2
      <3>1. StatesBefore(key, released, p) = {"BREAK"}
        BY <1>6, <2>4, <2>6 DEF StatesBefore
      <3>2. PrevBefore(key, released, p) = None
        BY <1>6, <2>4, <2>6 DEF PrevBefore
      <3>3. Code(key, released)[p] = "02" /\ Len(Code(key, released)) = 2
        BY <2>0, <2>1, <2>2, <2>6
      <3>4. Decides(key, released, 2, 2, "02", {"BREAK"}, None)
        BY <1>6 DEF Decides, None, extended_map, normal_map, Meaning, Bytes
      <3> QED
        BY <2>6, <3>1, <3>2, <3>3, <3>4
    <2>7. p \in 1 .. 2
      BY <2>0, <2>1, <2>2
    <2> QED
      BY <2>5, <2>6, <2>7
  <1>7. CASE key = "Home" /\ ~ released
    <2>1. Code(key, released) = <<"E0", "6C">>
      BY <1>7, Codes
    <2>0. PICK c : c = <<"E0", "6C">>
      OBVIOUS
    <2>2. Len(c) = 2 /\ c[1] = "E0" /\ c[2] = "6C"
      BY <2>0
    <2>3. Before(key, released, 1) = {}
      BY <2>0, <2>1, <2>2, BeforeTable
    <2>4. Before(key, released, 2) = {"E0"}
      BY <2>0, <2>1, <2>2, BeforeTable
    <2>5. CASE p = 1
      <3>1. StatesBefore(key, released, p) = {}
        BY <1>7, <2>3, <2>5 DEF StatesBefore
      <3>2. PrevBefore(key, released, p) = None
        BY <1>7, <2>3, <2>5 DEF PrevBefore
      <3>3. Code(key, released)[p] = "E0" /\ Len(Code(key, released)) = 2
        BY <2>0, <2>1, <2>2, <2>5
      <3>4. Decides(key, released, 1, 2, "E0", {}, None)
        BY <1>7 DEF Decides, None, extended_map, normal_map, Meaning, Bytes
      <3> QED
        BY <2>5, <3>1, <3>2, <3>3, <3>4
    <2>6. CASE p = 2
      <3>1. StatesBefore(key, released, p) = {"EXTENDED"}
        BY <1>7, <2>4, <2>6 DEF StatesBefore
      <3>2. PrevBefore(key, released, p) = None
        BY <1>7, <2>4, <2>6 DEF PrevBefore
      <3>3. Code(key, released)[p] = "6C" /\ Len(Code(key, released)) = 2
        BY <2>0, <2>1, <2>2, <2>6
      <3>4. Decides(key, released, 2, 2, "6C", {"EXTENDED"}, None)
        BY <1>7 DEF Decides, None, extended_map, normal_map, Meaning, Bytes
      <3> QED
        BY <2>6, <3>1, <3>2, <3>3, <3>4
    <2>7. p \in 1 .. 2
      BY <2>0, <2>1, <2>2
    <2> QED
      BY <2>5, <2>6, <2>7
  <1>8. CASE key = "Home" /\ released
    <2>1. Code(key, released) = <<"E0", "F0", "6C">>
      BY <1>8, Codes
    <2>0. PICK c : c = <<"E0", "F0", "6C">>
      OBVIOUS
    <2>2. Len(c) = 3 /\ c[1] = "E0" /\ c[2] = "F0" /\ c[3] = "6C"
      BY <2>0
    <2>3. Before(key, released, 1) = {}
      BY <2>0, <2>1, <2>2, BeforeTable
    <2>4. Before(key, released, 2) = {"E0"}
      BY <2>0, <2>1, <2>2, BeforeTable
    <2>5. Before(key, released, 3) = {"E0", "F0"}
      BY <2>0, <2>1, <2>2, BeforeTable
    <2>6. CASE p = 1
      <3>1. StatesBefore(key, released, p) = {}
        BY <1>8, <2>3, <2>6 DEF StatesBefore
      <3>2. PrevBefore(key, released, p) = None
        BY <1>8, <2>3, <2>6 DEF PrevBefore
      <3>3. Code(key, released)[p] = "E0" /\ Len(Code(key, released)) = 3
        BY <2>0, <2>1, <2>2, <2>6
      <3>4. Decides(key, released, 1, 3, "E0", {}, None)
        BY <1>8 DEF Decides, None, extended_map, normal_map, Meaning, Bytes
      <3> QED
        BY <2>6, <3>1, <3>2, <3>3, <3>4
    <2>7. CASE p = 2
      <3>1. StatesBefore(key, released, p) = {"EXTENDED"}
        BY <1>8, <2>4, <2>7 DEF StatesBefore
      <3>2. PrevBefore(key, released, p) = None
        BY <1>8, <2>4, <2>7 DEF PrevBefore
      <3>3. Code(key, released)[p] = "F0" /\ Len(Code(key, released)) = 3
        BY <2>0, <2>1, <2>2, <2>7
      <3>4. Decides(key, released, 2, 3, "F0", {"EXTENDED"}, None)
        BY <1>8 DEF Decides, None, extended_map, normal_map, Meaning, Bytes
      <3> QED
        BY <2>7, <3>1, <3>2, <3>3, <3>4
    <2>8. CASE p = 3
      <3>1. StatesBefore(key, released, p) = {"BREAK", "EXTENDED"}
        BY <1>8, <2>5, <2>8 DEF StatesBefore
      <3>2. PrevBefore(key, released, p) = None
        BY <1>8, <2>5, <2>8 DEF PrevBefore
      <3>3. Code(key, released)[p] = "6C" /\ Len(Code(key, released)) = 3
        BY <2>0, <2>1, <2>2, <2>8
      <3>4. Decides(key, released, 3, 3, "6C", {"BREAK", "EXTENDED"}, None)
        BY <1>8 DEF Decides, None, extended_map, normal_map, Meaning, Bytes
      <3> QED
        BY <2>8, <3>1, <3>2, <3>3, <3>4
    <2>9. p \in 1 .. 3
      BY <2>0, <2>1, <2>2
    <2> QED
      BY <2>6, <2>7, <2>8, <2>9
  <1>9. CASE key = "PrintScreen" /\ ~ released
    <2>1. Code(key, released) = <<"E0", "12", "E0", "7C">>
      BY <1>9, Codes
    <2>0. PICK c : c = <<"E0", "12", "E0", "7C">>
      OBVIOUS
    <2>2. Len(c) = 4 /\ c[1] = "E0" /\ c[2] = "12" /\ c[3] = "E0" /\ c[4] = "7C"
      BY <2>0
    <2>3. Before(key, released, 1) = {}
      BY <2>0, <2>1, <2>2, BeforeTable
    <2>4. Before(key, released, 2) = {"E0"}
      BY <2>0, <2>1, <2>2, BeforeTable
    <2>5. Before(key, released, 3) = {"12", "E0"}
      BY <2>0, <2>1, <2>2, BeforeTable
    <2>6. Before(key, released, 4) = {"12", "E0"}
      BY <2>0, <2>1, <2>2, BeforeTable
    <2>7. CASE p = 1
      <3>1. StatesBefore(key, released, p) = {}
        BY <1>9, <2>3, <2>7 DEF StatesBefore
      <3>2. PrevBefore(key, released, p) = None
        BY <1>9, <2>3, <2>7 DEF PrevBefore
      <3>3. Code(key, released)[p] = "E0" /\ Len(Code(key, released)) = 4
        BY <2>0, <2>1, <2>2, <2>7
      <3>4. Decides(key, released, 1, 4, "E0", {}, None)
        BY <1>9 DEF Decides, None, extended_map, normal_map, Meaning, Bytes
      <3> QED
        BY <2>7, <3>1, <3>2, <3>3, <3>4
    <2>8. CASE p = 2
      <3>1. StatesBefore(key, released, p) = {"EXTENDED"}
        BY <1>9, <2>4, <2>8 DEF StatesBefore
      <3>2. PrevBefore(key, released, p) = None
        BY <1>9, <2>4, <2>8 DEF PrevBefore
      <3>3. Code(key, released)[p] = "12" /\ Len(Code(key, released)) = 4
        BY <2>0, <2>1, <2>2, <2>8
      <3>4. Decides(key, released, 2, 4, "12", {"EXTENDED"}, None)
        BY <1>9 DEF Decides, None, extended_map, normal_map, Meaning, Bytes
      <3> QED
        BY <2>8, <3>1, <3>2, <3>3, <3>4
    <2>9. CASE p = 3
      <3>1. StatesBefore(key, released, p) = {"DIGRAPH", "EXTENDED"}
        BY <1>9, <2>5, <2>9 DEF StatesBefore
      <3>2. PrevBefore(key, released, p) = None
        BY <1>9, <2>5, <2>9 DEF PrevBefore
      <3>3. Code(key, released)[p] = "E0" /\ Len(Code(key, released)) = 4
        BY <2>0, <2>1, <2>2, <2>9
      <3>4. Decides(key, released, 3, 4, "E0", {"DIGRAPH", "EXTENDED"}, None)
        BY <1>9 DEF Decides, None, extended_map, normal_map, Meaning, Bytes
      <3> QED
        BY <2>9, <3>1, <3>2, <3>3, <3>4
    <2>10. CASE p = 4
      <3>1. StatesBefore(key, released, p) = {"DIGRAPH", "EXTENDED"}
        BY <1>9, <2>6, <2>10 DEF StatesBefore
      <3>2. PrevBefore(key, released, p) = None
        BY <1>9, <2>6, <2>10 DEF PrevBefore
      <3>3. Code(key, released)[p] = "7C" /\ Len(Code(key, released)) = 4
        BY <2>0, <2>1, <2>2, <2>10
      <3>4. Decides(key, released, 4, 4, "7C", {"DIGRAPH", "EXTENDED"}, None)
        BY <1>9 DEF Decides, None, extended_map, normal_map, Meaning, Bytes
      <3> QED
        BY <2>10, <3>1, <3>2, <3>3, <3>4
    <2>11. p \in 1 .. 4
      BY <2>0, <2>1, <2>2
    <2> QED
      BY <2>7, <2>8, <2>9, <2>10, <2>11
  <1>10. CASE key = "PrintScreen" /\ released
    <2>1. Code(key, released) = <<"E0", "F0", "7C", "E0", "F0", "12">>
      BY <1>10, Codes
    <2>0. PICK c : c = <<"E0", "F0", "7C", "E0", "F0", "12">>
      OBVIOUS
    <2>2. Len(c) = 6 /\ c[1] = "E0" /\ c[2] = "F0" /\ c[3] = "7C" /\ c[4] = "E0" /\ c[5] = "F0" /\ c[6] = "12"
      BY <2>0
    <2>3. Before(key, released, 1) = {}
      BY <2>0, <2>1, <2>2, BeforeTable
    <2>4. Before(key, released, 2) = {"E0"}
      BY <2>0, <2>1, <2>2, BeforeTable
    <2>5. Before(key, released, 3) = {"E0", "F0"}
      BY <2>0, <2>1, <2>2, BeforeTable
    <2>6. Before(key, released, 4) = {"7C", "E0", "F0"}
      BY <2>0, <2>1, <2>2, BeforeTable
    <2>7. Before(key, released, 5) = {"7C", "E0", "F0"}
      BY <2>0, <2>1, <2>2, BeforeTable
    <2>8. Before(key, released, 6) = {"7C", "E0", "F0"}
      BY <2>0, <2>1, <2>2, BeforeTable
    <2>9. CASE p = 1
      <3>1. StatesBefore(key, released, p) = {}
        BY <1>10, <2>3, <2>9 DEF StatesBefore
      <3>2. PrevBefore(key, released, p) = None
        BY <1>10, <2>3, <2>9 DEF PrevBefore
      <3>3. Code(key, released)[p] = "E0" /\ Len(Code(key, released)) = 6
        BY <2>0, <2>1, <2>2, <2>9
      <3>4. Decides(key, released, 1, 6, "E0", {}, None)
        BY <1>10 DEF Decides, None, extended_map, normal_map, Meaning, Bytes
      <3> QED
        BY <2>9, <3>1, <3>2, <3>3, <3>4
    <2>10. CASE p = 2
      <3>1. StatesBefore(key, released, p) = {"EXTENDED"}
        BY <1>10, <2>4, <2>10 DEF StatesBefore
      <3>2. PrevBefore(key, released, p) = None
        BY <1>10, <2>4, <2>10 DEF PrevBefore
      <3>3. Code(key, released)[p] = "F0" /\ Len(Code(key, released)) = 6
        BY <2>0, <2>1, <2>2, <2>10
      <3>4. Decides(key, released, 2, 6, "F0", {"EXTENDED"}, None)
        BY <1>10 DEF Decides, None, extended_map, normal_map, Meaning, Bytes
      <3> QED
        BY <2>10, <3>1, <3>2, <3>3, <3>4
    <2>11. CASE p = 3
      <3>1. StatesBefore(key, released, p) = {"BREAK", "EXTENDED"}
        BY <1>10, <2>5, <2>11 DEF StatesBefore
      <3>2. PrevBefore(key, released, p) = None
        BY <1>10, <2>5, <2>11 DEF PrevBefore
      <3>3. Code(key, released)[p] = "7C" /\ Len(Code(key, released)) = 6
        BY <2>0, <2>1, <2>2, <2>11
      <3>4. Decides(key, released, 3, 6, "7C", {"BREAK", "EXTENDED"}, None)
        BY <1>10 DEF Decides, None, extended_map, normal_map, Meaning, Bytes
      <3> QED
        BY <2>11, <3>1, <3>2, <3>3, <3>4
    <2>12. CASE p = 4
      <3>1. StatesBefore(key, released, p) = {"BREAK", "DIGRAPH", "EXTENDED"}
        BY <1>10, <2>6, <2>12 DEF StatesBefore
      <3>2. PrevBefore(key, released, p) = None
        BY <1>10, <2>6, <2>12 DEF PrevBefore
      <3>3. Code(key, released)[p] = "E0" /\ Len(Code(key, released)) = 6
        BY <2>0, <2>1, <2>2, <2>12
      <3>4. Decides(key, released, 4, 6, "E0", {"BREAK", "DIGRAPH", "EXTENDED"}, None)
        BY <1>10 DEF Decides, None, extended_map, normal_map, Meaning, Bytes
      <3> QED
        BY <2>12, <3>1, <3>2, <3>3, <3>4
    <2>13. CASE p = 5
      <3>1. StatesBefore(key, released, p) = {"BREAK", "DIGRAPH", "EXTENDED"}
        BY <1>10, <2>7, <2>13 DEF StatesBefore
      <3>2. PrevBefore(key, released, p) = None
        BY <1>10, <2>7, <2>13 DEF PrevBefore
      <3>3. Code(key, released)[p] = "F0" /\ Len(Code(key, released)) = 6
        BY <2>0, <2>1, <2>2, <2>13
      <3>4. Decides(key, released, 5, 6, "F0", {"BREAK", "DIGRAPH", "EXTENDED"}, None)
        BY <1>10 DEF Decides, None, extended_map, normal_map, Meaning, Bytes
      <3> QED
        BY <2>13, <3>1, <3>2, <3>3, <3>4
    <2>14. CASE p = 6
      <3>1. StatesBefore(key, released, p) = {"BREAK", "DIGRAPH", "EXTENDED"}
        BY <1>10, <2>8, <2>14 DEF StatesBefore
      <3>2. PrevBefore(key, released, p) = None
        BY <1>10, <2>8, <2>14 DEF PrevBefore
      <3>3. Code(key, released)[p] = "12" /\ Len(Code(key, released)) = 6
        BY <2>0, <2>1, <2>2, <2>14
      <3>4. Decides(key, released, 6, 6, "12", {"BREAK", "DIGRAPH", "EXTENDED"}, None)
        BY <1>10 DEF Decides, None, extended_map, normal_map, Meaning, Bytes
      <3> QED
        BY <2>14, <3>1, <3>2, <3>3, <3>4
    <2>15. p \in 1 .. 6
      BY <2>0, <2>1, <2>2
    <2> QED
      BY <2>9, <2>10, <2>11, <2>12, <2>13, <2>14, <2>15
  <1>11. CASE key = "Pause" /\ ~ released
    <2>1. Code(key, released) = <<"E1", "14", "77">>
      BY <1>11, Codes
    <2>0. PICK c : c = <<"E1", "14", "77">>
      OBVIOUS
    <2>2. Len(c) = 3 /\ c[1] = "E1" /\ c[2] = "14" /\ c[3] = "77"
      BY <2>0
    <2>3. Before(key, released, 1) = {}
      BY <2>0, <2>1, <2>2, BeforeTable
    <2>4. Before(key, released, 2) = {"E1"}
      BY <2>0, <2>1, <2>2, BeforeTable
    <2>5. Before(key, released, 3) = {"14", "E1"}
      BY <2>0, <2>1, <2>2, BeforeTable
    <2>6. CASE p = 1
      <3>1. StatesBefore(key, released, p) = {}
        BY <1>11, <2>3, <2>6 DEF StatesBefore
      <3>2. PrevBefore(key, released, p) = None
        BY <1>11, <2>3, <2>6 DEF PrevBefore
      <3>3. Code(key, released)[p] = "E1" /\ Len(Code(key, released)) = 3
        BY <2>0, <2>1, <2>2, <2>6
      <3>4. Decides(key, released, 1, 3, "E1", {}, None)
        BY <1>11 DEF Decides, None, extended_map, normal_map, Meaning, Bytes
      <3> QED
        BY <2>6, <3>1, <3>2, <3>3, <3>4
    <2>7. CASE p = 2
      <3>1. StatesBefore(key, released, p) = {"TWOBYTE"}
        BY <1>11, <2>4, <2>7 DEF StatesBefore
      <3>2. PrevBefore(key, released, p) = None
        BY <1>11, <2>4, <2>7 DEF PrevBefore
      <3>3. Code(key, released)[p] = "14" /\ Len(Code(key, released)) = 3
        BY <2>0, <2>1, <2>2, <2>7
      <3>4. Decides(key, released, 2, 3, "14", {"TWOBYTE"}, None)
        BY <1>11 DEF Decides, None, extended_map, normal_map, Meaning, Bytes
      <3> QED
        BY <2>7, <3>1, <3>2, <3>3, <3>4
    <2>8. CASE p = 3
      <3>1. StatesBefore(key, released, p) = {"TWOBYTE"}
        BY <1>11, <2>5, <2>8 DEF StatesBefore
      <3>2. PrevBefore(key, released, p) = "14"
        BY <1>11, <2>5, <2>8 DEF PrevBefore
      <3>3. Code(key, released)[p] = "77" /\ Len(Code(key, released)) = 3
        BY <2>0, <2>1, <2>2, <2>8
      <3>4. Decides(key, released, 3, 3, "77", {"TWOBYTE"}, "14")
        BY <1>11 DEF Decides, None, extended_map, normal_map, Meaning, Bytes
      <3> QED
        BY <2>8, <3>1, <3>2, <3>3, <3>4
    <2>9. p \in 1 .. 3
      BY <2>0, <2>1, <2>2
    <2> QED
      BY <2>6, <2>7, <2>8, <2>9
  <1>12. CASE key = "Pause" /\ released
    <2>1. Code(key, released) = <<"E1", "F0", "14", "F0", "77">>
      BY <1>12, Codes
    <2>0. PICK c : c = <<"E1", "F0", "14", "F0", "77">>
      OBVIOUS
    <2>2. Len(c) = 5 /\ c[1] = "E1" /\ c[2] = "F0" /\ c[3] = "14" /\ c[4] = "F0" /\ c[5] = "77"
      BY <2>0
    <2>3. Before(key, released, 1) = {}
      BY <2>0, <2>1, <2>2, BeforeTable
    <2>4. Before(key, released, 2) = {"E1"}
      BY <2>0, <2>1, <2>2, BeforeTable
    <2>5. Before(key, released, 3) = {"E1", "F0"}
      BY <2>0, <2>1, <2>2, BeforeTable
    <2>6. Before(key, released, 4) = {"14", "E1", "F0"}
      BY <2>0, <2>1, <2>2, BeforeTable
    <2>7. Before(key, released, 5) = {"14", "E1", "F0"}
      BY <2>0, <2>1, <2>2, BeforeTable
    <2>8. CASE p = 1
      <3>1. StatesBefore(key, released, p) = {}
        BY <1>12, <2>3, <2>8 DEF StatesBefore
      <3>2. PrevBefore(key, released, p) = None
        BY <1>12, <2>3, <2>8 DEF PrevBefore
      <3>3. Code(key, released)[p] = "E1" /\ Len(Code(key, released)) = 5
        BY <2>0, <2>1, <2>2, <2>8
      <3>4. Decides(key, released, 1, 5, "E1", {}, None)
        BY <1>12 DEF Decides, None, extended_map, normal_map, Meaning, Bytes
      <3> QED
        BY <2>8, <3>1, <3>2, <3>3, <3>4
    <2>9. CASE p = 2
      <3>1. StatesBefore(key, released, p) = {"TWOBYTE"}
        BY <1>12, <2>4, <2>9 DEF StatesBefore
      <3>2. PrevBefore(key, released, p) = None
        BY <1>12, <2>4, <2>9 DEF PrevBefore
      <3>3. Code(key, released)[p] = "F0" /\ Len(Code(key, released)) = 5
        BY <2>0, <2>1, <2>2, <2>9
      <3>4. Decides(key, released, 2, 5, "F0", {"TWOBYTE"}, None)
        BY <1>12 DEF Decides, None, extended_map, normal_map, Meaning, Bytes
      <3> QED
        BY <2>9, <3>1, <3>2, <3>3, <3>4
    <2>10. CASE p = 3
      <3>1. StatesBefore(key, released, p) = {"BREAK", "TWOBYTE"}
        BY <1>12, <2>5, <2>10 DEF StatesBefore
      <3>2. PrevBefore(key, released, p) = None
        BY <1>12, <2>5, <2>10 DEF PrevBefore
      <3>3. Code(key, released)[p] = "14" /\ Len(Code(key, released)) = 5
        BY <2>0, <2>1, <2>2, <2>10
      <3>4. Decides(key, released, 3, 5, "14", {"BREAK", "TWOBYTE"}, None)
        BY <1>12 DEF Decides, None, extended_map, normal_map, Meaning, Bytes
      <3> QED
        BY <2>10, <3>1, <3>2, <3>3, <3>4
    <2>11. CASE p = 4
      <3>1. StatesBefore(key, released, p) = {"BREAK", "TWOBYTE"}
        BY <1>12, <2>6, <2>11 DEF StatesBefore
      <3>2. PrevBefore(key, released, p) = "14"
        BY <1>12, <2>6, <2>11 DEF PrevBefore
      <3>3. Code(key, released)[p] = "F0" /\ Len(Code(key, released)) = 5
        BY <2>0, <2>1, <2>2, <2>11
      <3>4. Decides(key, released, 4, 5, "F0", {"BREAK", "TWOBYTE"}, "14")
        BY <1>12 DEF Decides, None, extended_map, normal_map, Meaning, Bytes
      <3> QED
        BY <2>11, <3>1, <3>2, <3>3, <3>4
    <2>12. CASE p = 5
      <3>1. StatesBefore(key, released, p) = {"BREAK", "TWOBYTE"}
        BY <1>12, <2>7, <2>12 DEF StatesBefore
      <3>2. PrevBefore(key, released, p) = "14"
        BY <1>12, <2>7, <2>12 DEF PrevBefore
      <3>3. Code(key, released)[p] = "77" /\ Len(Code(key, released)) = 5
        BY <2>0, <2>1, <2>2, <2>12
      <3>4. Decides(key, released, 5, 5, "77", {"BREAK", "TWOBYTE"}, "14")
        BY <1>12 DEF Decides, None, extended_map, normal_map, Meaning, Bytes
      <3> QED
        BY <2>12, <3>1, <3>2, <3>3, <3>4
    <2>13. p \in 1 .. 5
      BY <2>0, <2>1, <2>2
    <2> QED
      BY <2>8, <2>9, <2>10, <2>11, <2>12, <2>13
  <1> QED
    BY <1>1, <1>2, <1>3, <1>4, <1>5, <1>6, <1>7, <1>8, <1>9, <1>10, <1>11, <1>12 DEF Modelled
----------------------------------------------------------------------------
(* What kbd_isr has read and what it has stored *)

Presses == [key : Keys, released : BOOLEAN]
Items == [b : Bytes, n : Nat]

KeyTypes ==
  /\ typed \in Seq(Presses) /\ scan \in Seq(Items)
  /\ seen \in Seq(Nat) /\ skipped \in Nat

CodeOf(n) == Code(typed[n].key, typed[n].released)

\* The bytes on their way are those of the last presses, code after code; pos is
\* the place of each in its code.
ScanIs(pos) ==
  \A i \in 1 .. Len(scan) :
    /\ scan[i].n \in 1 .. Len(typed)
    /\ pos[i] \in 1 .. Len(CodeOf(scan[i].n))
    /\ scan[i].b = CodeOf(scan[i].n)[pos[i]]
    /\ IF i = Len(scan)
         THEN scan[i].n = Len(typed) /\ pos[i] = Len(CodeOf(scan[i].n))
         ELSE IF pos[i] = Len(CodeOf(scan[i].n))
           THEN scan[i + 1].n = scan[i].n + 1 /\ pos[i + 1] = 1
           ELSE scan[i + 1].n = scan[i].n /\ pos[i + 1] = pos[i] + 1

\* The press, and the byte of its code, that kbd_isr reads next.
NextPress == IF scan = <<>> THEN Len(typed) + 1 ELSE scan[1].n
NextPos(pos) == IF scan = <<>> THEN 1 ELSE pos[1]

\* No byte of press n is read yet when p is 1, nor any of a later one.
SeenIs(n, p) ==
  /\ \A i \in 1 .. Len(seen) : seen[i] \in 1 .. n
  /\ p = 1 => \A i \in 1 .. Len(seen) : seen[i] # n
  /\ skipped \in 0 .. n /\ (p = 1 => skipped # n)
  /\ ~ active => seen = <<>> /\ events = <<>> /\ ~ torn

\* The parser is inside the code of press n.
Midway(n, p) == p > 1 /\ skipped # n

ParserIs(n, p) ==
  IF Midway(n, p)
    THEN /\ Len(events) + 1 = Len(seen) /\ seen[Len(seen)] = n
         /\ current_state = StatesBefore(typed[n].key, typed[n].released, p)
         /\ prev = PrevBefore(typed[n].key, typed[n].released, p)
    ELSE /\ Len(events) = Len(seen)
         /\ \A i \in 1 .. Len(seen) : seen[i] # n
         /\ current_state = {} /\ prev = None

\* The keystrokes are those of the first presses of h.
EventsMatch(h) ==
  /\ Len(events) <= Len(h)
  /\ \A i \in 1 .. Len(events) :
       /\ events[i].code = Meaning(h[i].key)
       /\ ("Released" \in events[i].flags) = h[i].released
       /\ ("Shift" \in events[i].flags) = ("LShift" \in HeldAfter(SubSeq(h, 1, i)))
  /\ ("LShift" \in keystates) = ("LShift" \in HeldAfter(SubSeq(h, 1, Len(events))))

KeysAre(n, p) ==
  SeenIs(n, p) /\ (~ torn => ParserIs(n, p) /\ EventsMatch(Heard))

KeysInv ==
  /\ KeyTypes
  /\ \E pos \in [1 .. Len(scan) -> Nat] :
       ScanIs(pos) /\ KeysAre(NextPress, NextPos(pos))

\* The first presses of two sequences that agree on them.
LEMMA SubSeqSame ==
  ASSUME NEW T, NEW h \in Seq(T), NEW g \in Seq(T), NEW n \in Nat,
         n <= Len(h), n <= Len(g), \A i \in 1 .. n : h[i] = g[i]
  PROVE  SubSeq(h, 1, n) = SubSeq(g, 1, n)
  <1> DEFINE m == n + 1
  <1>1. m \in 1 .. Len(h) + 1 /\ m \in 1 .. Len(g) + 1 /\ m - 1 = n
    BY LenProperties
  <1> HIDE DEF m
  <1>2. /\ SubSeq(h, 1, m - 1) \in Seq(T) /\ Len(SubSeq(h, 1, m - 1)) = m - 1
        /\ \A k \in 1 .. m - 1 : SubSeq(h, 1, m - 1)[k] = h[k]
    BY <1>1, FrontLemma
  <1>3. /\ SubSeq(g, 1, m - 1) \in Seq(T) /\ Len(SubSeq(g, 1, m - 1)) = m - 1
        /\ \A k \in 1 .. m - 1 : SubSeq(g, 1, m - 1)[k] = g[k]
    BY <1>1, FrontLemma
  <1> PICK a : a = SubSeq(h, 1, n)
    OBVIOUS
  <1> PICK b : b = SubSeq(g, 1, n)
    OBVIOUS
  <1>4. a \in Seq(T) /\ Len(a) = n /\ (\A k \in 1 .. n : a[k] = h[k])
    BY <1>1, <1>2
  <1>5. b \in Seq(T) /\ Len(b) = n /\ (\A k \in 1 .. n : b[k] = g[k])
    BY <1>1, <1>3
  <1>6. \A k \in 1 .. Len(a) : a[k] = b[k]
    BY <1>4, <1>5
  <1>7. a = b
    BY <1>4, <1>5, <1>6, SeqEqual
  <1> QED
    BY <1>7

\* Shift is down after the first n presses of h.
ShiftDown(h, n) ==
  \E i \in 1 .. n : /\ ~ h[i].released /\ h[i].key = "LShift"
                    /\ \A j \in i + 1 .. n : h[j].key # "LShift"

\* HeldAfter says the same of any sequence that begins with these presses.
LEMMA HeldIs ==
  ASSUME NEW h, NEW n \in Nat, NEW a, Len(a) = n, \A k \in 1 .. n : a[k] = h[k]
  PROVE  ("LShift" \in HeldAfter(a)) <=> ShiftDown(h, n)
  <1>1. ("LShift" \in HeldAfter(a)) <=>
          \E i \in 1 .. n :
            /\ ~ a[i].released /\ a[i].key = "LShift"
            /\ \A j \in i + 1 .. n : a[j].key # "LShift"
    BY DEF HeldAfter
  <1>2. ASSUME NEW i \in 1 .. n
        PROVE  /\ a[i] = h[i]
               /\ (\A j \in i + 1 .. n : a[j].key # "LShift") <=>
                    (\A j \in i + 1 .. n : h[j].key # "LShift")
    <2>1. \A j \in i + 1 .. n : a[j] = h[j]
      OBVIOUS
    <2> QED
      BY <2>1
  <1> QED
    BY <1>1, <1>2 DEF ShiftDown

\* The last of some presses decides about its own key and no other.
LEMMA HeldStep ==
  ASSUME NEW h \in Seq(Presses), NEW n \in 1 .. Len(h)
  PROVE  ("LShift" \in HeldAfter(SubSeq(h, 1, n))) <=>
           IF h[n].key = "LShift" THEN ~ h[n].released
             ELSE "LShift" \in HeldAfter(SubSeq(h, 1, n - 1))
  <1> PICK a : a = SubSeq(h, 1, n)
    OBVIOUS
  <1> PICK c : c = SubSeq(h, 1, n - 1)
    OBVIOUS
  <1>0. Len(h) \in Nat /\ n \in Nat
    BY LenProperties
  <1> DEFINE m == n + 1
  <1>1. m \in 1 .. Len(h) + 1 /\ m - 1 = n
    BY <1>0
  <1> HIDE DEF m
  <1>2. Len(SubSeq(h, 1, m - 1)) = m - 1
        /\ \A k \in 1 .. m - 1 : SubSeq(h, 1, m - 1)[k] = h[k]
    BY <1>1, FrontLemma
  <1>3. Len(a) = n /\ (\A k \in 1 .. n : a[k] = h[k])
    BY <1>1, <1>2
  <1>4. n \in 1 .. Len(h) + 1
    BY <1>0
  <1>5. Len(c) = n - 1 /\ (\A k \in 1 .. n - 1 : c[k] = h[k])
    BY <1>4, FrontLemma
  <1>6. n - 1 \in Nat
    BY <1>0
  <1> PICK l : l = n - 1
    OBVIOUS
  <1>7. ("LShift" \in HeldAfter(a)) <=> ShiftDown(h, n)
    BY <1>0, <1>3, HeldIs
  <1>8. ("LShift" \in HeldAfter(c)) <=> ShiftDown(h, n - 1)
    <2>1. l \in Nat /\ Len(c) = l /\ \A k \in 1 .. l : c[k] = h[k]
      BY <1>5, <1>6
    <2>2. ("LShift" \in HeldAfter(c)) <=> ShiftDown(h, l)
      BY <2>1, HeldIs
    <2> QED
      BY <2>2
  <1>9. CASE h[n].key = "LShift"
    <2>1. \A i \in 1 .. n : (\A j \in i + 1 .. n : h[j].key # "LShift") => i = n
      BY <1>0, <1>9
    <2>2. ~ h[n].released => \A j \in n + 1 .. n : h[j].key # "LShift"
      BY <1>0
    <2> QED
      BY <1>0, <1>7, <1>9, <2>1, <2>2 DEF ShiftDown
  <1>10. CASE h[n].key # "LShift"
    <2>1. \A i \in 1 .. n - 1 :
            (\A j \in i + 1 .. n : h[j].key # "LShift") <=>
              (\A j \in i + 1 .. n - 1 : h[j].key # "LShift")
      BY <1>0, <1>10
    <2>2. \A i \in 1 .. n : h[i].key = "LShift" => i \in 1 .. n - 1
      BY <1>0, <1>10
    <2>3. \A i \in 1 .. n - 1 : i \in 1 .. n
      BY <1>0
    <2> QED
      BY <1>7, <1>8, <1>10, <2>1, <2>2, <2>3 DEF ShiftDown
  <1> QED
    BY <1>9, <1>10

\* The keystrokes stay those of the first presses when further presses follow.
LEMMA MatchMore ==
  ASSUME NEW h \in Seq(Presses), NEW g \in Seq(Presses), TypeOK, EventsMatch(h),
         Len(h) <= Len(g), \A i \in 1 .. Len(h) : g[i] = h[i]
  PROVE  EventsMatch(g)
  <1>1. Len(events) \in Nat /\ Len(h) \in Nat /\ Len(g) \in Nat
    BY LenProperties DEF TypeOK
  <1>2. ASSUME NEW i \in 0 .. Len(events)
        PROVE  SubSeq(h, 1, i) = SubSeq(g, 1, i)
    <2>1. /\ i \in Nat /\ i <= Len(h) /\ i <= Len(g)
          /\ \A k \in 1 .. i : h[k] = g[k]
      BY <1>1 DEF EventsMatch
    <2> QED
      BY <2>1, SubSeqSame
  <1>3. Len(events) \in 0 .. Len(events)
        /\ \A i \in 1 .. Len(events) : i \in 0 .. Len(events) /\ g[i] = h[i]
    BY <1>1 DEF EventsMatch
  <1>4. ASSUME NEW i \in 1 .. Len(events)
        PROVE  /\ events[i].code = Meaning(g[i].key)
               /\ ("Released" \in events[i].flags) = g[i].released
               /\ ("Shift" \in events[i].flags) =
                    ("LShift" \in HeldAfter(SubSeq(g, 1, i)))
    <2>1. g[i] = h[i] /\ SubSeq(h, 1, i) = SubSeq(g, 1, i)
      BY <1>2, <1>3
    <2> QED
      BY <2>1 DEF EventsMatch
  <1>5. SubSeq(h, 1, Len(events)) = SubSeq(g, 1, Len(events))
    BY <1>2, <1>3
  <1>6. ("LShift" \in keystates) = ("LShift" \in HeldAfter(SubSeq(g, 1, Len(events))))
    BY <1>5 DEF EventsMatch
  <1>7. Len(events) <= Len(g)
    BY <1>1 DEF EventsMatch
  <1> QED
    BY <1>4, <1>6, <1>7 DEF EventsMatch

\* One further keystroke, of the next press.
LEMMA MatchNext ==
  ASSUME NEW h \in Seq(Presses), TypeOK, EventsMatch(h), Len(events) < Len(h),
         NEW k, k = h[Len(events) + 1],
         NEW e \in Keystrokes, events' = Append(events, e),
         e.code = Meaning(k.key),
         ("Released" \in e.flags) <=> k.released,
         ("Shift" \in e.flags) <=> ("LShift" \in keystates'),
         ("LShift" \in keystates') <=>
           IF k.key = "LShift" THEN ~ k.released ELSE "LShift" \in keystates
  PROVE  EventsMatch(h)'
  <1> PICK n : n = Len(events)
    OBVIOUS
  <1> PICK m : m = n + 1
    OBVIOUS
  <1>1. n \in Nat /\ m \in Nat /\ Len(h) \in Nat /\ m \in 1 .. Len(h) /\ m - 1 = n
    BY LenProperties DEF TypeOK
  <1>2. Len(events') = m /\ events'[m] = e
        /\ \A i \in 1 .. n : events'[i] = events[i]
    BY <1>1, AppendProperties DEF TypeOK
  <1>3. k = h[m] /\ k \in Presses
    BY <1>1, ElementOfSeq
  <1>4. ("LShift" \in HeldAfter(SubSeq(h, 1, m))) <=>
          IF h[m].key = "LShift" THEN ~ h[m].released
            ELSE "LShift" \in HeldAfter(SubSeq(h, 1, m - 1))
    BY <1>1, HeldStep
  <1>5. ("LShift" \in keystates) <=> ("LShift" \in HeldAfter(SubSeq(h, 1, n)))
    BY DEF EventsMatch
  <1>6. ("LShift" \in keystates') <=> ("LShift" \in HeldAfter(SubSeq(h, 1, m)))
    BY <1>1, <1>3, <1>4, <1>5
  <1>7. ASSUME NEW i \in 1 .. m
        PROVE  /\ events'[i].code = Meaning(h[i].key)
               /\ ("Released" \in events'[i].flags) = h[i].released
               /\ ("Shift" \in events'[i].flags) =
                    ("LShift" \in HeldAfter(SubSeq(h, 1, i)))
    <2>1. CASE i = m
      <3>1. events'[i] = e
        BY <1>2, <2>1
      <3>2. ("Released" \in e.flags) = h[m].released
        BY <1>3 DEF Presses
      <3>3. ("Shift" \in e.flags) = ("LShift" \in HeldAfter(SubSeq(h, 1, m)))
        BY <1>6
      <3> QED
        BY <1>3, <2>1, <3>1, <3>2, <3>3
    <2>2. CASE i # m
      <3>1. i \in 1 .. n
        BY <1>1, <2>2
      <3> QED
        BY <1>2, <3>1 DEF EventsMatch
    <2> QED
      BY <2>1, <2>2
  <1>8. ("LShift" \in keystates') = ("LShift" \in HeldAfter(SubSeq(h, 1, m)))
    BY <1>6
  <1>9. m <= Len(h)
    BY <1>1
  <1> QED
    BY <1>2, <1>7, <1>8, <1>9 DEF EventsMatch

\* Reading a byte leaves the others, and the next one is the next of its code or
\* the first of the next press.
LEMMA ScanRead ==
  ASSUME KeyTypes, NEW pos \in [1 .. Len(scan) -> Nat], ScanIs(pos),
         scan # <<>>, scan' = Tail(scan), typed' = typed,
         NEW n, n = scan[1].n, NEW p, p = pos[1], NEW c, c = CodeOf(n)
  PROVE  /\ n \in 1 .. Len(typed) /\ p \in 1 .. Len(c) /\ scan[1].b = c[p]
         /\ scan' \in Seq(Items)
         /\ \E q \in [1 .. Len(scan') -> Nat] :
              /\ ScanIs(q)'
              /\ IF p = Len(c) THEN NextPress' = n + 1 /\ NextPos(q)' = 1
                               ELSE NextPress' = n /\ NextPos(q)' = p + 1
  <1> PICK L : L = Len(scan)
    OBVIOUS
  <1>1. /\ L \in Nat /\ L >= 1
        /\ scan' \in Seq(Items) /\ Len(scan') = L - 1
        /\ \A i \in 1 .. L - 1 : scan'[i] = scan[i + 1]
    BY HeadTailProperties, EmptySeq, LenProperties DEF KeyTypes
  <1>2. /\ n \in 1 .. Len(typed) /\ p \in 1 .. Len(c) /\ scan[1].b = c[p]
        /\ IF L = 1 THEN n = Len(typed) /\ p = Len(c)
             ELSE IF p = Len(c) THEN scan[2].n = n + 1 /\ pos[2] = 1
                                ELSE scan[2].n = n /\ pos[2] = p + 1
    BY <1>1, SMTT(30) DEF ScanIs
  <1> DEFINE q == [i \in 1 .. L - 1 |-> pos[i + 1]]
  <1>3. q \in [1 .. L - 1 -> Nat] /\ \A i \in 1 .. L - 1 : q[i] = pos[i + 1]
    BY <1>1
  <1> HIDE DEF q
  <1>5. ScanIs(q)'
    <2> SUFFICES ASSUME NEW i \in 1 .. L - 1
                 PROVE  (/\ scan[i].n \in 1 .. Len(typed)
                         /\ q[i] \in 1 .. Len(CodeOf(scan[i].n))
                         /\ scan[i].b = CodeOf(scan[i].n)[q[i]]
                         /\ IF i = Len(scan)
                              THEN scan[i].n = Len(typed) /\ q[i] = Len(CodeOf(scan[i].n))
                              ELSE IF q[i] = Len(CodeOf(scan[i].n))
                                THEN scan[i + 1].n = scan[i].n + 1 /\ q[i + 1] = 1
                                ELSE scan[i + 1].n = scan[i].n
                                       /\ q[i + 1] = q[i] + 1)'
      BY <1>1 DEF ScanIs
    <2> PICK j : j = i + 1
      OBVIOUS
    <2>1. /\ j \in 1 .. L /\ (i = L - 1 <=> j = L)
          /\ scan'[i] = scan[j] /\ q[i] = pos[j]
          /\ i # L - 1 => scan'[i + 1] = scan[j + 1] /\ q[i + 1] = pos[j + 1]
      BY <1>1, <1>3
    <2>2. /\ scan[j].n \in 1 .. Len(typed)
          /\ pos[j] \in 1 .. Len(CodeOf(scan[j].n))
          /\ scan[j].b = CodeOf(scan[j].n)[pos[j]]
          /\ IF j = L
               THEN scan[j].n = Len(typed) /\ pos[j] = Len(CodeOf(scan[j].n))
               ELSE IF pos[j] = Len(CodeOf(scan[j].n))
                 THEN scan[j + 1].n = scan[j].n + 1 /\ pos[j + 1] = 1
                 ELSE scan[j + 1].n = scan[j].n /\ pos[j + 1] = pos[j] + 1
      BY <2>1 DEF ScanIs
    <2>3. CodeOf(scan[i].n)' = CodeOf(scan[j].n)
      BY <2>1 DEF CodeOf
    <2> QED
      BY <1>1, <2>1, <2>2, <2>3
  <1>6. IF p = Len(c) THEN NextPress' = n + 1 /\ NextPos(q)' = 1
                      ELSE NextPress' = n /\ NextPos(q)' = p + 1
    <2>1. CASE L = 1
      <3>1. scan' = <<>>
        BY <1>1, <2>1, EmptySeq
      <3> QED
        BY <1>2, <2>1, <3>1 DEF NextPress, NextPos
    <2>2. CASE L # 1
      <3>1. scan' # <<>> /\ scan'[1] = scan[2] /\ q[1] = pos[2]
        BY <1>1, <1>3, <2>2, EmptySeq, SMTT(30)
      <3> QED
        BY <1>2, <2>2, <3>1 DEF NextPress, NextPos
    <2> QED
      BY <2>1, <2>2
  <1> QED
    BY <1>1, <1>2, <1>3, <1>5, <1>6

\* What reading the next byte of a code amounts to.
LEMMA ParserStep ==
  ASSUME NEW key \in Modelled, NEW released \in BOOLEAN, NEW c,
         c = Code(key, released), NEW p \in 1 .. Len(c), NEW b, b = c[p],
         current_state = StatesBefore(key, released, p),
         prev = PrevBefore(key, released, p)
  PROVE  /\ b \in {"E0", "F0", "E1"} =>
              /\ p # Len(c)
              /\ StatesBefore(key, released, p + 1) = current_state \cup {PrefixState(b)}
              /\ PrevBefore(key, released, p + 1) = prev
         /\ OpensDigraph(b) =>
              /\ p # Len(c)
              /\ StatesBefore(key, released, p + 1) = current_state \cup {"DIGRAPH"}
              /\ PrevBefore(key, released, p + 1) = prev
         /\ b \notin {"E0", "F0", "E1"} /\ ~ OpensDigraph(b) /\ FirstOfTwo(b) =>
              /\ p # Len(c)
              /\ StatesBefore(key, released, p + 1) = current_state
              /\ PrevBefore(key, released, p + 1) = b
         /\ b \notin {"E0", "F0", "E1"} /\ ~ OpensDigraph(b) /\ ~ FirstOfTwo(b) =>
              /\ p = Len(c)
              /\ KeyOf(b) = Meaning(key)
              /\ "BREAK" \in current_state <=> released
              /\ "TWOBYTE" \in current_state \/ prev = None
  <1> PICK n : n = Len(c)
    OBVIOUS
  <1>0. p \in Nat \ {0}
    OBVIOUS
  <1>1. Decides(key, released, p, n, b, current_state, prev)
    BY ParserTable
  <1> PICK S : S = StatesBefore(key, released, p + 1)
    OBVIOUS
  <1> PICK v : v = PrevBefore(key, released, p + 1)
    OBVIOUS
  <1>2. /\ S = current_state
               \cup (IF b \in {"E0", "F0", "E1"} THEN {PrefixState(b)} ELSE {})
               \cup (IF key = "PrintScreen" /\ b \in {"12", "7C"} THEN {"DIGRAPH"} ELSE {})
        /\ v = IF key = "Pause" /\ b = "14" THEN "14" ELSE prev
    <2>1. b = Code(key, released)[p]
      OBVIOUS
    <2>2. Adds(key, released, p, b)
      BY <1>0, <2>1, StatesStep, Zenon
    <2> QED
      BY <2>2 DEF Adds
  <1>3. CASE b \in {"E0", "F0", "E1"}
    BY <1>1, <1>2, <1>3 DEF Decides, OpensDigraph
  <1>4. CASE OpensDigraph(b)
    <2>1. b \in {"12", "7C"}
      BY <1>4 DEF OpensDigraph
    <2>2. p # n /\ key = "PrintScreen"
      BY <1>1, <1>4, <2>1 DEF Decides, OpensDigraph
    <2>3. S = current_state \cup {"DIGRAPH"} /\ v = prev
      BY <1>2, <2>1, <2>2
    <2> QED
      BY <1>4, <2>1, <2>2, <2>3
  <1>5. CASE b \notin {"E0", "F0", "E1"} /\ ~ OpensDigraph(b) /\ FirstOfTwo(b)
    <2>1. p # n /\ key = "Pause" /\ b = "14"
      BY <1>1, <1>5 DEF Decides, OpensDigraph, FirstOfTwo
    <2> QED
      BY <1>2, <1>5, <2>1
  <1>6. CASE b \notin {"E0", "F0", "E1"} /\ ~ OpensDigraph(b) /\ ~ FirstOfTwo(b)
    <2>1. /\ p = n
          /\ KeyOf(b) = Meaning(key)
          /\ IF released THEN "BREAK" \in current_state ELSE "BREAK" \notin current_state
          /\ "TWOBYTE" \in current_state \/ prev = None
      BY <1>1, <1>6 DEF Decides, OpensDigraph, FirstOfTwo, KeyOf
    <2> QED
      BY <1>6, <2>1
  <1> QED
    BY <1>3, <1>4, <1>5, <1>6

\* The presses heard.
LEMMA HeardType ==
  ASSUME KeyTypes, \A i \in 1 .. Len(seen) : seen[i] \in 1 .. Len(typed)
  PROVE  /\ Heard \in Seq(Presses) /\ Len(Heard) = Len(seen)
         /\ \A i \in 1 .. Len(seen) : Heard[i] = typed[seen[i]]
  <1> PICK m : m = Len(seen)
    OBVIOUS
  <1>1. m \in Nat
    BY LenProperties DEF KeyTypes
  <1>2. \A i \in 1 .. m : typed[seen[i]] \in Presses
    BY ElementOfSeq DEF KeyTypes
  <1>3. Heard = [i \in 1 .. m |-> typed[seen[i]]]
    BY DEF Heard
  <1> PICK h : h = Heard
    OBVIOUS
  <1>4. h \in [1 .. m -> Presses] /\ \A i \in 1 .. m : h[i] = typed[seen[i]]
    BY <1>2, <1>3
  <1> QED
    BY <1>1, <1>4, FunctionIsSeq

\* Where a byte of press n has been read while active was set, and what is known
\* when no press is torn.
LEMMA ReadActive ==
  ASSUME TypeOK, KeyTypes, NEW n \in 1 .. Len(typed), NEW c, c = CodeOf(n),
         NEW p \in 1 .. Len(c), KeysAre(n, p), scan # <<>>, scan[1].n = n,
         active, NEW b, ReadScan(b), NEW n2, NEW p2,
         IF p = Len(c) THEN n2 = n + 1 /\ p2 = 1 ELSE n2 = n /\ p2 = p + 1
  PROVE  /\ seen' \in Seq(Nat) /\ SeenIs(n2, p2)'
         /\ \A i \in 1 .. Len(seen') : seen'[i] \in 1 .. n
         /\ ~ torn' =>
              /\ skipped' # n
              /\ current_state = StatesBefore(typed[n].key, typed[n].released, p)
              /\ prev = PrevBefore(typed[n].key, typed[n].released, p)
              /\ Len(seen') = Len(events) + 1 /\ seen'[Len(seen')] = n
              /\ \E g \in Seq(Presses) :
                   /\ g = Heard' /\ Len(g) = Len(seen') /\ EventsMatch(g)
                   /\ g[Len(g)] = typed[n]
  <1>1. /\ Len(typed) \in Nat /\ Len(seen) \in Nat /\ n \in Nat /\ p \in Nat
        /\ Len(events) \in Nat /\ seen \in Seq(Nat) /\ skipped \in Nat
    BY LenProperties DEF KeyTypes, TypeOK
  <1>2. /\ Head(scan).n = n /\ typed' = typed /\ active' = active
        /\ skipped' = skipped /\ torn' = (torn \/ n = skipped)
        /\ seen' = IF seen # <<>> /\ seen[Len(seen)] = n THEN seen ELSE Append(seen, n)
    BY DEF ReadScan
  <1>3. /\ \A i \in 1 .. Len(seen) : seen[i] \in 1 .. n
        /\ p = 1 => \A i \in 1 .. Len(seen) : seen[i] # n
        /\ skipped \in 0 .. n /\ (p = 1 => skipped # n)
    BY DEF KeysAre, SeenIs
  <1>4. /\ seen' \in Seq(Nat) /\ Len(seen') \in Nat \ {0} /\ seen'[Len(seen')] = n
        /\ Len(seen) <= Len(seen')
        /\ \A i \in 1 .. Len(seen) : seen'[i] = seen[i]
        /\ \A i \in 1 .. Len(seen') : seen'[i] \in 1 .. n
    <2>1. CASE seen # <<>> /\ seen[Len(seen)] = n
      <3>1. Len(seen) # 0
        BY <1>1, <2>1, EmptySeq
      <3> QED
        BY <1>1, <1>2, <1>3, <2>1, <3>1
    <2>2. CASE ~ (seen # <<>> /\ seen[Len(seen)] = n)
      <3>1. seen' = Append(seen, n)
        BY <1>2, <2>2
      <3>2. /\ seen' \in Seq(Nat) /\ Len(seen') = Len(seen) + 1
            /\ seen'[Len(seen) + 1] = n
            /\ \A i \in 1 .. Len(seen) : seen'[i] = seen[i]
        BY <1>1, <3>1, AppendProperties
      <3>3. ASSUME NEW i \in 1 .. Len(seen') PROVE seen'[i] \in 1 .. n
        <4>1. i \in 1 .. Len(seen) \/ i = Len(seen) + 1
          BY <1>1, <3>2
        <4>2. CASE i \in 1 .. Len(seen)
          BY <1>3, <3>2, <4>2
        <4>3. CASE i = Len(seen) + 1
          BY <1>1, <3>2, <4>3
        <4> QED
          BY <4>1, <4>2, <4>3
      <3>4. Len(seen') \in Nat \ {0} /\ seen'[Len(seen')] = n /\ Len(seen) <= Len(seen')
        BY <1>1, <3>2
      <3> QED
        BY <3>2, <3>3, <3>4
    <2> QED
      BY <2>1, <2>2
  <1>5. SeenIs(n2, p2)'
    <2>1. CASE p = Len(c)
      <3>1. n2 = n + 1 /\ p2 = 1
        BY <2>1
      <3> QED
        BY <1>1, <1>2, <1>3, <1>4, <3>1, SMTT(30) DEF SeenIs
    <2>2. CASE p # Len(c)
      <3>1. n2 = n /\ p2 = p + 1 /\ p2 # 1
        BY <1>1, <2>2
      <3> QED
        BY <1>1, <1>2, <1>3, <1>4, <3>1 DEF SeenIs
    <2> QED
      BY <2>1, <2>2
  <1>6. ASSUME ~ torn'
        PROVE  /\ skipped' # n
               /\ current_state = StatesBefore(typed[n].key, typed[n].released, p)
               /\ prev = PrevBefore(typed[n].key, typed[n].released, p)
               /\ Len(seen') = Len(events) + 1
               /\ EventsMatch(Heard)
    <2>1. ~ torn /\ skipped # n /\ skipped' # n
      BY <1>2, <1>6
    <2>2. ParserIs(n, p) /\ EventsMatch(Heard)
      BY <2>1 DEF KeysAre
    <2>3. CASE p = 1
      <3>1. /\ Len(events) = Len(seen) /\ current_state = {} /\ prev = None
            /\ \A i \in 1 .. Len(seen) : seen[i] # n
        BY <2>2, <2>3 DEF ParserIs, Midway
      <3>2. Len(seen') = Len(seen) + 1
        <4>1. ~ (seen # <<>> /\ seen[Len(seen)] = n)
          BY <1>1, <3>1, EmptySeq
        <4> QED
          BY <1>1, <1>2, <4>1, AppendProperties
      <3>3. /\ current_state = StatesBefore(typed[n].key, typed[n].released, p)
            /\ prev = PrevBefore(typed[n].key, typed[n].released, p)
        BY <1>1, <2>3, <3>1, StatesFirst
      <3> QED
        BY <2>1, <2>2, <3>1, <3>2, <3>3
    <2>4. CASE p # 1
      <3>1. Midway(n, p)
        BY <1>1, <2>1, <2>4 DEF Midway
      <3>2. /\ Len(events) + 1 = Len(seen) /\ seen[Len(seen)] = n
            /\ current_state = StatesBefore(typed[n].key, typed[n].released, p)
            /\ prev = PrevBefore(typed[n].key, typed[n].released, p)
        BY <2>2, <3>1 DEF ParserIs
      <3>3. seen' = seen
        BY <1>1, <1>2, <3>2, EmptySeq
      <3> QED
        BY <1>1, <2>1, <2>2, <3>2, <3>3
    <2> QED
      BY <2>3, <2>4
  <1>7. ASSUME ~ torn'
        PROVE  \E g \in Seq(Presses) :
                 /\ g = Heard' /\ Len(g) = Len(seen') /\ EventsMatch(g)
                 /\ g[Len(g)] = typed[n]
    <2>1. /\ Heard \in Seq(Presses) /\ Len(Heard) = Len(seen)
          /\ \A i \in 1 .. Len(seen) : Heard[i] = typed[seen[i]]
      BY <1>1, <1>3, HeardType
    <2> PICK h : h = Heard
      OBVIOUS
    <2> PICK g : g = Heard'
      OBVIOUS
    <2> PICK s : s = seen'
      OBVIOUS
    <2>2. g = [i \in 1 .. Len(s) |-> typed[s[i]]]
      BY <1>2 DEF Heard
    <2>3. \A i \in 1 .. Len(s) : typed[s[i]] \in Presses
      BY <1>1, <1>4, ElementOfSeq, SMTT(30) DEF KeyTypes
    <2>4. g \in [1 .. Len(s) -> Presses] /\ \A i \in 1 .. Len(s) : g[i] = typed[s[i]]
      BY <2>2, <2>3
    <2>5. g \in Seq(Presses) /\ Len(g) = Len(s)
      BY <1>4, <2>4, FunctionIsSeq
    <2>6. Len(h) <= Len(g) /\ \A i \in 1 .. Len(h) : g[i] = h[i]
      <3>1. Len(h) = Len(seen) /\ Len(h) \in Nat /\ Len(h) <= Len(s)
        BY <1>1, <1>4, <2>1
      <3>2. ASSUME NEW i \in 1 .. Len(h) PROVE g[i] = h[i]
        <4>1. i \in 1 .. Len(seen) /\ i \in 1 .. Len(s)
          BY <1>1, <1>4, <3>1
        <4>2. s[i] = seen[i]
          BY <1>1, <1>4, <4>1
        <4> QED
          BY <2>1, <2>4, <4>1, <4>2
      <3> QED
        BY <2>5, <3>1, <3>2
    <2>7. EventsMatch(h)
      BY <1>6, <1>7
    <2>8. EventsMatch(g)
      BY <2>1, <2>5, <2>6, <2>7, MatchMore
    <2>9. g[Len(g)] = typed[n]
      BY <1>4, <2>4, <2>5
    <2> QED
      BY <2>5, <2>8, <2>9
  <1> QED
    BY <1>4, <1>5, <1>6, <1>7

\* The store of a keystroke for the last byte of a code.
LEMMA KeystrokeStep ==
  ASSUME TypeOK, TypeOK', KeyTypes, NEW n \in 1 .. Len(typed), NEW c, c = CodeOf(n),
         NEW p \in 1 .. Len(c), KeysAre(n, p), scan # <<>>, scan[1].n = n,
         NEW b, b = c[p], Keystroke(b), NEW n2, NEW p2,
         IF p = Len(c) THEN n2 = n + 1 /\ p2 = 1 ELSE n2 = n /\ p2 = p + 1
  PROVE  KeysAre(n2, p2)' /\ seen' \in Seq(Nat)
  <1>1. active /\ ReadScan(b) /\ typed' = typed
    BY DEF Keystroke, ReadScan
  <1>2. /\ seen' \in Seq(Nat) /\ SeenIs(n2, p2)'
        /\ \A i \in 1 .. Len(seen') : seen'[i] \in 1 .. n
        /\ ~ torn' =>
              /\ current_state = StatesBefore(typed[n].key, typed[n].released, p)
              /\ prev = PrevBefore(typed[n].key, typed[n].released, p)
              /\ Len(seen') = Len(events) + 1
              /\ \E g \in Seq(Presses) :
                   /\ g = Heard' /\ Len(g) = Len(seen') /\ EventsMatch(g)
                   /\ g[Len(g)] = typed[n]
    BY <1>1, ReadActive, ZenonT(30)
  <1> PICK key : key = typed[n].key
    OBVIOUS
  <1> PICK released : released = typed[n].released
    OBVIOUS
  <1>3. /\ typed[n] \in Presses /\ key \in Modelled /\ released \in BOOLEAN
        /\ c = Code(key, released)
    <2>1. typed[n] \in Presses
      BY ElementOfSeq DEF KeyTypes
    <2> QED
      BY <2>1, KeysAssumption DEF Presses, CodeOf, Modelled
  <1>4. ASSUME ~ torn' PROVE (ParserIs(n2, p2) /\ EventsMatch(Heard))'
    <2>1. /\ current_state = StatesBefore(key, released, p)
          /\ prev = PrevBefore(key, released, p)
          /\ Len(seen') = Len(events) + 1
      BY <1>2, <1>4
    <2>2. PICK g \in Seq(Presses) : /\ g = Heard' /\ Len(g) = Len(seen') /\ EventsMatch(g)
                                    /\ g[Len(g)] = typed[n]
      BY <1>2, <1>4
    <2>3. b \notin {"E0", "F0", "E1"} /\ ~ OpensDigraph(b) /\ ~ FirstOfTwo(b)
      BY DEF Keystroke
    <2>4. /\ p = Len(c) /\ KeyOf(b) = Meaning(key)
          /\ "BREAK" \in current_state <=> released
          /\ "TWOBYTE" \in current_state \/ prev = None
      BY <1>3, <2>1, <2>3, ParserStep, SMTT(30)
    <2>5. n2 = n + 1 /\ p2 = 1
      BY <2>4
    <2> DEFINE e == [code |-> KeyOf(b), flags |-> Flags(keystates')]
    <2>6. /\ events' = Append(events, e)
          /\ keystates' = IF "BREAK" \in current_state THEN keystates \ {KeyOf(b)}
                                                       ELSE keystates \cup {KeyOf(b)}
          /\ prev' = IF "TWOBYTE" \in current_state THEN None ELSE prev
          /\ current_state' = {}
      BY DEF Keystroke, Store
    <2>7. /\ e.code = Meaning(key)
          /\ ("Released" \in e.flags) <=> released
          /\ ("Shift" \in e.flags) <=> ("LShift" \in keystates')
      <3>1. "RShift" \notin keystates'
        BY DEF TypeOK, KeyCodes
      <3>2. ("Released" \in Flags(keystates')) <=> "BREAK" \in current_state
        BY DEF Flags
      <3>3. ("Shift" \in Flags(keystates')) <=> "LShift" \in keystates'
        BY <3>1 DEF Flags
      <3> QED
        BY <2>4, <3>2, <3>3
    <2>8. ("LShift" \in keystates') <=>
            IF key = "LShift" THEN ~ released ELSE "LShift" \in keystates
      <3>1. KeyOf(b) = "LShift" <=> key = "LShift"
        BY <2>4 DEF Meaning
      <3> QED
        BY <2>4, <2>6, <3>1
    <2>9. e \in Keystrokes
      BY <1>3, <2>4, FlagsType DEF Keystrokes, KeyCodes, Meaning, Modelled
    <2> HIDE DEF e
    <2>10. Len(events) < Len(g) /\ typed[n] = g[Len(events) + 1]
      BY <2>1, <2>2, LenProperties DEF TypeOK
    <2>11. EventsMatch(g)'
      BY <2>2, <2>6, <2>7, <2>8, <2>9, <2>10, MatchNext
    <2>12. EventsMatch(Heard)'
      BY <2>2, <2>11 DEF EventsMatch
    <2>13. Len(events') = Len(seen')
      BY <2>1, <2>6, AppendProperties DEF TypeOK
    <2>14. \A i \in 1 .. Len(seen') : seen'[i] # n2
      BY <1>2, <2>5
    <2>15. ParserIs(n2, p2)'
      BY <2>4, <2>5, <2>6, <2>13, <2>14 DEF ParserIs, Midway
    <2> QED
      BY <2>12, <2>15
  <1> QED
    BY <1>2, <1>4 DEF KeysAre

\* A byte that is not the last of its code.
LEMMA OtherByteStep ==
  ASSUME TypeOK, KeyTypes, NEW n \in 1 .. Len(typed), NEW c, c = CodeOf(n),
         NEW p \in 1 .. Len(c), KeysAre(n, p), scan # <<>>, scan[1].n = n,
         NEW b, b = c[p], Prefix(b) \/ Digraph(b) \/ TopByte(b), NEW n2, NEW p2,
         IF p = Len(c) THEN n2 = n + 1 /\ p2 = 1 ELSE n2 = n /\ p2 = p + 1
  PROVE  KeysAre(n2, p2)' /\ seen' \in Seq(Nat)
  <1>1. /\ active /\ ReadScan(b) /\ typed' = typed
        /\ keystates' = keystates /\ events' = events
    BY DEF Prefix, Digraph, TopByte, ReadScan, ringVars
  <1>2. seen' \in Seq(Nat) /\ SeenIs(n2, p2)'
    BY <1>1, ReadActive
  <1> PICK key : key = typed[n].key
    OBVIOUS
  <1> PICK released : released = typed[n].released
    OBVIOUS
  <1>3. /\ typed[n] \in Presses /\ key \in Modelled /\ released \in BOOLEAN
        /\ c = Code(key, released)
    <2>1. typed[n] \in Presses
      BY ElementOfSeq DEF KeyTypes
    <2> QED
      BY <2>1, KeysAssumption DEF Presses, CodeOf, Modelled
  <1>4. ASSUME ~ torn' PROVE (ParserIs(n2, p2) /\ EventsMatch(Heard))'
    <2>0. /\ skipped' # n
          /\ current_state = StatesBefore(typed[n].key, typed[n].released, p)
          /\ prev = PrevBefore(typed[n].key, typed[n].released, p)
          /\ Len(seen') = Len(events) + 1 /\ seen'[Len(seen')] = n
          /\ \E g \in Seq(Presses) :
               /\ g = Heard' /\ Len(g) = Len(seen') /\ EventsMatch(g)
               /\ g[Len(g)] = typed[n]
      BY <1>1, <1>4, ReadActive, ZenonT(30)
    <2>1. /\ skipped' # n
          /\ current_state = StatesBefore(key, released, p)
          /\ prev = PrevBefore(key, released, p)
          /\ Len(seen') = Len(events) + 1 /\ seen'[Len(seen')] = n
          /\ EventsMatch(Heard')
      BY <2>0
    <2>2. EventsMatch(Heard)'
      BY <1>1, <2>1 DEF EventsMatch
    <2>3. /\ p # Len(c)
          /\ StatesBefore(key, released, p + 1) = current_state'
          /\ PrevBefore(key, released, p + 1) = prev'
      <3>1. CASE Prefix(b)
        <4>1. /\ b \in {"E0", "F0", "E1"}
              /\ current_state' = current_state \cup {PrefixState(b)} /\ prev' = prev
          BY <3>1 DEF Prefix
        <4>2. /\ p # Len(c)
              /\ StatesBefore(key, released, p + 1) = current_state \cup {PrefixState(b)}
              /\ PrevBefore(key, released, p + 1) = prev
          BY <1>3, <2>1, <4>1, ParserStep
        <4> QED
          BY <4>1, <4>2
      <3>2. CASE Digraph(b)
        <4>1. /\ OpensDigraph(b)
              /\ current_state' = current_state \cup {"DIGRAPH"} /\ prev' = prev
          BY <3>2 DEF Digraph
        <4> QED
          BY <1>3, <2>1, <4>1, ParserStep, SMTT(30)
      <3>3. CASE TopByte(b)
        <4>1. /\ b \notin {"E0", "F0", "E1"} /\ ~ OpensDigraph(b) /\ FirstOfTwo(b)
              /\ current_state' = current_state /\ prev' = b
          BY <3>3 DEF TopByte
        <4>2. /\ p # Len(c)
              /\ StatesBefore(key, released, p + 1) = current_state
              /\ PrevBefore(key, released, p + 1) = b
          BY <1>3, <2>1, <4>1, ParserStep
        <4> QED
          BY <4>1, <4>2
      <3> QED
        BY <3>1, <3>2, <3>3
    <2>4. n2 = n /\ p2 = p + 1 /\ p2 > 1
      BY <2>3
    <2>5. Midway(n2, p2)'
      BY <2>1, <2>4 DEF Midway
    <2>6. Len(events') + 1 = Len(seen')
      BY <1>1, <2>1
    <2>7. ParserIs(n2, p2)'
      BY <1>1, <2>1, <2>3, <2>4, <2>5, <2>6 DEF ParserIs
    <2> QED
      BY <2>2, <2>7
  <1> QED
    BY <1>2, <1>4 DEF KeysAre

\* A byte read before active is set.
LEMMA IgnoredStep ==
  ASSUME TypeOK, KeyTypes, NEW n \in 1 .. Len(typed), NEW c, c = CodeOf(n),
         NEW p \in 1 .. Len(c), KeysAre(n, p), scan # <<>>, scan[1].n = n,
         NEW b, Ignored(b), NEW n2, NEW p2,
         IF p = Len(c) THEN n2 = n + 1 /\ p2 = 1 ELSE n2 = n /\ p2 = p + 1
  PROVE  KeysAre(n2, p2)' /\ seen' \in Seq(Nat) /\ skipped' \in Nat
  <1>1. /\ ~ active /\ typed' = typed /\ active' = active /\ seen' = seen
        /\ skipped' = n /\ torn' = torn /\ events' = events
        /\ keystates' = keystates /\ current_state' = current_state /\ prev' = prev
    BY DEF Ignored, ReadScan, parserVars, ringVars
  <1>2. seen = <<>> /\ events = <<>> /\ ~ torn
    BY <1>1 DEF KeysAre, SeenIs
  <1>3. Len(seen) = 0 /\ Len(events) = 0 /\ n \in Nat /\ Len(typed) \in Nat
    BY <1>2, LenProperties DEF KeyTypes
  <1>4. SeenIs(n2, p2)'
    BY <1>1, <1>2, <1>3 DEF SeenIs
  <1>5. ~ Midway(n, p)
    BY <1>3, <1>2 DEF KeysAre, ParserIs, Midway
  <1>6. current_state = {} /\ prev = None
    BY <1>2, <1>5 DEF KeysAre, ParserIs
  <1>7. ~ Midway(n2, p2)'
    BY <1>1, <1>3 DEF Midway
  <1>8. ParserIs(n2, p2)'
    BY <1>1, <1>2, <1>3, <1>6, <1>7 DEF ParserIs
  <1>9. Heard' = Heard
    BY <1>1 DEF Heard
  <1>10. EventsMatch(Heard)'
    BY <1>1, <1>2, <1>9 DEF KeysAre, EventsMatch
  <1> QED
    BY <1>1, <1>4, <1>8, <1>10 DEF KeysAre, KeyTypes

\* What neither reads nor types leaves all of it alone; active is only ever set.
LEMMA KeysFrame ==
  ASSUME KeysInv, UNCHANGED <<typingVars, parserVars, events>>,
         active' = active \/ active'
  PROVE  KeysInv'
  <1>1. /\ scan' = scan /\ typed' = typed /\ seen' = seen /\ skipped' = skipped
        /\ torn' = torn /\ current_state' = current_state /\ prev' = prev
        /\ keystates' = keystates /\ events' = events
    BY DEF typingVars, parserVars
  <1>2. PICK pos \in [1 .. Len(scan) -> Nat] :
          ScanIs(pos) /\ KeysAre(NextPress, NextPos(pos))
    BY DEF KeysInv
  <1>3. /\ KeyTypes' /\ ScanIs(pos)' /\ NextPress' = NextPress
        /\ NextPos(pos)' = NextPos(pos) /\ Heard' = Heard
    BY <1>1, <1>2 DEF KeysInv, KeyTypes, ScanIs, CodeOf, NextPress, NextPos, Heard
  <1> PICK n : n = NextPress
    OBVIOUS
  <1> PICK p : p = NextPos(pos)
    OBVIOUS
  <1>4. SeenIs(n, p)'
    BY <1>1, <1>2 DEF KeysAre, SeenIs
  <1>5. ASSUME ~ torn PROVE ParserIs(n, p)' /\ EventsMatch(Heard)'
    <2>1. ParserIs(n, p) /\ EventsMatch(Heard)
      BY <1>2, <1>5 DEF KeysAre
    <2> QED
      BY <1>1, <1>3, <2>1 DEF ParserIs, Midway, EventsMatch
  <1>6. KeysAre(n, p)'
    BY <1>1, <1>4, <1>5 DEF KeysAre
  <1>7. pos \in [1 .. Len(scan') -> Nat] /\ NextPress' = n /\ NextPos(pos)' = p
    BY <1>1, <1>3
  <1> QED
    BY <1>3, <1>6, <1>7 DEF KeysInv

\* The codes are not empty and consist of the bytes kbd_isr knows.
LEMMA CodeType ==
  ASSUME NEW key \in Modelled, NEW released \in BOOLEAN
  PROVE  /\ Code(key, released) \in Seq(Bytes)
         /\ Len(Code(key, released)) \in Nat \ {0}
  <1>1. CASE key = "A" /\ ~ released
    <2>1. Code(key, released) = <<"1C">>
      BY <1>1, Codes
    <2> QED
      BY <2>1 DEF Bytes
  <1>2. CASE key = "A" /\ released
    <2>1. Code(key, released) = <<"F0", "1C">>
      BY <1>2, Codes
    <2> QED
      BY <2>1 DEF Bytes
  <1>3. CASE key = "LShift" /\ ~ released
    <2>1. Code(key, released) = <<"12">>
      BY <1>3, Codes
    <2> QED
      BY <2>1 DEF Bytes
  <1>4. CASE key = "LShift" /\ released
    <2>1. Code(key, released) = <<"F0", "12">>
      BY <1>4, Codes
    <2> QED
      BY <2>1 DEF Bytes
  <1>5. CASE key = "Unknown" /\ ~ released
    <2>1. Code(key, released) = <<"02">>
      BY <1>5, Codes
    <2> QED
      BY <2>1 DEF Bytes
  <1>6. CASE key = "Unknown" /\ released
    <2>1. Code(key, released) = <<"F0", "02">>
      BY <1>6, Codes
    <2> QED
      BY <2>1 DEF Bytes
  <1>7. CASE key = "Home" /\ ~ released
    <2>1. Code(key, released) = <<"E0", "6C">>
      BY <1>7, Codes
    <2> QED
      BY <2>1 DEF Bytes
  <1>8. CASE key = "Home" /\ released
    <2>1. Code(key, released) = <<"E0", "F0", "6C">>
      BY <1>8, Codes
    <2> QED
      BY <2>1 DEF Bytes
  <1>9. CASE key = "PrintScreen" /\ ~ released
    <2>1. Code(key, released) = <<"E0", "12", "E0", "7C">>
      BY <1>9, Codes
    <2> QED
      BY <2>1 DEF Bytes
  <1>10. CASE key = "PrintScreen" /\ released
    <2>1. Code(key, released) = <<"E0", "F0", "7C", "E0", "F0", "12">>
      BY <1>10, Codes
    <2> QED
      BY <2>1 DEF Bytes
  <1>11. CASE key = "Pause" /\ ~ released
    <2>1. Code(key, released) = <<"E1", "14", "77">>
      BY <1>11, Codes
    <2> QED
      BY <2>1 DEF Bytes
  <1>12. CASE key = "Pause" /\ released
    <2>1. Code(key, released) = <<"E1", "F0", "14", "F0", "77">>
      BY <1>12, Codes
    <2> QED
      BY <2>1 DEF Bytes
  <1> QED
    BY <1>1, <1>2, <1>3, <1>4, <1>5, <1>6, <1>7, <1>8, <1>9, <1>10, <1>11, <1>12 DEF Modelled

\* A press puts its code behind the others.
LEMMA TypeKeyStep ==
  ASSUME KeysInv, NEW key \in Keys, NEW released \in BOOLEAN, Type(key, released)
  PROVE  KeysInv'
  <1> PICK e : e = [key |-> key, released |-> released]
    OBVIOUS
  <1> PICK c : c = Code(key, released)
    OBVIOUS
  <1> PICK L : L = Len(scan)
    OBVIOUS
  <1> PICK N : N = Len(typed)
    OBVIOUS
  <1> PICK C : C = Len(c)
    OBVIOUS
  <1>0. KeyTypes
    BY DEF KeysInv
  <1>1. /\ L \in Nat /\ N \in Nat /\ C \in Nat \ {0} /\ c \in Seq(Bytes)
        /\ e \in Presses
    BY <1>0, CodeType, KeysAssumption, LenProperties DEF KeyTypes, Modelled, Presses
  <1> DEFINE d == [i \in 1 .. C |-> [b |-> c[i], n |-> N + 1]]
  <1>2. /\ d \in [1 .. C -> Items]
        /\ \A i \in 1 .. C : d[i].b = c[i] /\ d[i].n = N + 1
    BY <1>1, ElementOfSeq DEF Items
  <1>3. typed' = Append(typed, e) /\ scan' = scan \o d
    BY DEF Type
  <1> HIDE DEF d
  <1>4. d \in Seq(Items) /\ Len(d) = C
    BY <1>1, <1>2, FunctionIsSeq
  <1>5. /\ scan' \in Seq(Items) /\ Len(scan') = L + C
        /\ \A i \in 1 .. L : scan'[i] = scan[i]
        /\ \A i \in L + 1 .. L + C : scan'[i] = d[i - L]
    <2>1. /\ scan' \in Seq(Items) /\ Len(scan') = Len(scan) + Len(d)
          /\ \A i \in 1 .. Len(scan) + Len(d) :
               scan'[i] = IF i <= Len(scan) THEN scan[i] ELSE d[i - Len(scan)]
      BY <1>0, <1>3, <1>4, ConcatProperties DEF KeyTypes
    <2> QED
      BY <1>1, <1>4, <2>1
  <1>6. /\ typed' \in Seq(Presses) /\ Len(typed') = N + 1 /\ typed'[N + 1] = e
        /\ \A i \in 1 .. N : typed'[i] = typed[i]
    BY <1>0, <1>1, <1>3, AppendProperties DEF KeyTypes
  <1>7. /\ seen' = seen /\ skipped' = skipped /\ torn' = torn /\ active' = active
        /\ events' = events /\ keystates' = keystates
        /\ current_state' = current_state /\ prev' = prev
    BY DEF Type, parserVars, ringVars
  <1>8. KeyTypes'
    BY <1>0, <1>5, <1>6, <1>7 DEF KeyTypes
  <1>9. PICK pos \in [1 .. L -> Nat] :
          ScanIs(pos) /\ KeysAre(NextPress, NextPos(pos))
    BY DEF KeysInv
  <1> DEFINE q == [i \in 1 .. L + C |-> IF i <= L THEN pos[i] ELSE i - L]
  <1>10. /\ q \in [1 .. L + C -> Nat]
         /\ \A i \in 1 .. L : q[i] = pos[i]
         /\ \A i \in L + 1 .. L + C : q[i] = i - L
    BY <1>1, <1>9
  <1> HIDE DEF q
  <1>11. /\ \A i \in 1 .. N : CodeOf(i)' = CodeOf(i)
         /\ CodeOf(N + 1)' = c
    BY <1>6 DEF CodeOf
  <1>12. ASSUME NEW i \in 1 .. L
         PROVE  /\ scan[i].n \in 1 .. N
                /\ pos[i] \in 1 .. Len(CodeOf(scan[i].n))
                /\ scan[i].b = CodeOf(scan[i].n)[pos[i]]
                /\ IF i = L
                     THEN scan[i].n = N /\ pos[i] = Len(CodeOf(scan[i].n))
                     ELSE IF pos[i] = Len(CodeOf(scan[i].n))
                       THEN scan[i + 1].n = scan[i].n + 1 /\ pos[i + 1] = 1
                       ELSE scan[i + 1].n = scan[i].n /\ pos[i + 1] = pos[i] + 1
    BY <1>9 DEF ScanIs
  <1>13. ScanIs(q)'
    <2> SUFFICES ASSUME NEW i \in 1 .. L + C
                 PROVE  (/\ scan[i].n \in 1 .. Len(typed)
                         /\ q[i] \in 1 .. Len(CodeOf(scan[i].n))
                         /\ scan[i].b = CodeOf(scan[i].n)[q[i]]
                         /\ IF i = Len(scan)
                              THEN scan[i].n = Len(typed) /\ q[i] = Len(CodeOf(scan[i].n))
                              ELSE IF q[i] = Len(CodeOf(scan[i].n))
                                THEN scan[i + 1].n = scan[i].n + 1 /\ q[i + 1] = 1
                                ELSE scan[i + 1].n = scan[i].n
                                       /\ q[i + 1] = q[i] + 1)'
      BY <1>5 DEF ScanIs
    <2>1. CASE i \in 1 .. L
      <3>1. /\ scan'[i] = scan[i] /\ q[i] = pos[i] /\ i # L + C
            /\ CodeOf(scan[i].n)' = CodeOf(scan[i].n)
        BY <1>1, <1>5, <1>10, <1>11, <1>12, <2>1 DEF CodeOf
      <3>2. CASE i = L
        <4>1. i + 1 \in L + 1 .. L + C /\ i + 1 - L = 1 /\ 1 \in 1 .. C
          BY <1>1, <3>2
        <4>2. scan'[i + 1] = d[1] /\ q[i + 1] = 1 /\ d[1].n = N + 1
          BY <1>2, <1>5, <1>10, <4>1
        <4> QED
          BY <1>1, <1>5, <1>6, <1>12, <2>1, <3>1, <3>2, <4>2, SMTT(30)
      <3>3. CASE i # L
        <4>1. i + 1 \in 1 .. L
          BY <1>1, <2>1, <3>3
        <4>2. scan'[i + 1] = scan[i + 1] /\ q[i + 1] = pos[i + 1]
          BY <1>5, <1>10, <4>1
        <4>3. /\ scan[i].n \in 1 .. N
              /\ pos[i] \in 1 .. Len(CodeOf(scan[i].n))
              /\ scan[i].b = CodeOf(scan[i].n)[pos[i]]
              /\ IF pos[i] = Len(CodeOf(scan[i].n))
                   THEN scan[i + 1].n = scan[i].n + 1 /\ pos[i + 1] = 1
                   ELSE scan[i + 1].n = scan[i].n /\ pos[i + 1] = pos[i] + 1
          BY <1>12, <2>1, <3>3
        <4>4. i # Len(scan')
          BY <1>5, <3>1
        <4> QED
          BY <1>1, <1>6, <3>1, <4>2, <4>3, <4>4
      <3> QED
        BY <3>2, <3>3
    <2>2. CASE i \notin 1 .. L
      <3>1. i \in L + 1 .. L + C /\ i - L \in 1 .. C
        BY <1>1, <2>2
      <3>2. /\ scan'[i] = d[i - L] /\ q[i] = i - L
            /\ scan'[i].n = N + 1 /\ scan'[i].b = c[i - L]
        BY <1>2, <1>5, <1>10, <3>1
      <3>3. CodeOf(scan[i].n)' = c
        BY <1>11, <3>2 DEF CodeOf
      <3>4. CASE i = L + C
        BY <1>1, <1>5, <1>6, <3>1, <3>2, <3>3, <3>4
      <3>5. CASE i # L + C
        <4>1. i + 1 \in L + 1 .. L + C /\ i + 1 - L \in 1 .. C /\ i + 1 - L = i - L + 1
          BY <1>1, <3>1, <3>5
        <4>2. scan'[i + 1] = d[i + 1 - L] /\ q[i + 1] = i + 1 - L
          BY <1>5, <1>10, <4>1, SMTT(30)
        <4>3. scan'[i + 1].n = N + 1
          BY <1>2, <4>1, <4>2
        <4>4. i - L # C
          BY <1>1, <3>1, <3>5
        <4> QED
          BY <1>1, <1>5, <1>6, <3>1, <3>2, <3>3, <3>5, <4>1, <4>2, <4>3, <4>4
      <3> QED
        BY <3>4, <3>5
    <2> QED
      BY <2>1, <2>2
  <1> PICK n : n = NextPress
    OBVIOUS
  <1> PICK p : p = NextPos(pos)
    OBVIOUS
  <1>14. /\ NextPress' = n /\ NextPos(q)' = p
         /\ n \in 1 .. N + 1 /\ (p # 1 => n # N + 1) /\ (n = N + 1 => p = 1)
    <2>1. CASE L = 0
      <3>1. scan = <<>> /\ n = N + 1 /\ p = 1
        BY <1>0, <2>1, EmptySeq DEF NextPress, NextPos, KeyTypes
      <3>2. 1 \in L + 1 .. L + C /\ 1 - L = 1 /\ 1 \in 1 .. C
        BY <1>1, <2>1
      <3>3. scan'[1] = d[1] /\ q[1] = 1 /\ d[1].n = N + 1
        <4>1. scan'[1] = d[1 - L] /\ q[1] = 1 - L
          BY <1>5, <1>10, <3>2
        <4> QED
          BY <1>2, <3>2, <4>1
      <3>4. scan' # <<>>
        BY <1>1, <1>5, EmptySeq
      <3> QED
        BY <1>1, <3>1, <3>3, <3>4 DEF NextPress, NextPos
    <2>2. CASE L # 0
      <3>1. scan # <<>> /\ scan' # <<>> /\ 1 \in 1 .. L
        BY <1>0, <1>1, <1>5, <2>2, EmptySeq DEF KeyTypes
      <3>2. n = scan[1].n /\ p = pos[1] /\ scan'[1] = scan[1] /\ q[1] = pos[1]
        BY <1>5, <1>10, <3>1 DEF NextPress, NextPos
      <3>3. n \in 1 .. N
        BY <1>12, <3>1, <3>2
      <3> QED
        BY <1>1, <3>1, <3>2, <3>3 DEF NextPress, NextPos
    <2> QED
      BY <2>1, <2>2
  <1>15. KeysAre(n, p)
    BY <1>9
  <1>16. \A i \in 1 .. Len(seen) : seen[i] \in 1 .. N
    <2>1. ASSUME NEW i \in 1 .. Len(seen) PROVE seen[i] \in 1 .. N
      <3>1. seen[i] \in 1 .. n /\ (p = 1 => seen[i] # n)
        BY <1>15 DEF KeysAre, SeenIs
      <3>2. CASE n = N + 1
        <4>1. N \in Nat /\ seen[i] \in 1 .. N + 1 /\ seen[i] # N + 1
          BY <1>1, <1>14, <3>1, <3>2
        <4>2. \A x, m : m \in Nat /\ x \in 1 .. m + 1 /\ x # m + 1 => x \in 1 .. m
          OBVIOUS
        <4> QED
          BY <4>1, <4>2, Zenon
      <3>3. CASE n # N + 1
        <4>1. n \in 1 .. N
          BY <1>1, <1>14, <3>3
        <4> QED
          BY <1>1, <3>1, <4>1
      <3> QED
        BY <3>2, <3>3
    <2> QED
      BY <2>1
  <1>17. Heard' = Heard
    BY <1>6, <1>7, <1>16 DEF Heard
  <1>18. SeenIs(n, p)'
    BY <1>7, <1>15 DEF KeysAre, SeenIs
  <1>19. ASSUME ~ torn PROVE ParserIs(n, p)' /\ EventsMatch(Heard)'
    <2>1. ParserIs(n, p) /\ EventsMatch(Heard)
      BY <1>15, <1>19 DEF KeysAre
    <2>2. EventsMatch(Heard)'
      BY <1>7, <1>17, <2>1 DEF EventsMatch
    <2>3. CASE Midway(n, p)
      <3>1. p # 1
        BY <2>3 DEF Midway
      <3>2. n \in 1 .. N
        BY <1>1, <1>14, <3>1
      <3>3. typed'[n] = typed[n]
        BY <1>6, <3>2
      <3> QED
        BY <1>7, <2>1, <2>2, <2>3, <3>3 DEF ParserIs, Midway
    <2>4. CASE ~ Midway(n, p)
      BY <1>7, <2>1, <2>2, <2>4 DEF ParserIs, Midway
    <2> QED
      BY <2>3, <2>4
  <1>20. KeysAre(n, p)'
    BY <1>7, <1>18, <1>19 DEF KeysAre
  <1>21. q \in [1 .. Len(scan') -> Nat]
    BY <1>5, <1>10
  <1> QED
    BY <1>8, <1>13, <1>14, <1>20, <1>21 DEF KeysInv

\* Nothing has been typed and nothing heard.
LEMMA KeysInit == Init => KeysInv
  <1> SUFFICES ASSUME Init PROVE KeysInv
    OBVIOUS
  <1>1. /\ scan = <<>> /\ typed = <<>> /\ seen = <<>> /\ skipped = 0 /\ torn = FALSE
        /\ current_state = {} /\ prev = None /\ keystates = {} /\ events = <<>>
    BY DEF Init
  <1>2. Len(scan) = 0 /\ Len(typed) = 0 /\ Len(seen) = 0 /\ Len(events) = 0
    BY <1>1
  <1>3. KeyTypes
    BY <1>1 DEF KeyTypes
  <1> DEFINE pos == [i \in 1 .. 0 |-> 0]
  <1>4. pos \in [1 .. Len(scan) -> Nat] /\ ScanIs(pos)
    BY <1>2 DEF ScanIs
  <1>5. NextPress = 1 /\ NextPos(pos) = 1
    BY <1>1, <1>2 DEF NextPress, NextPos
  <1> HIDE DEF pos
  <1>6. SeenIs(1, 1)
    BY <1>1, <1>2 DEF SeenIs
  <1>7. ParserIs(1, 1)
    BY <1>1, <1>2 DEF ParserIs, Midway
  <1> PICK h : h = Heard
    OBVIOUS
  <1>8. h \in Seq(Presses) /\ Len(h) = 0
    BY <1>2, <1>3, HeardType
  <1>9. "LShift" \notin HeldAfter(SubSeq(h, 1, 0))
    <2> PICK a : a = SubSeq(h, 1, 0)
      OBVIOUS
    <2>1. Len(a) = 0
      <3>1. 1 \in 1 .. Len(h) + 1 /\ 1 - 1 = 0
        BY <1>8
      <3> QED
        BY <1>8, <3>1, FrontLemma
    <2> QED
      BY <2>1 DEF HeldAfter
  <1>10. EventsMatch(h)
    BY <1>1, <1>2, <1>8, <1>9 DEF EventsMatch
  <1> QED
    BY <1>3, <1>4, <1>5, <1>6, <1>7, <1>10 DEF KeysInv, KeysAre

\* Every step of the thread, the interrupt and the keyboard keeps it.
LEMMA KeysStep == TypeOK /\ TypeOK' /\ KeysInv /\ [Next]_vars => KeysInv'
  <1> SUFFICES ASSUME TypeOK, TypeOK', KeysInv, [Next]_vars PROVE KeysInv'
    OBVIOUS
  <1>1. ASSUME NEW i \in 1 .. Len(Commands), kbd_write(i) PROVE KeysInv'
    BY <1>1, KeysFrame DEF kbd_write, ringVars
  <1>2. CASE Activate
    BY <1>2, KeysFrame DEF Activate, ringVars
  <1>3. CASE Halt
    BY <1>3, KeysFrame DEF Halt, ringVars
  <1>4. CASE kbd_read
    BY <1>4, KeysFrame DEF kbd_read
  <1>5. CASE Ack
    BY <1>5, KeysFrame DEF Ack, ringVars
  <1>6. CASE Resend
    BY <1>6, KeysFrame DEF Resend, ringVars
  <1>7. ASSUME NEW a, Answer(a) PROVE KeysInv'
    BY <1>7, KeysFrame DEF Answer, ringVars
  <1>8. ASSUME NEW b \in Bytes,
               Ignored(b) \/ Prefix(b) \/ Digraph(b) \/ TopByte(b) \/ Keystroke(b)
        PROVE  KeysInv'
    <2>1. ReadScan(b)
      BY <1>8 DEF Ignored, Prefix, Digraph, TopByte, Keystroke
    <2>2. /\ scan # <<>> /\ scan' = Tail(scan) /\ typed' = typed
          /\ scan[1].b = b
      BY <2>1 DEF ReadScan
    <2>3. KeyTypes
      BY DEF KeysInv
    <2>4. PICK pos \in [1 .. Len(scan) -> Nat] :
            ScanIs(pos) /\ KeysAre(NextPress, NextPos(pos))
      BY DEF KeysInv
    <2> PICK n : n = scan[1].n
      OBVIOUS
    <2> PICK p : p = pos[1]
      OBVIOUS
    <2> PICK c : c = CodeOf(n)
      OBVIOUS
    <2>5. /\ n \in 1 .. Len(typed) /\ p \in 1 .. Len(c) /\ scan[1].b = c[p]
          /\ scan' \in Seq(Items)
          /\ \E q \in [1 .. Len(scan') -> Nat] :
               /\ ScanIs(q)'
               /\ IF p = Len(c) THEN NextPress' = n + 1 /\ NextPos(q)' = 1
                                ELSE NextPress' = n /\ NextPos(q)' = p + 1
      BY <2>2, <2>3, <2>4, ScanRead
    <2>6. PICK q \in [1 .. Len(scan') -> Nat] :
            /\ ScanIs(q)'
            /\ IF p = Len(c) THEN NextPress' = n + 1 /\ NextPos(q)' = 1
                             ELSE NextPress' = n /\ NextPos(q)' = p + 1
      BY <2>5
    <2>7. KeysAre(n, p)
      BY <2>2, <2>4 DEF NextPress, NextPos
    <2> PICK n2 : n2 = NextPress'
      OBVIOUS
    <2> PICK p2 : p2 = NextPos(q)'
      OBVIOUS
    <2>8. IF p = Len(c) THEN n2 = n + 1 /\ p2 = 1 ELSE n2 = n /\ p2 = p + 1
      BY <2>6
    <2>9. b = c[p]
      BY <2>2, <2>5
    <2>10. KeysAre(n2, p2)' /\ seen' \in Seq(Nat) /\ skipped' \in Nat
      <3>1. CASE Ignored(b)
        BY <2>2, <2>3, <2>5, <2>7, <2>8, <3>1, IgnoredStep
      <3>2. CASE Prefix(b) \/ Digraph(b) \/ TopByte(b)
        <4>1. KeysAre(n2, p2)' /\ seen' \in Seq(Nat)
          BY <2>2, <2>3, <2>5, <2>7, <2>8, <2>9, <3>2, OtherByteStep
        <4>2. active
          BY <3>2 DEF Prefix, Digraph, TopByte
        <4>3. skipped' = skipped
          BY <2>1, <4>2 DEF ReadScan
        <4> QED
          BY <2>3, <4>1, <4>3 DEF KeyTypes
      <3>3. CASE Keystroke(b)
        <4>1. KeysAre(n2, p2)' /\ seen' \in Seq(Nat)
          BY <2>2, <2>3, <2>5, <2>7, <2>8, <2>9, <3>3, KeystrokeStep
        <4>2. active
          BY <3>3 DEF Keystroke
        <4>3. skipped' = skipped
          BY <2>1, <4>2 DEF ReadScan
        <4> QED
          BY <2>3, <4>1, <4>3 DEF KeyTypes
      <3> QED
        BY <1>8, <3>1, <3>2, <3>3
    <2>11. KeyTypes'
      BY <2>2, <2>3, <2>5, <2>10 DEF KeyTypes
    <2> QED
      BY <2>6, <2>10, <2>11 DEF KeysInv
  <1>9. ASSUME NEW key \in Keys, NEW released \in BOOLEAN, Type(key, released)
        PROVE  KeysInv'
    BY <1>9, TypeKeyStep
  <1>10. CASE UNCHANGED vars
    BY <1>10, KeysFrame DEF vars, ringVars
  <1> QED
    BY <1>1, <1>2, <1>3, <1>4, <1>5, <1>6, <1>7, <1>8, <1>9, <1>10
    DEF Next, thread, kbd_isr, keyboard

\* What has been stored are then the keystrokes of the presses heard.
LEMMA KeysImply == TypeOK /\ KeysInv => KeystrokesFaithful
  <1> SUFFICES ASSUME TypeOK, KeysInv, ~ torn PROVE KeystrokesFaithful
    BY DEF KeystrokesFaithful
  <1>1. PICK pos \in [1 .. Len(scan) -> Nat] :
          ScanIs(pos) /\ KeysAre(NextPress, NextPos(pos))
    BY DEF KeysInv
  <1>2. ParserIs(NextPress, NextPos(pos)) /\ EventsMatch(Heard)
    BY <1>1 DEF KeysAre
  <1>3. scan = <<>> => Len(events) = Len(seen)
    BY <1>2 DEF NextPos, ParserIs, Midway
  <1>4. \A i \in 1 .. Len(events) :
          /\ events[i].code = Meaning(Heard[i].key)
          /\ ("Released" \in events[i].flags) = Heard[i].released
          /\ ("Shift" \in events[i].flags) =
               ("LShift" \in HeldAfter(SubSeq(Heard, 1, i)))
    BY <1>2 DEF EventsMatch
  <1> QED
    BY <1>3, <1>4 DEF KeystrokesFaithful

\* Every press and release whose code is not cut by the store to active becomes
\* one keystroke, with its key, its direction and the Shift state of that moment,
\* for any number of presses and whatever comes between the bytes.
THEOREM PressesBecomeKeystrokes == Spec => []KeystrokesFaithful
  <1>1. Init => TypeOK /\ KeysInv
    BY TypeInit, KeysInit
  <1>2. (TypeOK /\ KeysInv) /\ [Next]_vars => (TypeOK /\ KeysInv)'
    BY TypeStep, KeysStep
  <1>3. TypeOK /\ KeysInv => KeystrokesFaithful
    BY KeysImply
  <1> QED
    BY <1>1, <1>2, <1>3, PTL DEF Spec

=============================================================================
