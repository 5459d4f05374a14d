--------------------------------- MODULE Kbd ---------------------------------
(***************************************************************************)
(* The keyboard driver, kernel/src/kbd.c, with the loop of kmain that reads *)
(* it and the keyboard it talks to.                                        *)
(*                                                                         *)
(* Two contexts share the driver: the boot thread (kbd_init, then the loop *)
(* of kmain) and kbd_isr.  Every access to the shared state is made under  *)
(* kbd_lock with the interrupts off, so a call of kbd_write, kbd_read or   *)
(* kbd_isr is one step, and kbd_isr may come between any two steps of the  *)
(* thread.  The store to `active' at the end of kbd_init is a step too.    *)
(*                                                                         *)
(* The keyboard is external: it answers each command byte with FA or FE    *)
(* and sends the set 2 codes of the keys, both in any order.               *)
(***************************************************************************)
EXTENDS Integers, Sequences

CONSTANTS
  RingSize,     \* entries of rbuf: 256, the range of its uint8_t indices
  WbufSize,     \* entries of wbuf: 256, likewise
  Keys,         \* the keys somebody presses
  MaxTyped,     \* bound: presses and releases
  MaxNaks,      \* bound: command bytes the keyboard answers with FE
  MaxTimeouts   \* bound: sends for which the controller never gets ready

ASSUME BoundsAssumption ==
  /\ RingSize \in Nat \ {0}
  /\ WbufSize \in Nat /\ WbufSize > 3
  /\ MaxTyped \in Nat /\ MaxNaks \in Nat /\ MaxTimeouts \in Nat

\* The keys whose codes are modelled.
ASSUME KeysAssumption ==
  Keys \subseteq {"A", "LShift", "Unknown", "Home", "PrintScreen", "Pause"}

VARIABLES
  \* the keyboard and the controller
  line,          \* command bytes sent that the keyboard has not answered
  answers,       \* its answers that kbd_isr has not read
  scan,          \* scancode bytes not read yet; .n is the press they belong to
  typed,         \* history: every press and release
  naks, timeouts,
  accepted,      \* history: the command bytes answered with FA
  \* kbd.c: commands
  wbuf, wbuf_ridx, wbuf_widx, retry_cnt,
  \* kbd.c: scancodes
  active, current_state, prev, keystates, rbuf, rbuf_ridx, rbuf_widx,
  \* the boot thread
  pc,
  \* history
  events,        \* every keystroke stored in rbuf
  nread,         \* how many kbd_read returned
  lost,          \* how many were lost because rbuf_widx caught up
  seen,          \* the presses of which kbd_isr read a byte while active
  skipped,       \* the last press of which it read a byte while not active
  torn           \* some press is both

keyboardVars == <<line, answers, naks, timeouts, accepted>>
commandVars  == <<wbuf, wbuf_ridx, wbuf_widx, retry_cnt>>
parserVars   == <<current_state, prev, keystates>>
ringVars     == <<rbuf, rbuf_ridx, rbuf_widx, events, nread, lost>>
typingVars   == <<scan, typed, seen, skipped, torn>>
vars == <<keyboardVars, commandVars, parserVars, ringVars, typingVars,
          active, pc>>

None == "none"

IncR_NoWrap(i) == i + 1
IncR(i) == (i + 1) % RingSize
IncW(i) == (i + 1) % WbufSize

----------------------------------------------------------------------------
(* The keyboard *)

\* What a key sends when it goes down and when it goes up.
Code(key, released) ==
  LET plain(b) == IF released THEN <<"F0", b>> ELSE <<b>>
      ext(b)   == <<"E0">> \o plain(b)
  IN  CASE key = "A"           -> plain("1C")
        [] key = "LShift"      -> plain("12")
        [] key = "Unknown"     -> plain("02")
        [] key = "Home"        -> ext("6C")
        [] key = "PrintScreen" -> IF released THEN ext("7C") \o ext("12")
                                              ELSE ext("12") \o ext("7C")
        [] key = "Pause"       -> <<"E1">> \o plain("14") \o plain("77")

\* The keys that are down after the presses and releases of h.
HeldAfter(h) ==
  {h[i].key : i \in {i \in 1 .. Len(h) :
     /\ ~ h[i].released
     /\ \A j \in i + 1 .. Len(h) : h[j].key # h[i].key}}

\* A key goes down, repeats while it is down, or goes up.
Type(key, released) ==
  /\ Len(typed) < MaxTyped
  /\ released => key \in HeldAfter(typed)
  /\ typed' = Append(typed, [key |-> key, released |-> released])
  /\ LET code == Code(key, released)
     IN  scan' = scan \o [i \in 1 .. Len(code) |->
                            [b |-> code[i], n |-> Len(typed) + 1]]
  /\ UNCHANGED <<keyboardVars, commandVars, parserVars, ringVars,
                 seen, skipped, torn, active, pc>>

Answer(a) ==
  /\ line # <<>>
  /\ line' = Tail(line)
  /\ answers' = Append(answers, a)
  /\ IF a = "FA"
       THEN accepted' = Append(accepted, Head(line)) /\ UNCHANGED naks
       ELSE naks < MaxNaks /\ naks' = naks + 1 /\ UNCHANGED accepted
  /\ UNCHANGED <<timeouts, commandVars, parserVars, ringVars, typingVars,
                 active, pc>>

\* ps2_send_kbd waits for the controller and gives up after 10000 polls; no
\* caller looks at its result.
Send(bytes) ==
  \/ line' = line \o bytes /\ UNCHANGED timeouts
  \/ /\ bytes # <<>> /\ timeouts < MaxTimeouts
     /\ timeouts' = timeouts + 1
     /\ UNCHANGED line

----------------------------------------------------------------------------
(* kbd_isr *)

\* The interrupt ends a hlt.
Wake == pc' = IF pc = "asleep" THEN "drain" ELSE pc

SentOnAck_Always(ridx) == <<wbuf[ridx]>>
SentOnAck(ridx) == IF ridx # wbuf_widx THEN <<wbuf[ridx]>> ELSE <<>>

Ack ==
  /\ answers # <<>> /\ Head(answers) = "FA"
  /\ answers' = Tail(answers)
  /\ wbuf_ridx' = IncW(wbuf_ridx)
  /\ Send(SentOnAck(wbuf_ridx'))
  /\ Wake
  /\ UNCHANGED <<naks, accepted, wbuf, wbuf_widx, retry_cnt,
                 parserVars, ringVars, typingVars, active>>

CanRetry_Twice == retry_cnt < 2
CanRetry == retry_cnt < 3

Resend ==
  /\ answers # <<>> /\ Head(answers) = "FE"
  /\ answers' = Tail(answers)
  /\ IF CanRetry
       THEN /\ retry_cnt' = retry_cnt + 1
            /\ Send(<<wbuf[wbuf_ridx]>>)
       ELSE /\ retry_cnt' = 0
            /\ UNCHANGED <<line, timeouts>>
  /\ Wake
  /\ UNCHANGED <<naks, accepted, wbuf, wbuf_ridx, wbuf_widx,
                 parserVars, ringVars, typingVars, active>>

\* kbd_isr reads a scancode byte b; the history records whether active was set.
ReadScan(b) ==
  /\ scan # <<>> /\ Head(scan).b = b
  /\ scan' = Tail(scan)
  /\ LET n == Head(scan).n
     IN  IF active
           THEN /\ seen' = IF seen # <<>> /\ seen[Len(seen)] = n
                             THEN seen ELSE Append(seen, n)
                /\ torn' = (torn \/ n = skipped)
                /\ UNCHANGED skipped
           ELSE skipped' = n /\ UNCHANGED <<seen, torn>>
  /\ Wake
  /\ UNCHANGED <<keyboardVars, commandVars, typed, active>>

Bytes == {"E0", "E1", "F0", "02", "12", "14", "1C", "6C", "77", "7C"}

Ignored(b) ==
  /\ ~ active
  /\ ReadScan(b)
  /\ UNCHANGED <<parserVars, ringVars>>

PrefixState(b) ==
  CASE b = "E0" -> "EXTENDED" [] b = "F0" -> "BREAK" [] b = "E1" -> "TWOBYTE"

Prefix(b) ==
  /\ active
  /\ b \in {"E0", "F0", "E1"}
  /\ ReadScan(b)
  /\ current_state' = current_state \cup {PrefixState(b)}
  /\ UNCHANGED <<prev, keystates, ringVars>>

\* E0 12 and E0 7C open the code of PrintScreen.
OpensDigraph_Unguarded(b) == "EXTENDED" \in current_state /\ b \in {"12", "7C"}
OpensDigraph(b) ==
  /\ "EXTENDED" \in current_state
  /\ b \in {"12", "7C"}
  /\ "DIGRAPH" \notin current_state

Digraph(b) ==
  /\ active
  /\ OpensDigraph(b)
  /\ ReadScan(b)
  /\ current_state' = current_state \cup {"DIGRAPH"}
  /\ UNCHANGED <<prev, keystates, ringVars>>

FirstOfTwo(b) == "TWOBYTE" \in current_state /\ prev = None

TopByte(b) ==
  /\ active
  /\ b \notin {"E0", "F0", "E1"} /\ ~ OpensDigraph(b) /\ FirstOfTwo(b)
  /\ ReadScan(b)
  /\ prev' = b
  /\ UNCHANGED <<current_state, keystates, ringVars>>

normal_map == [b \in Bytes |->
  CASE b = "1C" -> "A" [] b = "12" -> "LShift" [] b = "14" -> "LCtrl"
    [] b = "77" -> "NumLock" [] b = "7C" -> "NumMultiply"
    [] OTHER -> "Invalid"]
extended_map == [b \in Bytes |->
  CASE b = "6C" -> "Home" [] b \in {"12", "7C"} -> "PrintScreen"
    [] b = "14" -> "RCtrl" [] b = "77" -> "Pause"
    [] OTHER -> "Invalid"]

KeyOf(b) == IF {"TWOBYTE", "EXTENDED"} \cap current_state # {}
              THEN extended_map[b] ELSE normal_map[b]

\* The flags of a keystroke; the codepoint follows from its code and Shift.
Flags(down) ==
  (IF "BREAK" \in current_state THEN {"Released"} ELSE {}) \cup
  (IF down \cap {"LCtrl", "RCtrl"} # {} THEN {"Control"} ELSE {}) \cup
  (IF down \cap {"LShift", "RShift"} # {} THEN {"Shift"} ELSE {})

\* rbuf[rbuf_widx++] = k.  An index that catches up with the other one makes
\* the full ring look empty.
StoreSlot_PreIncrement == IncR(rbuf_widx)
StoreSlot == rbuf_widx

Store(k) ==
  /\ rbuf' = [rbuf EXCEPT ![StoreSlot] = k]
  /\ rbuf_widx' = IncR(rbuf_widx)
  /\ events' = Append(events, k)
  /\ lost' = IF IncR(rbuf_widx) = rbuf_ridx THEN lost + RingSize ELSE lost
  /\ UNCHANGED <<rbuf_ridx, nread>>

Keystroke(b) ==
  /\ active
  /\ b \notin {"E0", "F0", "E1"} /\ ~ OpensDigraph(b) /\ ~ FirstOfTwo(b)
  /\ ReadScan(b)
  /\ keystates' = IF "BREAK" \in current_state THEN keystates \ {KeyOf(b)}
                                               ELSE keystates \cup {KeyOf(b)}
  /\ Store([code |-> KeyOf(b), flags |-> Flags(keystates')])
  /\ prev' = IF "TWOBYTE" \in current_state THEN None ELSE prev
  /\ current_state' = {}

kbd_isr ==
  \/ Ack
  \/ Resend
  \/ \E b \in Bytes : \/ Ignored(b) \/ Prefix(b) \/ Digraph(b)
                      \/ TopByte(b) \/ Keystroke(b)

----------------------------------------------------------------------------
(* The boot thread *)

Commands == <<"F0", "02", "F4">>  \* select scancode set 2, enable scanning
InitPc   == <<"write1", "write2", "write3", "activate">>

SentOnWrite_Always(c) == <<c>>
SentOnWrite(c) == IF wbuf_widx = wbuf_ridx THEN <<c>> ELSE <<>>

kbd_write(i) ==
  /\ pc = InitPc[i]
  /\ pc' = InitPc[i + 1]
  /\ wbuf' = [wbuf EXCEPT ![wbuf_widx] = Commands[i]]
  /\ wbuf_widx' = IncW(wbuf_widx)
  /\ Send(SentOnWrite(Commands[i]))
  /\ UNCHANGED <<answers, naks, accepted, wbuf_ridx, retry_cnt,
                 parserVars, ringVars, typingVars, active>>

Activate ==
  /\ pc = "activate"
  /\ active' = TRUE
  /\ pc' = "hlt"
  /\ UNCHANGED <<keyboardVars, commandVars, parserVars, ringVars, typingVars>>

Halt ==
  /\ pc = "hlt"
  /\ pc' = "asleep"
  /\ UNCHANGED <<keyboardVars, commandVars, parserVars, ringVars, typingVars,
                 active>>

IsEmpty_Early == rbuf_widx = IncR(rbuf_ridx) \/ rbuf_widx = rbuf_ridx
IsEmpty == rbuf_widx = rbuf_ridx

\* The slot kbd_read returns: rbuf[rbuf_ridx++].
ReadSlot_PreIncrement == IncR(rbuf_ridx)
ReadSlot == rbuf_ridx

\* kmain goes on reading until it is given Key_Invalid: there was no keystroke,
\* or the keystroke is of an unknown key.
kbd_read ==
  /\ pc = "drain"
  /\ IF IsEmpty
       THEN pc' = "hlt" /\ UNCHANGED <<rbuf_ridx, nread>>
       ELSE /\ rbuf_ridx' = IncR(rbuf_ridx)
            /\ nread' = nread + 1
            /\ pc' = IF rbuf[ReadSlot].code = "Invalid" THEN "hlt" ELSE "drain"
  /\ UNCHANGED <<keyboardVars, commandVars, parserVars, typingVars, active,
                 rbuf, rbuf_widx, events, lost>>

thread == (\E i \in 1 .. Len(Commands) : kbd_write(i))
            \/ Activate \/ Halt \/ kbd_read

keyboard == \E a \in {"FA", "FE"} : Answer(a)

----------------------------------------------------------------------------

Init ==
  /\ line = <<>> /\ answers = <<>> /\ naks = 0 /\ timeouts = 0
  /\ accepted = <<>>
  /\ scan = <<>> /\ typed = <<>> /\ seen = <<>> /\ skipped = 0 /\ torn = FALSE
  /\ wbuf = [i \in 0 .. WbufSize - 1 |-> None]
  /\ wbuf_ridx = 0 /\ wbuf_widx = 0 /\ retry_cnt = 0
  /\ active = FALSE
  /\ current_state = {} /\ prev = None /\ keystates = {}
  /\ rbuf = [i \in 0 .. RingSize - 1 |-> [code |-> "LCtrl", flags |-> {}]]
  /\ rbuf_ridx = 0 /\ rbuf_widx = 0
  /\ events = <<>> /\ nread = 0 /\ lost = 0
  /\ pc = "write1"

Next ==
  \/ thread
  \/ kbd_isr
  \/ keyboard
  \/ \E key \in Keys, released \in BOOLEAN : Type(key, released)

\* The processor runs the thread unless it is halted and delivers a pending
\* interrupt; the keyboard answers every command byte.
Fairness == WF_vars(thread) /\ WF_vars(kbd_isr) /\ WF_vars(keyboard)

Spec == Init /\ [][Next]_vars
FairSpec == Spec /\ Fairness

----------------------------------------------------------------------------
(* Properties *)

KeyCodes == {"Home", "PrintScreen", "Pause", "RCtrl", "A", "LShift", "LCtrl",
             "NumLock", "NumMultiply", "Invalid"}
Keystrokes == [code : KeyCodes, flags : SUBSET {"Released", "Control", "Shift"}]

\* Both indices stay inside their arrays, whose entries are keystrokes and
\* command bytes.
TypeOK ==
  /\ wbuf_ridx \in 0 .. WbufSize - 1 /\ wbuf_widx \in 0 .. WbufSize - 1
  /\ retry_cnt \in 0 .. 3
  /\ active \in BOOLEAN /\ torn \in BOOLEAN
  /\ prev \in Bytes \cup {None}
  /\ keystates \subseteq KeyCodes
  /\ rbuf \in [0 .. RingSize - 1 -> Keystrokes]
  /\ rbuf_ridx \in 0 .. RingSize - 1 /\ rbuf_widx \in 0 .. RingSize - 1
  /\ events \in Seq(Keystrokes)
  /\ nread \in Nat /\ lost \in Nat
  /\ pc \in {"write1", "write2", "write3", "activate", "hlt", "asleep", "drain"}

Unread == IF rbuf_ridx <= rbuf_widx THEN rbuf_widx - rbuf_ridx
                                    ELSE rbuf_widx - rbuf_ridx + RingSize
Slot(i) == IF i < RingSize THEN i ELSE i - RingSize

\* What kbd_read will return next, and next after that, are the oldest
\* keystrokes stored and not yet returned, in the order kbd_isr stored them,
\* however the two interleave; only a full turn of the ring loses any.
RingFaithful ==
  /\ Len(events) = nread + lost + Unread
  /\ \A i \in 0 .. Unread - 1 :
       rbuf[Slot(rbuf_ridx + i)] = events[nread + lost + i + 1]

\* Every keystroke that kbd_read returns is the one after the last it returned
\* or lost to a full turn of the ring: no keystroke is returned twice or late.
ReadsInOrder ==
  [][nread' # nread => rbuf[ReadSlot] = events[nread + lost + 1]]_vars

\* One command byte at most is on its way or unanswered, whatever the keyboard
\* refuses and whenever kbd_write comes: a second would overwrite it.
OneOutstanding == Len(line) + Len(answers) <= 1

\* The keyboard accepts the bytes of kbd_init in their order, none twice and
\* none left out, through any refusals, resends and failed sends; what kbd_isr
\* takes for accepted has been accepted.
CommandsInOrder ==
  /\ Len(accepted) <= Len(Commands)
  /\ \A i \in 1 .. Len(accepted) : accepted[i] = Commands[i]
  /\ Len(accepted) \in {wbuf_ridx, wbuf_ridx + 1}

Meaning(key) == IF key = "Unknown" THEN "Invalid" ELSE key
Heard == [i \in 1 .. Len(seen) |-> typed[seen[i]]]

\* Each press or release becomes exactly one keystroke, with its own key, its
\* direction and the Shift state of that moment, also when answers of the
\* keyboard arrive between the bytes of its code; provided that no code is cut
\* in two by the store to active.
KeystrokesFaithful ==
  ~ torn =>
    /\ scan = <<>> => Len(events) = Len(seen)
    /\ \A i \in 1 .. Len(events) :
         /\ events[i].code = Meaning(Heard[i].key)
         /\ ("Released" \in events[i].flags) = Heard[i].released
         /\ ("Shift" \in events[i].flags) =
              ("LShift" \in HeldAfter(SubSeq(Heard, 1, i)))

\* Every command byte is accepted in the end, unless the keyboard refuses more
\* than three in all or the controller once fails to take one.
AllAccepted == <>(accepted = Commands \/ naks > 3 \/ timeouts > 0)

\* Once the thread is awake it reads all that is stored, so that a keystroke
\* waits for one further interrupt at most; unless a code of no known key is
\* among them, which ends the loop early.
Drained ==
  (pc = "drain" /\ Unread > 0) ~>
    (Unread = 0 \/ \E i \in 1 .. Len(events) : events[i].code = "Invalid")

=============================================================================
