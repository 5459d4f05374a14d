---------------------------------- MODULE Tty ----------------------------------
(***************************************************************************)
(* The writing functions of kernel/src/tty.c over Terminal: control        *)
(* characters and escape sequences that arrive in one piece or in several, *)
(* tty_lock with its users on one processor (the thread, a handler that    *)
(* logs, _panic of kernel/src/panic.c), and the colours.                   *)
(*                                                                         *)
(* The terminal t is a record of Terminal with the two colours of          *)
(* tty_color, escapebuf_active and the first escapebuf_len characters of   *)
(* escapebuf.  A string ends where its sequence does.                      *)
(***************************************************************************)
EXTENDS Terminal

CONSTANTS
  TabWidth,   \* TAB_WIDTH
  EscapeBufSize,    \* sizeof(escapebuf)
  MaxArgs,    \* parameters of an escape sequence: 16
  Streams,    \* what the thread may write: sequences of items
  Notice,     \* what a handler logs: letters, at least EscapeBufSize of them
  LastWords,  \* what _panic prints behind the line break
  MaxLogs     \* bound: how often a handler logs

ASSUME TtyAssumption ==
  /\ TabWidth \in Nat \ {0} /\ EscapeBufSize \in Nat /\ MaxArgs \in Nat /\ MaxLogs \in Nat
  /\ Len(Notice) >= EscapeBufSize /\ LastWords # <<>>

----------------------------------------------------------------------------
(* Colours: an index of the palette or three components *)

Black == <<0>>
White == <<7>>
Foreground(t, c) == [t EXCEPT !.fg = c]
Background(t, c) == [t EXCEPT !.bg = c]

tty_init == Cleared @@
              [fg |-> White, bg |-> Black, active |-> FALSE, buf |-> <<>>]

\* 38 and 48 take the parameters behind them; missing ones are 0.
Skip == 5
Special(t, args, j, ground) ==
  LET Arg(i) == IF i <= Len(args) THEN args[i] ELSE 0
      Set(c) == [t EXCEPT ![ground] = c]
  IN  CASE Arg(j + 1) = 5 /\ Arg(j + 2) < 256 -> [t |-> Set(<<Arg(j + 2)>>), next |-> j + 3]
        [] Arg(j + 1) = 2 -> [t |-> Set(<<Arg(j + 2), Arg(j + 3), Arg(j + 4)>>),
                              next |-> j + Skip]
        [] OTHER -> [t |-> t, next |-> j + 2]

Rendition(t, args, j) ==
  LET n == args[j]
      Set(u) == [t |-> u, next |-> j + 1]
  IN  CASE n = 0           -> Set(Background(Foreground(t, White), Black))
        [] n \in 30 .. 37   -> Set(Foreground(t, <<n - 30>>))
        [] n \in 90 .. 97   -> Set(Foreground(t, <<n - 90 + 8>>))
        [] n = 38          -> Special(t, args, j, "fg")
        [] n = 39          -> Set(Foreground(t, White))
        [] n \in 40 .. 47   -> Set(Background(t, <<n - 40>>))
        [] n \in 100 .. 107 -> Set(Background(t, <<n - 100 + 8>>))
        [] n = 48          -> Special(t, args, j, "bg")
        [] n = 49          -> Set(Background(t, Black))
        [] OTHER           -> Set(t)

SelectRendition(t, args) ==
  FoldLeft(LAMBDA r, j : IF j < r.next THEN r ELSE Rendition(r.t, args, j),
           [t |-> t, next |-> 1], [j \in DOMAIN args |-> j]).t

----------------------------------------------------------------------------
(* Control characters and escape sequences *)

Tab_Stays(t) == [t EXCEPT !.col = @ + TabWidth - (@ % TabWidth)]
Tab(t) == LET col == t.col + TabWidth - (t.col % TabWidth)
          IN  IF col >= Width THEN NextRow(t) ELSE [t EXCEPT !.col = col]

Simple == {"LF", "BS", "TAB", "CR"}
Control(t, c) ==
  CASE c = "LF"  -> NextRow(t)
    [] c = "BS"  -> [t EXCEPT !.col = IF @ = 0 THEN 0 ELSE @ - 1]
    [] c = "TAB" -> Tab(t)
    [] c = "CR"  -> Return(t)

RowsDown(t, n) == [t EXCEPT !.row = IF @ + n >= Height THEN Height - 1 ELSE @ + n]
Upwards(t, n)  == [t EXCEPT !.row = IF @ < n THEN 0 ELSE @ - n]

\* Column 0 is in front of the first: as an unsigned number it is behind the
\* last.
Column(t, n) == [t EXCEPT !.col = IF n \in 1 .. Width THEN n - 1 ELSE Width - 1]

Command(t, cmd, args) ==
  LET num == IF args = <<>> THEN 1 ELSE args[1]
  IN  CASE cmd = "C" -> Forward(t, num)
        [] cmd = "D" -> Backward(t, num)
        [] cmd = "E" -> RowsDown(t, num)
        [] cmd = "F" -> Upwards(t, num)
        [] cmd = "G" -> Column(t, num)
        [] cmd = "K" -> ClearRow(t)
        [] cmd = "m" -> SelectRendition(t, args)
        [] OTHER     -> t

DigitChars == <<"0", "1", "2", "3", "4", "5", "6", "7", "8", "9">>
ValueOf(c) == (CHOOSE i \in DOMAIN DigitChars : DigitChars[i] = c) - 1
ArgChars == Range(DigitChars) \cup {";"}

\* A semicolon in front of the first digit does not make an empty parameter.
AddArg(args, c) ==
  IF c = ";" THEN Append(args, 0)
  ELSE IF args = <<>> THEN <<ValueOf(c)>>
  ELSE [args EXCEPT ![Len(args)] = @ * 10 + ValueOf(c)]

\* The terminal and the number of characters read from behind an ESC.
\* Unfinished sequences are kept in escapebuf, where the later characters of
\* what is already there come by themselves.
Kept_Rest(s) == Tail(s)
Kept(s) == s
parseescape(t, s) ==
  LET ends == {i \in 2 .. Len(s) : s[i] \notin ArgChars}
      end  == Min(ends)
      args == FoldLeft(AddArg, <<>>, SubSeq(s, 2, IF ends = {} THEN Len(s) ELSE end - 1))
  IN  IF s = <<>> THEN [t |-> [t EXCEPT !.active = TRUE], n |-> 0]
      ELSE IF s[1] # "[" \/ Len(args) > MaxArgs THEN [t |-> t, n |-> 0]
      ELSE IF ends # {}
        THEN [t |-> [Command(t, s[end], args) EXCEPT !.active = FALSE, !.buf = <<>>], n |-> end]
      ELSE IF t.active THEN [t |-> t, n |-> 0]
      ELSE [t |-> [t EXCEPT !.active = TRUE, !.buf = Kept(s)], n |-> Len(s)]

\* Control characters up to the first other one or to the end of an escape
\* sequence.
parsecontrol(t, s) ==
  LET others == {i \in DOMAIN s : s[i] \notin Simple}
      k      == IF others = {} THEN Len(s) + 1 ELSE Min(others)
      u      == FoldLeft(Control, t, SubSeq(s, 1, k - 1))
      esc    == parseescape(u, SubSeq(s, k + 1, Len(s)))
  IN  IF others # {} /\ s[k] = "ESC" THEN [t |-> esc.t, n |-> k + esc.n]
      ELSE [t |-> u, n |-> IF others = {} THEN k ELSE k - 1]

\* What a full escapebuf is shown as: it holds no ESC here, as Notice, which
\* fills it, has none.
Flushed(t) ==
  FoldLeft(LAMBDA u, c : IF c \in Simple THEN Control(u, c) ELSE Put(u, c),
           [t EXCEPT !.active = FALSE, !.buf = <<>>], t.buf)

tty_putchar_locked(t, c) ==
  IF t.active
    THEN IF Len(t.buf) < EscapeBufSize - 1
           THEN parseescape([t EXCEPT !.buf = Append(@, c)], Append(t.buf, c)).t
           ELSE Flushed(t)
    ELSE LET r == parsecontrol(t, <<c>>)
         IN  IF r.n # 0 THEN r.t ELSE Put(t, c)

tty_write_locked(t, s) ==
  FoldLeft(
    LAMBDA r, i :
      IF i < r.next THEN r
      ELSE IF r.t.active THEN [t |-> tty_putchar_locked(r.t, s[i]), next |-> i + 1]
      ELSE LET p == parsecontrol(r.t, SubSeq(s, i, Len(s)))
               k == i + p.n
           IN  [t |-> IF k <= Len(s) THEN tty_putchar_locked(p.t, s[k]) ELSE p.t,
                next |-> k + 1],
    [t |-> t, next |-> 1], [i \in DOMAIN s |-> i]).t

----------------------------------------------------------------------------
(* Items: what clients write, its characters and its meaning *)

Digits(n) == (IF n > 99 THEN <<DigitChars[n \div 100 + 1]>> ELSE <<>>)
               \o (IF n > 9 THEN <<DigitChars[((n \div 10) % 10) + 1]>> ELSE <<>>)
               \o <<DigitChars[(n % 10) + 1]>>

Sequence(args, cmd) ==
  <<"ESC", "[">>
    \o FlattenSeq([i \in DOMAIN args |-> IF i = 1 THEN Digits(args[i]) ELSE <<";">> \o Digits(args[i])])
    \o <<cmd>>

\* A colour as ECMA-48 has it: base 30 for the foreground, 40 for the
\* background.
ColourArgs(base, c) ==
  IF Len(c) = 3 THEN <<base + 8, 2>> \o c
  ELSE IF c[1] < 8 THEN <<base + c[1]>>
  ELSE IF c[1] < 16 THEN <<base + 60 + c[1] - 8>>
  ELSE <<base + 8, 5, c[1]>>

CharsOf(item) ==
  CASE item.kind = "char"    -> <<item.c>>
    [] item.kind = "move"    -> Sequence(item.args, item.c)
    [] item.kind = "colours" -> Sequence(ColourArgs(30, item.fg) \o ColourArgs(40, item.bg), "m")

Meaning(t, item) ==
  CASE item.kind = "char"    -> IF item.c \in Simple THEN Control(t, item.c) ELSE Put(t, item.c)
    [] item.kind = "move"    -> Command(t, item.c, item.args)
    [] item.kind = "colours" -> Background(Foreground(t, item.fg), item.bg)

StreamText == [items \in Streams |-> FlattenSeq([i \in DOMAIN items |-> CharsOf(items[i])])]

\* Where the items of a stream end, and how many of them are complete in its
\* first k characters.
Ends == [items \in Streams |->
           [i \in DOMAIN items |->
              Len(FlattenSeq([j \in 1 .. i |-> CharsOf(items[j])]))]]
Complete(items, k) == Cardinality({i \in DOMAIN items : Ends[items][i] <= k})

----------------------------------------------------------------------------

VARIABLES
  tty,        \* the terminal
  lock,       \* tty_lock is taken
  irq,        \* the interrupts are on
  running,    \* what runs: "thread", its critical section, "handler", "panic"...
  stream, pos,  \* what the thread writes, and the characters it has written
  piece,      \* how the thread writes at the moment
  logs,       \* how often a handler has logged
  meant,      \* history: the terminal after all complete items
  torn        \* history: a handler logged inside an escape sequence

ttyVars == <<tty, lock, irq, running, stream, pos, piece, logs, meant, torn>>

TtyInit ==
  /\ stream \in Streams /\ pos = 0 /\ piece = <<>>
  /\ tty = tty_init /\ meant = tty_init /\ torn = FALSE
  /\ lock = FALSE /\ irq = TRUE /\ running = "thread" /\ logs = 0

\* A call takes the lock with the interrupts off: tty_putchar one character,
\* tty_puts a string of any length.
SavedIrq == FALSE
Call(how, n) ==
  /\ running = "thread" /\ ~ lock /\ pos + n <= Len(StreamText[stream])
  /\ lock' = TRUE /\ irq' = SavedIrq
  /\ piece' = <<how, SubSeq(StreamText[stream], pos + 1, pos + n)>>
  /\ running' = "writing"
  /\ UNCHANGED <<tty, stream, pos, logs, meant, torn>>

tty_putchar == Call("putchar", 1)
tty_puts == \E n \in 1 .. Len(StreamText[stream]) - pos : Call("puts", n)

Written == IF piece[1] = "putchar" THEN tty_putchar_locked(tty, piece[2][1])
                                   ELSE tty_write_locked(tty, piece[2])

Finish ==
  /\ running = "writing"
  /\ tty' = Written
  /\ pos' = pos + Len(piece[2])
  /\ meant' = FoldLeft(Meaning, meant, SubSeq(stream, Complete(stream, pos) + 1,
                                              Complete(stream, pos')))
  /\ lock' = FALSE /\ irq' = TRUE /\ running' = "thread" /\ piece' = <<>>
  /\ UNCHANGED <<stream, logs, torn>>

\* A handler interrupts what runs with the interrupts on, and logs: kbd_isr
\* when the keyboard refuses a byte.
Interrupt ==
  /\ irq /\ running \in {"thread", "writing"} /\ logs < MaxLogs
  /\ running' = IF running = "thread" THEN "handler" ELSE "handler inside"
  /\ irq' = FALSE
  /\ UNCHANGED <<tty, lock, stream, pos, piece, logs, meant, torn>>

Log ==
  /\ running \in {"handler", "handler inside"} /\ ~ lock
  /\ tty' = tty_write_locked(tty, Notice)
  /\ meant' = FoldLeft(Put, meant, Notice)
  /\ torn' = (torn \/ tty.active)
  /\ logs' = logs + 1
  /\ irq' = TRUE /\ running' = IF running = "handler" THEN "thread" ELSE "writing"
  /\ UNCHANGED <<lock, stream, pos, piece>>

\* An exception that ends in a panic comes between two calls or within one,
\* the piece then being written or not.
Fault ==
  /\ running \in {"thread", "writing"}
  /\ tty' \in {tty, IF running = "writing" THEN Written ELSE tty}
  /\ running' = "panic" /\ irq' = FALSE
  /\ UNCHANGED <<lock, stream, pos, piece, logs, meant, torn>>

tty_panic_unlock_Not == lock
tty_panic_unlock == FALSE
PanicUnlocks ==
  /\ running = "panic"
  /\ lock' = tty_panic_unlock
  /\ running' = "panic prints"
  /\ UNCHANGED <<tty, irq, stream, pos, piece, logs, meant, torn>>

BreakFirst_Not(t) == t
BreakFirst(t) == tty_putchar_locked(t, "LF")
PanicPrints ==
  /\ running = "panic prints" /\ ~ lock
  /\ tty' = tty_write_locked(BreakFirst(tty), LastWords)
  /\ running' = "halted"
  /\ UNCHANGED <<lock, irq, stream, pos, piece, logs, meant, torn>>

\* hcf after a panic; the thread with nothing to write does something else.
Rest ==
  /\ running = "halted" \/ (running = "thread" /\ pos = Len(StreamText[stream]))
  /\ UNCHANGED ttyVars

TtyNext ==
  tty_putchar \/ tty_puts \/ Finish \/ Interrupt \/ Log \/ Fault \/ PanicUnlocks
    \/ PanicPrints \/ Rest

TtySpec == TtyInit /\ [][TtyNext]_ttyVars

----------------------------------------------------------------------------
(* Properties *)

TtyTypeOK ==
  /\ tty.row \in Rows /\ tty.col \in Cols
  /\ \A y \in Rows : DOMAIN tty.cell[y] = Cols /\ tty.used[y] \in 0 .. Width
  /\ Len(tty.buf) < EscapeBufSize
  /\ pos \in 0 .. Len(StreamText[stream]) /\ logs \in 0 .. MaxLogs

Halting == {"panic", "panic prints", "halted"}
InsideItem == pos \notin {0} \cup Range(Ends[stream])

\* However the text of the items is cut into calls of tty_putchar and tty_puts,
\* the screen, the cursor and the colours are those of the items that are
\* complete, and the parser waits exactly inside one; unless a handler has
\* logged inside a sequence.  Even then the parser is back at the next item.
ParserFaithful ==
  running \notin Halting =>
    /\ tty.active => InsideItem
    /\ ~ torn => /\ [tty EXCEPT !.active = FALSE, !.buf = <<>>] = meant
                 /\ tty.active <=> InsideItem

\* Nobody waits for tty_lock in vain: on the one processor a handler or a panic
\* that wants to print cannot have interrupted a call that holds it, or has
\* broken the lock.
NeverStuck == running \in {"handler", "handler inside", "panic prints"} => ~ lock

\* A panic is shown: wherever the exception came, within an escape sequence
\* too, the message appears as text, unless the last character before was a
\* lone ESC, which swallows it.
Readable(t) == ~ t.active \/ (t.buf # <<>> /\ t.buf[1] = "[")
Shown(t) == \E y \in Rows, x \in Cols : t.cell[y][x] = LastWords[Len(LastWords)]
PanicShown == [][running' = "halted" /\ running # "halted" /\ Readable(tty) => Shown(tty')]_ttyVars

=============================================================================
