-------------------------------- MODULE Shell --------------------------------
(***************************************************************************)
(* The shell of kernel/src/main.c: the line editor, the history and the    *)
(* evaluation of a line, with what they draw on the terminal.              *)
(*                                                                         *)
(* kmain takes one keystroke at a time from kbd_read (module Kbd) and      *)
(* handles it to the end, so each case of its switch is one step.  The     *)
(* arrays are C arrays: buf is not terminated while it is edited, and what *)
(* lies behind buflen is left over from earlier lines.                     *)
(***************************************************************************)
EXTENDS Terminal

CONSTANTS
  HistSize,   \* HIST_SIZE: 64 rows, the last for the line being edited
  BufSize,    \* bytes of buf and of a row of history: 1024
  PromptLen,  \* promptlen: 13
  Chars,      \* the characters somebody types, Space among them
  ClearWord,  \* "clear", in these characters
  MaxLine,    \* bound: longest line (the code has none)
  MaxKeys     \* bound: keystrokes

Space  == "space"
Nul    == "nul"
Prompt == "$"
Output == "o"

\* The terminal holds the prompt and the longest line.
ASSUME ShellAssumption ==
  /\ HistSize \in Nat /\ HistSize >= 2
  /\ BufSize \in Nat /\ MaxLine \in Nat /\ MaxLine < BufSize
  /\ PromptLen \in Nat \ {0} /\ MaxKeys \in Nat
  /\ Chars \cap {Nul, Prompt, Output, Blank} = {}
  /\ ClearWord \in Seq(Chars)
  /\ PromptLen + MaxLine < Width * Height

VARIABLES
  buf, buflen, bufpos,
  history, history_cnt, history_idx,
  term,       \* what the terminal shows (module Terminal)
  executed,   \* history: the line eval was last given
  keys        \* history: keystrokes so far

vars == <<buf, buflen, bufpos, history, history_cnt, history_idx, term,
          executed, keys>>

historyVars == <<history, history_cnt, history_idx>>

Array == [0 .. BufSize - 1 -> Chars \cup {Nul}]

\* strlen, the string at the start of an array, and strcpy and memcpy into one.
strlen(a) == CHOOSE n \in 0 .. BufSize - 1 :
               a[n] = Nul /\ \A i \in 0 .. n - 1 : a[i] # Nul
Prefix(a, n) == [i \in 1 .. n |-> a[i - 1]]
String(a) == Prefix(a, strlen(a))
memcpy(dst, src, n) ==
  [i \in 0 .. BufSize - 1 |-> IF i < n THEN src[i] ELSE dst[i]]
strcpy(dst, src) == memcpy(dst, src, strlen(src) + 1)

Text == Prefix(buf, buflen)

Prompted(t) == Write(t, [i \in 1 .. PromptLen |-> Prompt])

Key == keys < MaxKeys /\ keys' = keys + 1

----------------------------------------------------------------------------
(* Editing *)

Inserted(c) ==
  [i \in 0 .. BufSize - 1 |-> IF i = bufpos THEN c
                              ELSE IF bufpos < i /\ i <= buflen THEN buf[i - 1]
                              ELSE buf[i]]

Type(c) ==
  /\ Key
  /\ buflen < MaxLine
  /\ buf' = Inserted(c)
  /\ bufpos' = bufpos + 1
  /\ buflen' = buflen + 1
  /\ LET rest == SubSeq(Prefix(buf', buflen'), bufpos' + 1, buflen')
     IN  term' = IF bufpos < buflen
                   THEN Backward(Write(Put(term, c), rest), buflen' - bufpos')
                   ELSE Put(term, c)
  /\ UNCHANGED <<historyVars, executed>>

\* clearline: from the end of the input upwards, one row for each full width.
ClearedRows(len) == (len + PromptLen + 1) \div Width

clearline(t, len, pos) ==
  LET cleared[i \in 0 .. ClearedRows(len)] ==
        IF i = 0 THEN ClearRow(Return(Forward(t, len - pos)))
                 ELSE ClearRow(PreviousRow(cleared[i - 1]))
  IN  cleared[ClearedRows(len)]

\* memcpy from bufpos to bufpos - 1.
Erased_Short ==
  [i \in 0 .. BufSize - 1 |->
    IF bufpos - 1 <= i /\ i < buflen - 2 THEN buf[i + 1] ELSE buf[i]]
Erased ==
  [i \in 0 .. BufSize - 1 |->
    IF bufpos - 1 <= i /\ i < buflen - 1 THEN buf[i + 1] ELSE buf[i]]

Backspace ==
  /\ Key
  /\ bufpos > 0
  /\ buf' = Erased
  /\ bufpos' = bufpos - 1
  /\ buflen' = buflen - 1
  /\ LET cleared == clearline(term, buflen', bufpos')
         redrawn == Write(Prompted(cleared), Prefix(buf', buflen'))
     IN  term' = Backward(redrawn, buflen' - bufpos')
  /\ UNCHANGED <<historyVars, executed>>

Left ==
  /\ Key
  /\ bufpos > 0
  /\ bufpos' = bufpos - 1
  /\ term' = Backward(term, 1)
  /\ UNCHANGED <<buf, buflen, historyVars, executed>>

Right ==
  /\ Key
  /\ bufpos # buflen
  /\ bufpos' = bufpos + 1
  /\ term' = Forward(term, 1)
  /\ UNCHANGED <<buf, buflen, historyVars, executed>>

----------------------------------------------------------------------------
(* Enter *)

ToBeStored ==
  /\ buf[0] # Nul
  /\ \/ history_cnt = 0
     \/ history_idx # history_cnt - 1
     \/ String(history[history_cnt - 1]) # String(buf)

\* A full history loses its oldest row; there buf is copied up to the next NUL,
\* wherever that is.
Stored ==
  IF history_cnt < HistSize - 1
    THEN LET line == [buf EXCEPT ![buflen] = Nul]
         IN  [buf |-> line, cnt |-> history_cnt + 1,
              rows |-> [history EXCEPT ![history_cnt] = strcpy(@, line)]]
    ELSE [buf |-> buf, cnt |-> history_cnt,
          rows |-> [r \in 0 .. HistSize - 1 |->
                      IF r < HistSize - 2 THEN history[r + 1]
                      ELSE IF r = HistSize - 2 THEN strcpy(history[r], buf)
                      ELSE history[r]]]

AfterStore ==
  IF ToBeStored THEN Stored
                ELSE [buf |-> buf, cnt |-> history_cnt, rows |-> history]

\* eval ends the line at buflen and cuts it at its first space.
Terminated_Not(b) == b
Terminated(b) == [b EXCEPT ![buflen] = Nul]
CutAtSpace(b) ==
  LET spaces == {i \in 0 .. strlen(b) - 1 : b[i] = Space}
  IN  [i \in 0 .. BufSize - 1 |->
         IF i \in spaces /\ \A j \in spaces : i <= j THEN Nul ELSE b[i]]

\* The row behind the stored ones is overwritten too.
Scratch(s) ==
  IF history_idx # s.cnt - 1
    THEN [s.rows EXCEPT ![s.cnt] = strcpy(@, s.buf)] ELSE s.rows

\* "clear" clears the terminal; what any other command prints is one row here.
EvalOutput(t, cmd) == IF cmd = ClearWord THEN Cleared ELSE NextRow(Put(t, Output))

Enter ==
  /\ Key
  /\ LET s    == AfterStore
         line == NextRow(Forward(term, buflen - bufpos))
     IN  /\ history_cnt' = s.cnt
         /\ history_idx' = -1
         /\ IF buflen = 0
              THEN /\ buf' = s.buf
                   /\ history' = [s.rows EXCEPT ![s.cnt][0] = Nul]
                   /\ term' = Prompted(line)
                   /\ UNCHANGED executed
              ELSE /\ buf' = CutAtSpace(Terminated(s.buf))
                   /\ history' = [Scratch(s) EXCEPT ![s.cnt][0] = Nul]
                   /\ term' = Prompted(EvalOutput(line, String(buf')))
                   /\ executed' = String(Terminated(s.buf))
  /\ bufpos' = 0
  /\ buflen' = 0

----------------------------------------------------------------------------
(* Up and Down *)

Recall(rows, idx) ==
  LET n == strlen(rows[idx])
  IN  /\ buflen' = n
      /\ bufpos' = n
      /\ buf' = memcpy(buf, rows[idx], n)
      /\ term' = Write(Prompted(clearline(term, buflen, bufpos)),
                       String(rows[idx]))

Up ==
  /\ Key
  /\ history_cnt > 0
  /\ IF history_idx = -1
       THEN /\ history' = [history EXCEPT ![history_cnt] = memcpy(@, buf, buflen)]
            /\ history_idx' = history_cnt - 1
       ELSE /\ history_idx' = IF history_idx > 0 THEN history_idx - 1 ELSE 0
            /\ UNCHANGED history
  /\ Recall(history', history_idx')
  /\ UNCHANGED <<history_cnt, executed>>

Down ==
  /\ Key
  /\ history_cnt > 0 /\ history_idx # -1
  /\ history_idx' = IF history_idx = history_cnt - 1 THEN -1 ELSE history_idx + 1
  /\ Recall(history, history_idx + 1)
  /\ UNCHANGED <<history, history_cnt, executed>>

----------------------------------------------------------------------------

Zeroed == [i \in 0 .. BufSize - 1 |-> Nul]

Init ==
  /\ buf = Zeroed /\ buflen = 0 /\ bufpos = 0
  /\ history = [r \in 0 .. HistSize - 1 |-> Zeroed]
  /\ history_cnt = 0 /\ history_idx = -1
  /\ term = Prompted(NextRow(Cleared))
  /\ executed = <<>> /\ keys = 0

Next ==
  \/ \E c \in Chars : Type(c)
  \/ Backspace \/ Left \/ Right \/ Enter \/ Up \/ Down

Spec == Init /\ [][Next]_vars

----------------------------------------------------------------------------
(* Properties *)

\* The arrays hold what they are declared for, the line consists of characters,
\* the cursor stays in the line and every index in its array.
LineOK ==
  /\ buf \in Array /\ history \in [0 .. HistSize - 1 -> Array]
  /\ buflen \in 0 .. MaxLine /\ bufpos \in 0 .. buflen
  /\ Text \in Seq(Chars) /\ executed \in Seq(Chars)
  /\ history_cnt \in 0 .. HistSize - 1 /\ history_idx \in -1 .. history_cnt - 1
  /\ keys \in 0 .. MaxKeys

\* LineOK, and the terminal's cursor stays on the terminal.
TypeOK == LineOK /\ term.row \in Rows /\ term.col \in Cols

\* Where the terminal shows the k-th character after the start of row r, and
\* what it shows there.
CellAt(r, k) == term.cell[r + k \div Width][k % Width]

\* After any keys, however the line wraps and the screen scrolls, the terminal
\* shows the prompt and exactly the characters of the line, nothing behind them,
\* and its cursor is at bufpos.
ScreenFaithful ==
  \E r \in Rows :
    LET room  == (Height - r) * Width
        shown == [i \in 1 .. PromptLen |-> Prompt] \o Text
    IN  /\ r * Width + PromptLen + bufpos = term.row * Width + term.col
        /\ Len(shown) < room
        /\ \A k \in 0 .. room - 1 :
             CellAt(r, k) = IF k < Len(shown) THEN shown[k + 1] ELSE Blank

\* The line that Enter executes is the line being edited, whatever buf contains
\* behind it.
ExecutesLine ==
  [][Enter /\ buflen > 0 => executed' = Text]_vars

\* Through insertions and deletions in the middle of a line and recalled lines
\* of other lengths, the buffer is a line editor.
Editor == INSTANCE LineEdit WITH Characters <- Chars, line <- Text,
                                 cursor <- bufpos
ImplementsLineEdit == Editor!Spec

=============================================================================
