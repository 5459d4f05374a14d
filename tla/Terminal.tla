------------------------------- MODULE Terminal -------------------------------
(***************************************************************************)
(* The text terminal of kernel/src/tty.c as operators on its state.  One   *)
(* operator stands for one control character or escape sequence, or for    *)
(* one printed character.  Colours, pixels and the drawn cursor are left   *)
(* out: a cell is the character it shows.                                  *)
(***************************************************************************)
EXTENDS Integers, Sequences, SequencesExt

CONSTANTS Width, Height   \* tty_width, tty_height

ASSUME SizeAssumption == Width \in Nat \ {0} /\ Height \in Nat \ {0}

Blank    == "blank"
Rows     == 0 .. Height - 1
Cols     == 0 .. Width - 1
BlankRow == [x \in Cols |-> Blank]

\* used[y]: the cells of row y that were written since the row was cleared.
Cleared == [cell |-> [y \in Rows |-> BlankRow], used |-> [y \in Rows |-> 0],
            row |-> 0, col |-> 0]

Larger(a, b) == IF a > b THEN a ELSE b

\* How many cells of row i a scroll replaces by those of the row below it.
CopiedCells_NextOnly(t, i) == IF i + 1 \in Rows THEN t.used[i + 1] ELSE 0
CopiedCells(t, i) ==
  Larger(t.used[i], IF i + 1 \in Rows THEN t.used[i + 1] ELSE 0)

\* Behind the last row lies a part of backbuf that nobody writes.
Below(t, i) == IF i + 1 \in Rows THEN t.cell[i + 1] ELSE BlankRow

Scroll(t) ==
  [t EXCEPT
     !.cell = [i \in Rows |-> [x \in Cols |->
                 IF x < CopiedCells(t, i) THEN Below(t, i)[x] ELSE t.cell[i][x]]],
     !.used = [i \in Rows |-> IF i + 1 \in Rows THEN t.used[i + 1] ELSE 0]]

NextRow(t) ==
  IF t.row = Height - 1 THEN [Scroll(t) EXCEPT !.col = 0]
                        ELSE [t EXCEPT !.row = @ + 1, !.col = 0]

Put(t, c) ==
  LET shown == [t EXCEPT !.cell[t.row][t.col] = c,
                         !.used[t.row] = Larger(@, t.col + 1)]
  IN  IF t.col + 1 = Width THEN NextRow(shown)
                           ELSE [shown EXCEPT !.col = @ + 1]

Write(t, s) ==
  LET written[n \in 0 .. Len(s)] == IF n = 0 THEN t ELSE Put(written[n - 1], s[n])
  IN  written[Len(s)]

Return(t) == [t EXCEPT !.col = 0]

\* ESC [ n C goes on in the rows below, ESC [ n D in those above.
Forward(t, n) ==
  LET down == (t.col + n) \div Width
  IN  IF t.row + down < Height
        THEN [t EXCEPT !.row = @ + down, !.col = (@ + n) % Width]
        ELSE [t EXCEPT !.row = Height - 1, !.col = Width - 1]

RowsUp_Truncated(t, n) == (n - t.col) \div Width
RowsUp(t, n) == IF n <= t.col THEN 0 ELSE (n - t.col + Width - 1) \div Width

\* In front of row 0 the column is computed from 0: it may be any number.
Backward(t, n) ==
  IF RowsUp(t, n) <= t.row
    THEN [t EXCEPT !.row = @ - RowsUp(t, n), !.col = @ - n + RowsUp(t, n) * Width]
    ELSE [t EXCEPT !.row = 0, !.col = (t.row + 1) * Width - n]

\* ESC [ F does not change the column; ESC [ K clears the whole row.
PreviousRow(t) == [t EXCEPT !.row = IF @ = 0 THEN 0 ELSE @ - 1]
ClearRow(t) == [t EXCEPT !.cell[t.row] = BlankRow, !.used[t.row] = 0]

=============================================================================
