------------------------------- MODULE LineEdit -------------------------------
(***************************************************************************)
(* What the line editor of the shell promises its user: characters are     *)
(* inserted at the cursor and removed in front of it, the cursor moves in  *)
(* the line, and a recalled line replaces the whole line.                  *)
(***************************************************************************)
EXTENDS Integers, Sequences, SequencesExt

CONSTANT Characters
VARIABLES line, cursor   \* the text; how many of its characters are in front
                         \* of the cursor

Init == line = <<>> /\ cursor = 0

Insert == \E c \in Characters :
  line' = InsertAt(line, cursor + 1, c) /\ cursor' = cursor + 1

Erase == cursor > 0 /\ line' = RemoveAt(line, cursor) /\ cursor' = cursor - 1

Move == line' = line /\ cursor' \in {cursor - 1, cursor + 1} \cap 0 .. Len(line)

Replace == line' \in Seq(Characters) /\ cursor' = Len(line')

Next == Insert \/ Erase \/ Move \/ Replace

Spec == Init /\ [][Next]_<<line, cursor>>

=============================================================================
