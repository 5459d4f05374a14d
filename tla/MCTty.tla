-------------------------------- MODULE MCTty --------------------------------
(***************************************************************************)
(* Tty for TLC: streams of up to three items on a screen of two rows.      *)
(***************************************************************************)
EXTENDS Tty

Char(c) == [kind |-> "char", c |-> c]
Move(args, c) == [kind |-> "move", c |-> c, args |-> args]
Colours(fg, bg) == [kind |-> "colours", fg |-> fg, bg |-> bg]

MCItems ==
  {Char("a"), Char("LF"), Char("BS"), Char("TAB"),
   Move(<<>>, "C"), Move(<<2>>, "D"), Move(<<1>>, "F"), Move(<<0>>, "G"), Move(<<>>, "K"),
   Move(<<2, 1>>, "E"), Colours(<<1>>, <<12>>)}

\* Parameters of colours that are themselves codes of colours.
MCColours == {Colours(<<38, 5, 4>>, <<200>>), Colours(<<31>>, <<2, 48, 5>>),
              Colours(White, Black)}

MCStreams ==
  {<<i, j, k>> : i \in {Char("a"), Colours(<<1>>, <<12>>)},
                 j, k \in MCItems}
    \cup {<<Colours(<<1>>, <<12>>), c>> : c \in MCColours}
    \cup {<<Char("CR"), c>> : c \in MCColours}

MCNotice == [i \in 1 .. 24 |-> "l"]
MCLastWords == <<"!">>

=============================================================================
