------------------------------- MODULE MCPrintf -------------------------------
(***************************************************************************)
(* Printf for TLC: all flags with some widths and precisions, all lengths, *)
(* and the directives that vprintf refuses.                                *)
(***************************************************************************)
EXTENDS Printf

Plain(n) == {[star |-> FALSE, value |-> n]}
Star(n)  == {[star |-> TRUE, value |-> n]}

Numbers == {"d", "i", "u", "o", "x", "X", "p"}

ByFlags(types, values) ==
  [flags : SUBSET {"0", "-", "+", " ", "#"},
   width : {{}, Plain(6), Star(5), Star(-3)},
   precision : {{}, Plain(0), Plain(3), Star(-1)},
   length : {<<>>}, type : types, value : values]

ByLength ==
  [flags : {{}, {"0"}, {"+"}}, width : {{}, Plain(8)}, precision : {{}, Star(4)},
   length : {<<"h">>, <<"h", "h">>, <<"l">>, <<"l", "l">>, <<"j">>, <<"z">>, <<"t">>, <<"L">>},
   type : Numbers,
   value : {0, 7, 8, 31, 32, 127, 128, 255, 2047, 2048, 3000, 4095}]

MCCalls ==
  ByFlags(Numbers, {0, 5, 243}) \cup ByFlags({"c", "s", "%"}, {0, 2, 8}) \cup ByLength

MCBroken ==
  {<<"%">>, <<"%", "-", "7">>, <<"%", "f">>, <<"%", ".", ".", "d">>, <<"%", "h", "h", "h", "d">>, <<"%", "l", "l", "l", "d">>,
   <<"%", "h", "l", "d">>, <<"%", "j", "z", "d">>, <<"%", "6", "-", "z", "L">>}

=============================================================================
