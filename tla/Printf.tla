--------------------------------- MODULE Printf ---------------------------------
(***************************************************************************)
(* vprintf of libc/stdio/printf.c as it is built into the kernel: one      *)
(* action for each iteration of its loop, which prints a character or      *)
(* carries out a directive.                                                *)
(*                                                                         *)
(* An argument is the number in its slot, of the width of a long; a string *)
(* argument is the length of the string, whose characters are all Letter.  *)
(* The widths of the types are scaled down, and with them the 16 digits of *)
(* a pointer.                                                              *)
(***************************************************************************)
EXTENDS Integers, Sequences, SequencesExt

CONSTANTS
  CharBits, ShortBits, IntBits, LongBits,  \* widths of the types
  Calls,     \* what callers mean to print: records, see Format
  Broken,    \* directives that vprintf refuses: sequences of characters
  Leftover   \* what an unset variable may hold

ASSUME PrintfAssumption ==
  /\ {CharBits, ShortBits, IntBits, LongBits} \subseteq Nat \ {0}
  /\ LongBits % 4 = 0 /\ Leftover # {}

Letter == "s"
Digit == <<"0", "1", "2", "3", "4", "5", "6", "7", "8", "9">>
Low   == Digit \o <<"a", "b", "c", "d", "e", "f">>
High  == Digit \o <<"A", "B", "C", "D", "E", "F">>
DigitValue(c) == (CHOOSE i \in DOMAIN Digit : Digit[i] = c) - 1

Rep(c, n) == [i \in 1 .. n |-> c]
Larger(a, b) == IF a > b THEN a ELSE b
Signed(x, bits) == LET m == x % 2^bits IN IF m >= 2^(bits - 1) THEN m - 2^bits ELSE m

----------------------------------------------------------------------------
(* Parsing a directive *)

Started(a) ==
  [left |-> FALSE, sign |-> FALSE, space |-> FALSE, hash |-> FALSE, pad |-> " ",
   width |-> 0, precision |-> -1, dot |-> FALSE, length |-> "", type |-> "",
   bad |-> FALSE, args |-> a, n |-> 0]

\* The first 0 is a flag unless it stands in a number.
IsPad(d) == d.width = 0 /\ ~ d.dot /\ d.pad = " "

Number(d, v) == IF d.dot THEN [d EXCEPT !.precision = v] ELSE [d EXCEPT !.width = v]
AddDigit(d, c) ==
  Number(d, (IF d.dot THEN d.precision ELSE d.width) * 10 + DigitValue(c))

Lengthen(d, c) ==
  IF d.length = "" THEN [d EXCEPT !.length = c]
  ELSE IF c = "h" /\ d.length = "h" THEN [d EXCEPT !.length = "hh"]
  ELSE IF c = "l" /\ d.length = "l" THEN [d EXCEPT !.length = "ll"]
  ELSE [d EXCEPT !.bad = TRUE]

Modifier(d, c) ==
  CASE c = "-" -> [d EXCEPT !.left = TRUE]
    [] c = "+" -> [d EXCEPT !.sign = TRUE]
    [] c = " " -> [d EXCEPT !.space = TRUE]
    [] c = "#" -> [d EXCEPT !.hash = TRUE]
    [] c = "0" /\ IsPad(d) -> [d EXCEPT !.pad = "0"]
    [] c \in Range(Digit) /\ ~ (c = "0" /\ IsPad(d)) -> AddDigit(d, c)
    [] c = "." -> IF d.dot THEN [d EXCEPT !.bad = TRUE]
                  ELSE [d EXCEPT !.dot = TRUE, !.precision = 0]
    [] c = "*" -> [Number(d, Signed(Head(d.args), IntBits)) EXCEPT !.args = Tail(@)]
    [] c \in {"h", "l", "j", "z", "t", "L"} -> Lengthen(d, c)
    [] OTHER -> [d EXCEPT !.type = c]

\* Up to the type or the first character that is wrong; n counts what was read.
Parse(s, a) ==
  LET end == FoldLeft(LAMBDA d, c : IF d.bad \/ d.type # "" THEN d
                                    ELSE [Modifier(d, c) EXCEPT !.n = @ + 1],
                      Started(a), s)
  IN  IF end.type = "" THEN [end EXCEPT !.bad = TRUE]
      ELSE IF end.type = "p"
        THEN [end EXCEPT !.type = "x", !.length = "ll", !.hash = TRUE,
                         !.precision = IF @ = -1 THEN LongBits \div 4 ELSE @]
      ELSE end

----------------------------------------------------------------------------
(* Numbers *)

BitsOf(length) ==
  CASE length = "hh" -> CharBits
    [] length = "h"  -> ShortBits
    [] length \in {"", "L"} -> IntBits
    [] OTHER -> LongBits

\* The most negative number has no opposite: its digits are a constant.
Magnitude_Wraps(v) == IF v < 0 THEN Signed(-v, LongBits) ELSE v
Magnitude(v) == IF v < 0 THEN -v ELSE v

Base(type) == CASE type = "o" -> 8 [] type \in {"x", "X"} -> 16 [] OTHER -> 10
Alphabet(type) == IF type = "X" THEN High ELSE Low

\* The digits from the last to the first, as the buffer holds them.
Buffer(v, d) ==
  FoldLeft(LAMBDA r, i : IF r.v <= 0 THEN r
                         ELSE [v |-> r.v \div Base(d.type),
                               b |-> Append(r.b, Alphabet(d.type)[(r.v % Base(d.type)) + 1])],
           [v |-> v, b |-> IF v = 0 /\ d.precision # 0 THEN <<"0">> ELSE <<>>],
           Rep(0, LongBits)).b

Sign(d, neg) ==
  IF neg THEN <<"-">> ELSE IF d.sign THEN <<"+">> ELSE IF d.space THEN <<" ">> ELSE <<>>
Prefix(d) ==
  IF ~ d.hash THEN <<>>
  ELSE CASE d.type = "o" -> <<"0">>
         [] d.type \in {"x", "X"} -> <<"0", d.type>>
         [] OTHER -> <<>>

\* What is printed for a number, and what is added to count.
RealLen_NoSpace(d, neg, len) ==
  Larger(len, d.precision) + (IF neg \/ d.sign THEN 1 ELSE 0) + Len(Prefix(d))
RealLen(d, neg, len) ==
  Larger(len, d.precision) + (IF neg \/ d.sign \/ d.space THEN 1 ELSE 0) + Len(Prefix(d))

Field(d, neg, buffer) ==
  LET lead  == Sign(d, neg) \o Prefix(d)
      real  == RealLen(d, neg, Len(buffer))
      pads  == Rep(d.pad, d.width - real)
      front == IF d.left THEN lead ELSE IF d.pad = "0" THEN lead \o pads ELSE pads \o lead
  IN  [out |-> front \o Rep("0", d.precision - Len(buffer)) \o Reverse(buffer)
                 \o (IF d.left THEN pads ELSE <<>>),
       count |-> Larger(real, d.width)]

----------------------------------------------------------------------------

VARIABLES
  rest, args,  \* the format and the arguments that are left
  out,         \* the characters printed
  count,
  stored,      \* what %n has stored
  result,      \* the value returned, when returned is set
  returned,
  meant        \* history: what the caller meant, {} for a broken directive

vars == <<rest, args, out, count, stored, result, returned, meant>>

\* The text of a directive: flags in a fixed order, then width, precision,
\* length and type.  A number is written out or taken from the arguments.
Spelled(n) == IF n.star THEN <<"*">> ELSE IF n.value = 0 THEN <<>> ELSE <<Digit[n.value + 1]>>
Format(m) ==
  <<"%">> \o SelectSeq(<<"0", "-", "+", " ", "#">>, LAMBDA f : f \in m.flags)
    \o (IF m.width = {} THEN <<>> ELSE Spelled(CHOOSE n \in m.width : TRUE))
    \o (IF m.precision = {} THEN <<>> ELSE <<".">> \o Spelled(CHOOSE n \in m.precision : TRUE))
    \o m.length \o <<m.type>>

Given(n) == IF \E x \in n : x.star THEN <<(CHOOSE x \in n : TRUE).value % 2^LongBits>> ELSE <<>>
Arguments(m) ==
  Given(m.width) \o Given(m.precision) \o (IF m.type = "%" THEN <<>> ELSE <<m.value>>)

Start(format, a) ==
  /\ rest = <<"a">> \o format /\ args = a
  /\ out = <<>> /\ count = 0 /\ stored = 0 /\ result = 0 /\ returned = FALSE

Init ==
  \/ \E m \in Calls : meant = {m} /\ Start(Format(m) \o <<"%", "n">>, Arguments(m) \o <<0>>)
  \/ \E s \in Broken : meant = {} /\ Start(s, <<0, 0, 0>>)

AtDirective == ~ returned /\ rest # <<>> /\ rest[1] = "%"
D == Parse(Tail(rest), args)

\* Behind a directive that prints s and took k arguments.
Go(s, n, k) ==
  /\ out' = out \o s
  /\ count' = count + n
  /\ rest' = SubSeq(rest, D.n + 2, Len(rest))
  /\ args' = SubSeq(D.args, k + 1, Len(D.args))
  /\ UNCHANGED <<result, returned, meant>>

Return(v) ==
  /\ result' = v /\ returned' = TRUE
  /\ UNCHANGED <<rest, args, out, count, stored, meant>>

Literal ==
  /\ ~ returned /\ rest # <<>> /\ rest[1] # "%"
  /\ count' = count + 1
  /\ out' = Append(out, rest[1])
  /\ rest' = Tail(rest)
  /\ UNCHANGED <<args, stored, result, returned, meant>>

PrintNumber(value, neg) ==
  LET f == Field(D, neg, Buffer(value, D)) IN Go(f.out, f.count, 1) /\ UNCHANGED stored

SignedNumber ==
  /\ AtDirective /\ ~ D.bad /\ D.type \in {"d", "i"}
  /\ LET value == Signed(Head(D.args), BitsOf(D.length))
     IN  PrintNumber(Magnitude(value), value < 0)

\* With length L the variable value is never set, nor the argument taken.
UnsignedNumber ==
  /\ AtDirective /\ ~ D.bad /\ D.type \in {"u", "o", "x", "X"} /\ D.length # "L"
  /\ PrintNumber(Head(D.args) % 2^BitsOf(D.length), FALSE)

UnsetNumber ==
  /\ AtDirective /\ ~ D.bad /\ D.type \in {"u", "o", "x", "X"} /\ D.length = "L"
  /\ \E value \in Leftover :
       LET f == Field(D, FALSE, Buffer(value, D)) IN Go(f.out, f.count, 0) /\ UNCHANGED stored

Character ==
  /\ AtDirective /\ ~ D.bad /\ D.type = "c"
  /\ Go(<<Letter>>, 1, 1) /\ UNCHANGED stored

\* A negative precision, as an unsigned number, is longer than any string.
Shown(len, precision) == IF precision \in 0 .. len THEN precision ELSE len
String ==
  /\ AtDirective /\ ~ D.bad /\ D.type = "s"
  /\ LET text == Rep(Letter, Shown(Head(D.args), D.precision))
         pads == Rep(" ", D.width - Len(text))
     IN  Go(IF D.left THEN text \o pads ELSE pads \o text, Len(text) + Len(pads), 1)
  /\ UNCHANGED stored

Store ==
  /\ AtDirective /\ ~ D.bad /\ D.type = "n"
  /\ stored' = count
  /\ Go(<<>>, 0, 1)

Percent ==
  /\ AtDirective /\ ~ D.bad /\ D.type = "%"
  /\ Go(<<"%">>, 1, 0) /\ UNCHANGED stored

Supported == {"d", "i", "u", "o", "x", "X", "c", "s", "n", "%"}
Refuse == AtDirective /\ (D.bad \/ D.type \notin Supported) /\ Return(-1)
End == ~ returned /\ rest = <<>> /\ Return(count)

Next ==
  Literal \/ SignedNumber \/ UnsignedNumber \/ UnsetNumber \/ Character \/ String
    \/ Store \/ Percent \/ Refuse \/ End

Spec == Init /\ [][Next]_vars

----------------------------------------------------------------------------
(* Properties *)

\* The padding and the zeros are computed twice, once to print them and once to
\* count them: what vprintf returns and what %n stores is what it has printed.
CountExact ==
  /\ count = Len(out)
  /\ returned => result = IF meant = {} THEN -1 ELSE count
  /\ returned /\ meant # {} => stored = count

\* The field as the C standard lays it out.
Power(b, k) == b^k
Numeral(v, base, alphabet) ==
  LET n == CHOOSE k \in 0 .. LongBits :
             Power(base, k) > v /\ (k > 0 => Power(base, k - 1) <= v)
  IN  [i \in 1 .. n |-> alphabet[((v \div Power(base, n - i)) % base) + 1]]

ValueOr(n, default) == IF n = {} THEN default ELSE (CHOOSE x \in n : TRUE).value

Standard(m) ==
  LET bits  == BitsOf(FoldLeft(LAMBDA s, c : IF s = "" THEN c ELSE IF c = "h" THEN "hh" ELSE "ll",
                               "", m.length))
      value == IF m.type \in {"d", "i"} THEN Signed(m.value, bits) ELSE m.value % 2^bits
      prec  == ValueOr(m.precision, -1)
      width == ValueOr(m.width, 0)
      digits == IF value = 0 /\ prec < 0 THEN <<"0">>
                ELSE Numeral(IF value < 0 THEN -value ELSE value, Base(m.type), Alphabet(m.type))
      zeros == Rep("0", prec - Len(digits))
      sign  == IF value < 0 THEN <<"-">> ELSE IF "+" \in m.flags THEN <<"+">>
               ELSE IF " " \in m.flags THEN <<" ">> ELSE <<>>
      hex   == IF "#" \in m.flags THEN <<"0", m.type>> ELSE <<>>
      body  == CASE m.type = "%" -> <<"%">>
                 [] m.type = "c" -> <<Letter>>
                 [] m.type = "s" -> Rep(Letter, IF prec >= 0 /\ prec < m.value THEN prec ELSE m.value)
                 [] OTHER -> sign \o hex \o zeros \o digits
      blanks == width - Len(body)
  IN  IF "-" \in m.flags THEN body \o Rep(" ", blanks)
      ELSE IF "0" \in m.flags /\ m.type \notin {"s", "c", "%"}
        THEN sign \o hex \o Rep("0", blanks) \o digits
      ELSE Rep(" ", blanks) \o body

\* Where vprintf is not the standard's: "-" or a precision with "0"; a sign on
\* an unsigned number; "#" on 0 and in octal; a negative width; the width of a
\* character; pointers and the length L.
Agrees(m) ==
  /\ "0" \in m.flags => "-" \notin m.flags /\ m.precision = {}
  /\ {"+", " "} \cap m.flags # {} => m.type \in {"d", "i", "s", "c", "%"}
  /\ "#" \in m.flags => m.type \in {"x", "X"} /\ m.value % 2^CharBits # 0
  /\ ValueOr(m.width, 0) >= 0
  /\ m.type \in {"c", "%"} => m.width = {}
  /\ m.type # "p" /\ m.length # <<"L">>

\* In every other case the field is the standard's: the digits are those of the
\* argument at its length, the most negative one included, in the place that
\* flags, width and precision give them.
ConformsToC ==
  returned => \A m \in meant : Agrees(m) => out = <<"a">> \o Standard(m)

=============================================================================
