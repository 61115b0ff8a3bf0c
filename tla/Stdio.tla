------------------------------- MODULE Stdio -------------------------------
(***************************************************************************)
(* printf, sprintf and itoa of src/src/stdlib/stdio.c as operators.  A     *)
(* format, a string argument and what sprintf stores are sequences of      *)
(* characters, one string each; a format ends with Nul, and what lies      *)
(* behind it in memory follows.  printf shows characters and line ends.    *)
(***************************************************************************)
EXTENDS Integers, Sequences, SequencesExt

CONSTANT WordMod  \* number of values of an unsigned int, 2^32

ASSUME StdioAssumption == WordMod \in Nat /\ WordMod % 2 = 0

Nul == "nul"
LineEnds == {"lf", "cr"}
Shown(ch) == <<"put", ch>>
NewLine == <<"newline">>

Digits == <<"0", "1", "2", "3", "4", "5", "6", "7", "8", "9",
            "A", "B", "C", "D", "E", "F">>
DecimalDigits == {Digits[d] : d \in 1 .. 10}
DigitValue(ch) == (CHOOSE d \in DOMAIN Digits : Digits[d] = ch) - 1

\* A word read as a signed int.
AsInt(word) == IF word < WordMod \div 2 THEN word ELSE word - WordMod

-----------------------------------------------------------------------------

\* The digits of a positive number; the last one is found first.
DigitsOf(n, base) ==
  LET digits[m \in 0 .. n] ==
        IF m = 0 THEN << >>
        ELSE Append(digits[m \div base], Digits[(m % base) + 1])
  IN  digits[n]

\* Wrong variant: the sign decides in every base.
BugItoa(word, base) ==
  IF word = 0 THEN <<"0">>
  ELSE IF AsInt(word) < 0 THEN <<"-">> \o DigitsOf(0 - AsInt(word), base)
  ELSE DigitsOf(word, base)

\* itoa takes an int: a word is negative in base 10 only.
itoa(word, base) ==
  IF word = 0 THEN <<"0">>
  ELSE IF base = 10 /\ AsInt(word) < 0
  THEN <<"-">> \o DigitsOf(0 - AsInt(word), base)
  ELSE DigitsOf(word, base)

\* Blanks up to the width, in front of a text.
Justify(text, width) ==
  [i \in 1 .. (IF width > Len(text) THEN width - Len(text) ELSE 0) |-> " "] \o text

(***************************************************************************)
(* The loop over the format: printf and sprintf have each a copy of it,    *)
(* stdio.c:37-50 and 155-163.  The copies are the same, and one operator   *)
(* stands for both; what each does with an item is told apart below.       *)
(* An item is a character of the format or a directive: its letter, its    *)
(* width and its argument.  The loop steps over whatever follows a percent *)
(* sign, the end of the format included.                                   *)
(***************************************************************************)

\* The place of the letter of the directive that begins at i, and its width.
LetterAt(fmt, i) ==
  CHOOSE j \in i + 1 .. Len(fmt) :
    /\ fmt[j] \notin DecimalDigits
    /\ \A k \in i + 1 .. j - 1 : fmt[k] \in DecimalDigits
WidthAt(fmt, i, j) ==
  LET value[k \in i .. j - 1] ==
        IF k = i THEN 0 ELSE value[k - 1] * 10 + DigitValue(fmt[k])
  IN  value[j - 1]

Signed == {"d", "i", "u"}
Hexadecimal == {"x", "X", "p"}
Consuming == Signed \cup Hexadecimal \cup {"o", "c", "s"}

\* The items from place i on, of which the first argument is the n-th.
Items(fmt, args) ==
  LET from[p \in (1 .. Len(fmt) + 1) \X Nat] ==
        LET i == p[1]
            n == p[2]
        IN  IF i > Len(fmt) \/ fmt[i] = Nul THEN << >>
            ELSE IF fmt[i] # "%"
            THEN << [kind |-> "text", ch |-> fmt[i]] >> \o from[<<i + 1, n>>]
            ELSE LET j == LetterAt(fmt, i)
                     takes == fmt[j] \in Consuming
                 IN  << [kind |-> "directive", ch |-> fmt[j],
                         width |-> WidthAt(fmt, i, j),
                         arg |-> IF takes THEN args[n] ELSE Nul] >>
                     \o from[<<j + 1, IF takes THEN n + 1 ELSE n>>]
  IN  from[<<1, 1>>]

\* A string argument: the null pointer is the empty string.
NullString == <<Nul>>
TextOf(arg) == IF arg = NullString THEN << >> ELSE arg

-----------------------------------------------------------------------------

\* Characters on the screen, line ends obeyed or put like any other.
Put(text) == [k \in DOMAIN text |-> Shown(text[k])]
Show(text) ==
  [k \in DOMAIN text |-> IF text[k] \in LineEnds THEN NewLine ELSE Shown(text[k])]

\* What printf does with an item.
PrintItem(it) ==
  IF it.kind = "text" THEN Show(<<it.ch>>)
  ELSE CASE it.ch = "c"  -> Show(<<it.arg>>)
         [] it.ch = "s"  -> Show(Justify(TextOf(it.arg), it.width))
         [] it.ch \in Signed -> Put(Justify(itoa(it.arg, 10), it.width))
         [] it.ch \in Hexadecimal -> Put(<<"0", "x">> \o itoa(it.arg, 16))
         [] it.ch = "o"  -> Put(itoa(it.arg, 8))
         [] it.ch = "%"  -> Put(<<"%">>)
         [] OTHER        -> Put(<<"%", it.ch>>)

\* What sprintf stores for an item.  Wrong variant: widths forgotten.
BugStoreItem(it) ==
  IF it.kind = "text" THEN <<it.ch>>
  ELSE CASE it.ch = "c"  -> <<it.arg>>
         [] it.ch = "s"  -> TextOf(it.arg)
         [] it.ch \in Signed -> itoa(it.arg, 10)
         [] it.ch \in Hexadecimal -> <<"0", "x">> \o itoa(it.arg, 16)
         [] it.ch = "o"  -> itoa(it.arg, 8)
         [] it.ch = "%"  -> <<"%">>
         [] OTHER        -> <<"%", it.ch>>
StoreItem(it) ==
  IF it.kind = "text" THEN <<it.ch>>
  ELSE CASE it.ch = "c"  -> <<it.arg>>
         [] it.ch = "s"  -> Justify(TextOf(it.arg), it.width)
         [] it.ch \in Signed -> Justify(itoa(it.arg, 10), it.width)
         [] it.ch \in Hexadecimal -> <<"0", "x">> \o itoa(it.arg, 16)
         [] it.ch = "o"  -> itoa(it.arg, 8)
         [] it.ch = "%"  -> <<"%">>
         [] OTHER        -> <<"%", it.ch>>

Each(Op(_), seq) == FlattenSeq([k \in DOMAIN seq |-> Op(seq[k])])

printf(fmt, args) == Each(PrintItem, Items(fmt, args))

\* What sprintf stores in front of the '\0'; its length is what it returns.
sprintf(fmt, args) == Each(StoreItem, Items(fmt, args))
=============================================================================
