-------------------------------- MODULE Libc --------------------------------
(***************************************************************************)
(* A caller of the routines of Strings and Stdio.  A call is begun and run *)
(* in two steps, so that its arguments do not multiply the states between  *)
(* calls.  What lasts from one call to the next is the memory and the      *)
(* static variable of strtok.  Its specification is named LibcSpec: the    *)
(* proofs about src/src/stdlib put it beside that of Heap.                 *)
(***************************************************************************)
EXTENDS Strings, Stdio, FiniteSets

CONSTANT
  Clients  \* callers: [images, calls, once], the memory they begin with, their
           \* calls, <<routine, arguments...>>, and whether they stop after one

\* A format ends with its '\0', and its directives find arguments of their types.
FormatFits(fmt, args) ==
  /\ fmt \in Seq(STRING) \ {<< >>} /\ Last(fmt) = Nul
  /\ \A k \in DOMAIN Items(fmt, args) :
       LET it == Items(fmt, args)[k]
       IN  it.kind = "directive" =>
             /\ it.ch \in Signed \cup Hexadecimal \cup {"o"} => it.arg \in 0 .. WordMod - 1
             /\ it.ch = "c" => it.arg \in STRING
             /\ it.ch = "s" => it.arg \in Seq(STRING)

\* What a call is given lies in memory: a copy and a comparison stay within it,
\* a string begins in it.
InMemory(c) ==
  CASE c[1] \in {"memmove", "memcpy", "memcmp"} ->
         /\ c[2] \in Address /\ c[3] \in Address /\ c[4] \in Nat
         /\ c[2] + c[4] <= MemSize /\ c[3] + c[4] <= MemSize
    [] c[1] \in {"memset", "strncpy"} ->
         /\ c[2] \in Address /\ c[3] \in Nat /\ c[4] \in Nat
         /\ c[2] + c[4] <= MemSize
    [] c[1] \in {"strcpy", "strcmp", "strstr"} -> c[2] \in Address /\ c[3] \in Address
    [] c[1] = "strncmp" -> c[2] \in Address /\ c[3] \in Address /\ c[4] \in Nat
    [] c[1] = "strchr"  -> c[2] \in Address /\ c[3] \in Nat
    [] c[1] = "strtok"  -> c[2] \in Address \cup {NULL} /\ c[3] \in Address
    [] c[1] \in {"printf", "sprintf"} -> FormatFits(c[2], c[3])

ASSUME LibcAssumption ==
  \A c \in Clients :
    /\ c.images \subseteq [Address -> Nat]
    /\ \A k \in c.calls : InMemory(k)

VARIABLES
  client,  \* the caller: never written
  mem, next,
  call,    \* the call begun, or Idle
  ret,     \* what the last call returned: a number, an address or a text
  text     \* history: the string strtok was given last, while nobody else
           \*   writes to memory, and how far its tokens have been asked for

libcVars == <<client, mem, next, call, ret, text>>

Idle == <<"idle">>
Done == <<"done">>
NoText == [base |-> NULL, mem |-> << >>, at |-> NULL]

LibcInit ==
  /\ client \in Clients
  /\ mem \in client.images
  /\ next = NULL /\ call = Idle /\ ret = NULL /\ text = NoText

Disjoint(d, s, n) == d + n <= s \/ s + n <= d

\* What a caller must take care of: strings end, and copies other than
\* memmove do not overlap.
Sound(c) ==
  CASE c[1] \in {"memmove", "memset", "memcmp"} -> TRUE
    [] c[1] = "memcpy"  -> Disjoint(c[2], c[3], c[4])
    [] c[1] = "strcpy"  ->
         /\ IsString(mem, c[3])
         /\ LET n == strlen(mem, c[3]) + 1
            IN  c[2] + n <= MemSize /\ Disjoint(c[2], c[3], n)
    [] c[1] = "strncpy" -> IsString(mem, c[3]) /\ Disjoint(c[2], c[3], c[4])
    [] c[1] \in {"strstr", "strcmp", "strncmp"} ->
         IsString(mem, c[2]) /\ IsString(mem, c[3])
    [] c[1] = "strchr"  -> IsString(mem, c[2])
    [] c[1] = "strtok"  ->
         /\ c[2] # NULL => IsString(mem, c[2])
         /\ c[2] = NULL /\ next # NULL => IsString(mem, next)
         /\ IsString(mem, c[3])
    [] c[1] \in {"printf", "sprintf"} -> TRUE

Begin ==
  /\ call = Idle
  /\ \E c \in client.calls : Sound(c) /\ call' = c
  /\ ret' = NULL
  /\ UNCHANGED <<client, mem, next, text>>

Routine(names) ==
  /\ call[1] \in names
  /\ call' = IF client.once THEN Done ELSE Idle
  /\ UNCHANGED client

\* The routines that write to memory.
Write ==
  /\ Routine({"memmove", "memcpy", "memset", "strcpy", "strncpy"})
  /\ mem' = CASE call[1] = "memmove" -> memmove(mem, call[2], call[3], call[4])
              [] call[1] = "memcpy"  -> memcpy(mem, call[2], call[3], call[4])
              [] call[1] = "memset"  -> memset(mem, call[2], call[3], call[4])
              [] call[1] = "strcpy"  -> strcpy(mem, call[2], call[3])
              [] call[1] = "strncpy" -> strncpy(mem, call[2], call[3], call[4])
  /\ ret' = call[2] /\ text' = NoText
  /\ UNCHANGED next

\* Those that look at it.
Look ==
  /\ Routine({"memcmp", "strcmp", "strncmp", "strchr", "strstr"})
  /\ ret' = CASE call[1] = "memcmp"  -> memcmp(mem, call[2], call[3], call[4])
              [] call[1] = "strcmp"  -> strcmp(mem, call[2], call[3])
              [] call[1] = "strncmp" -> strncmp(mem, call[2], call[3], call[4])
              [] call[1] = "strchr"  -> strchr(mem, call[2], call[3])
              [] call[1] = "strstr"  -> strstr(mem, call[2], call[3])
  /\ UNCHANGED <<mem, next, text>>

Format ==
  /\ Routine({"printf", "sprintf"})
  /\ ret' = IF call[1] = "printf" THEN printf(call[2], call[3])
                                  ELSE sprintf(call[2], call[3])
  /\ UNCHANGED <<mem, next, text>>

(***************************************************************************)
(* The tokens of a text by their definition: the next one begins at the    *)
(* first byte from "at" on that is no delimiter and ends before the first  *)
(* delimiter, or end, behind it.                                           *)
(***************************************************************************)
DelimsAt(delim) ==
  {mem[a] : a \in {b \in delim .. MemSize - 1 : \A e \in delim .. b : mem[e] # 0}}
EndOfText(t) == CHOOSE e \in t.base .. MemSize - 1 :
                  t.mem[e] = 0 /\ \A a \in t.base .. e - 1 : t.mem[a] # 0
TokenOf(t, delims) ==
  LET body == {a \in t.at .. EndOfText(t) - 1 : t.mem[a] \notin delims}
  IN  IF body = {} THEN [ret |-> NULL, at |-> EndOfText(t)]
      ELSE LET first == CHOOSE a \in body : \A b \in body : a <= b
               stops == {a \in first .. EndOfText(t) :
                           a = EndOfText(t) \/ t.mem[a] \in delims}
               stop  == CHOOSE a \in stops : \A b \in stops : a <= b
           IN  [ret |-> first,
                at |-> IF stop = EndOfText(t) THEN stop ELSE stop + 1]

\* The text whose tokens the call of strtok asks for, if there is one.
Asked ==
  IF call[2] # NULL THEN [base |-> call[2], mem |-> mem, at |-> call[2]] ELSE text

Tokenize ==
  /\ Routine({"strtok"})
  /\ LET r == strtok(mem, next, call[2], call[3])
     IN  mem' = r.mem /\ next' = r.next /\ ret' = r.ret
  /\ text' = IF Asked.base = NULL THEN NoText
             ELSE [Asked EXCEPT !.at = TokenOf(Asked, DelimsAt(call[3])).at]

LibcNext == Begin \/ Write \/ Look \/ Format \/ Tokenize

LibcSpec == LibcInit /\ [][LibcNext]_libcVars

-----------------------------------------------------------------------------

\* A step that ends a call of one of the routines: the only one it has.
Ran(names) == call[1] \in names

\* memmove moves its bytes at once, whichever way source and destination
\* overlap: every byte of the destination is what the byte of the source was,
\* and no other byte changes.  strncpy leaves exactly n bytes, the string's
\* and then zeros.
BytesMoved ==
  [][ /\ Ran({"memmove"}) =>
           LET d == call[2]  s == call[3]  n == call[4]
           IN  mem' = [a \in Address |->
                         IF a \in d .. d + n - 1 THEN mem[s + a - d] ELSE mem[a]]
      /\ Ran({"strncpy"}) =>
           LET d == call[2]  s == call[3]  n == call[4]
           IN  mem' = [a \in Address |->
                  IF a \notin d .. d + n - 1 THEN mem[a]
                  ELSE IF \E e \in s .. s + a - d : mem[e] = 0 THEN 0
                  ELSE mem[s + a - d]] ]_libcVars

\* Successive calls of strtok, the first with the string and the others with
\* the null pointer, return the tokens of the string as it was at first, one
\* each and in order, though strtok writes into it meanwhile and the set of
\* delimiters changes from call to call; and then the null pointer.
TokensOfText ==
  [][ Ran({"strtok"}) /\ Asked.base # NULL =>
        ret' = TokenOf(Asked, DelimsAt(call[3])).ret ]_libcVars

\* strstr, strncmp and strlen agree: strstr returns the first place in the
\* haystack at which the needle is, and strncmp knows it there.
SearchesAgree ==
  [][ Ran({"strstr"}) =>
        LET h == call[2]
            n == call[3]
            At(a) == strncmp(mem, a, n, strlen(mem, n)) = 0
        IN  IF ret' = NULL THEN \A a \in h .. h + strlen(mem, h) : ~ At(a)
            ELSE At(ret') /\ \A a \in h .. ret' - 1 : ~ At(a) ]_libcVars

\* printf shows what sprintf stores, character by character, a line end in
\* the place of each line feed and carriage return: the two switches do the
\* same with every directive, width and argument.
Glyph(shown) == IF shown = NewLine \/ shown[2] \in LineEnds THEN "lf" ELSE shown[2]
Plain(ch) == IF ch \in LineEnds THEN "lf" ELSE ch
FormatsAgree ==
  [][ Ran({"printf"}) =>
        LET stored == sprintf(call[2], call[3])
        IN  /\ Len(ret') = Len(stored)
            /\ \A k \in DOMAIN stored : Glyph(ret'[k]) = Plain(stored[k]) ]_libcVars

\* A number that sprintf has stored for a format of one directive reads back as
\* the argument, in the base of the directive, the least number included: blanks,
\* a sign, digits.  Unsigned arguments from 2^31 on read back as the negative
\* number of the same word.  For d, i and u what is stored is at least as long
\* as the width, and begins with a blank only if it is no longer.  The other
\* directives store no blank, however large the width: "Field width parsing
\* (minimum, no padding)" (stdio.c:44) is true of d, i, u and s only.
Value(digits, base) ==
  LET value[k \in 0 .. Len(digits)] ==
        IF k = 0 THEN 0 ELSE value[k - 1] * base + DigitValue(digits[k])
  IN  value[Len(digits)]
Reads(digits, base, number) ==
  /\ \A k \in DOMAIN digits : \E d \in 1 .. base : Digits[d] = digits[k]
  /\ digits # << >> /\ Value(digits, base) = number
\* One directive that takes a number, and nothing else.
NumberFormat(fmt) ==
  /\ Len(fmt) >= 3 /\ fmt[1] = "%" /\ fmt[Len(fmt) - 1] \in Signed \cup Hexadecimal \cup {"o"}
  /\ \A k \in 2 .. Len(fmt) - 2 : fmt[k] \in DecimalDigits
NumbersReadBack ==
  [][ Ran({"sprintf"}) /\ NumberFormat(call[2]) =>
        LET letter == call[2][Len(call[2]) - 1]
            width  == WidthAt(call[2], 1, Len(call[2]) - 1)
            blanks == Cardinality({k \in DOMAIN ret' : ret'[k] = " "})
            number == SubSeq(ret', blanks + 1, Len(ret'))
            rest   == SubSeq(number, 2, Len(number))
            word   == call[3][1]
        IN  CASE letter \in Signed ->
                   /\ IF number[1] = "-" THEN Reads(rest, 10, 0 - AsInt(word))
                                         ELSE Reads(number, 10, AsInt(word))
                   /\ Len(ret') >= width /\ (blanks > 0 => Len(ret') = width)
              [] letter \in Hexadecimal ->
                   /\ SubSeq(number, 1, 2) = <<"0", "x">>
                   /\ Reads(SubSeq(number, 3, Len(number)), 16, word)
                   /\ blanks = 0
              [] letter = "o" -> Reads(number, 8, word) /\ blanks = 0 ]_libcVars
=============================================================================
