---------------------------- MODULE KernelProofs ----------------------------
(***************************************************************************)
(* Proofs about Kernel, for every size of the page, of the ring and of a   *)
(* byte, for every session and for either kind of interrupt stub.          *)
(***************************************************************************)
EXTENDS Kernel, VgaProofs, SequenceTheorems, FiniteSetTheorems

-----------------------------------------------------------------------------
(* The steps left of kmain's call. *)

StepSet ==
  ({"shift", "char?"} \X Scancodes) \cup ({"store"} \X (Chars \cup {Nul}))
    \cup ((NumericSteps \ {"const col"}) \X (-1 .. ByteMod - 1))
    \cup ({"const col"} \X (0 .. ByteMod - 1))

\* Steps that come in one order, nothing between them: those of vga_pos after
\* its arguments, the two of the head, the two of keyboard_getc.
Inseparable ==
  {<<"set col", "set row">>, <<"set row", "select lo">>,
   <<"select lo", "write lo">>, <<"write lo", "select hi">>,
   <<"select hi", "write hi">>, <<"next", "head">>, <<"cli", "take">>}

Openers ==
  {"set col", "set row", "select lo", "write lo", "select hi", "next", "cli"}
Closers ==
  {"set row", "select lo", "write lo", "select hi", "write hi", "head",
   "take", "cli"}

MayFollow(a, b) == a \in Openers \/ b \in Closers => <<a, b>> \in Inseparable

\* What kmain may have left to do: no inseparable steps are parted, except
\* that the first of them may be done.
Remainders ==
  {s \in Seq(StepSet) : \A i \in 1 .. Len(s) :
     IF i = Len(s) THEN s[i][1] \notin Openers
                   ELSE MayFollow(s[i][1], s[i + 1][1])}

\* Remainders that are whole.
Calls == {s \in Remainders : s # << >> => s[1][1] \notin Closers}

Locals == [col : 0 .. ByteMod - 1, row : 0 .. ByteMod - 1,
           next : 0 .. BufferSize - 1, ch : Chars \cup {Nul}]

MainType ==
  /\ at \in {"boot", "print", "loop", "halt", "spin", "lost"}
  /\ code \in Remainders
  /\ loc \in Locals
  /\ printed \in 0 .. session.maxPrints

HardwareType ==
  /\ intr \in BOOLEAN
  /\ pic \in [irr : BOOLEAN, isr : BOOLEAN]
  /\ kbc \in [byte : session.keys \cup session.stale, full : BOOLEAN]
  /\ typed \in Seq(session.keys) /\ Len(typed) <= session.maxKeys
  /\ sent \in 0 .. Len(typed)

RingType ==
  /\ shift \in BOOLEAN
  /\ head \in 0 .. BufferSize - 1 /\ tail \in 0 .. BufferSize - 1

\* TypeOK, with remainders for code.
TypeInv ==
  /\ session \in Sessions /\ vga \in Consoles /\ hit \in BOOLEAN
  /\ MainType /\ HardwareType /\ RingType

-----------------------------------------------------------------------------
(* The ring. *)

\* Between its test for an empty ring and its use of the tail, keyboard_getc
\* knows the ring not to be empty; and the head that keyboard_handler is about
\* to store holds at most one character more than the ring does now.
RingInv ==
  code # << >> =>
    /\ code[1][1] \in {"cli", "take"} => head # tail
    /\ code[1][1] = "head" => Unread(loc.next, tail) <= Unread(head, tail) + 1

-----------------------------------------------------------------------------
(* The cursor. *)

\* How far vga_pos has come, by the step it takes next.
ColSet == vga.col = loc.col
BothSet == ColSet /\ vga.row = loc.row
LowSent == BothSet /\ vga.crtc.lo = LowByte(CellIndex(vga.col, vga.row))

Progress ==
  IF code = << >> THEN Agrees(vga)
  ELSE CASE code[1][1] = "set row"   -> ColSet
         [] code[1][1] = "select lo" -> BothSet
         [] code[1][1] = "write lo"  -> BothSet /\ vga.crtc.index = "lo"
         [] code[1][1] = "select hi" -> LowSent
         [] code[1][1] = "write hi"  -> LowSent /\ vga.crtc.index = "hi"
         [] OTHER                    -> Agrees(vga)

\* Once kmain is lost in the middle of vga_pos the cursors stay torn.
CursorInv == ~ hit /\ at # "lost" => Progress

-----------------------------------------------------------------------------
(* The keyboard, while kmain does not poll it. *)

\* The steps of the keyboard_handler that kmain polls, and of keyboard_getc.
PollNames ==
  {"inb", "shift", "char?", "next", "head", "eoi", "empty?", "cli", "take",
   "sti", "print?"}

PrintOnly(s) == \A i \in 1 .. Len(s) : s[i][1] \notin PollNames

\* Calls that write to the console and do nothing else.
Prints == {s \in Calls : PrintOnly(s)}

\* ShiftWhen and TypedChars of the first n of the scancodes s.
ShiftOver(s, n) ==
  \E i \in 1 .. n : /\ s[i] \in ShiftDown
                   /\ \A j \in i + 1 .. n : s[j] \notin ShiftUp
CharsOver(s, n) == {i \in 1 .. n : YieldsChar(ShiftOver(s, i - 1), s[i])}

\* The scancodes the interrupt has served, the last one sent waiting for it in
\* the controller or not; and what n characters leave in an empty ring.
Served == IF kbc.full /\ sent > 0 THEN sent - 1 ELSE sent
Stored(n) == IF n < BufferSize THEN n ELSE BufferSize - 1

\* Only a scancode that was in the controller before kmain has no request.
AloneInv ==
  at \in {"boot", "print", "halt", "spin"} =>
    /\ PrintOnly(code) /\ tail = 0
    /\ (pic.irr <=> kbc.full /\ sent > 0) /\ pic.isr = FALSE
    /\ pic.irr => kbc.byte = typed[sent]
    /\ shift <=> ShiftOver(typed, Served)
    /\ head = Stored(Cardinality(CharsOver(typed, Served)))

-----------------------------------------------------------------------------
(* Lemmas about code. *)

\* The names of the steps with a number that belong to no pair.
PlainNames ==
  {"row", "col", "scroll row", "wrap?", "overflow?", "backspace", "transmit",
   "blank?", "scan", "scanned?", "inb", "eoi", "empty?", "sti", "print?"}

PlainSteps == {e \in StepSet : e[1] \notin Openers \cup Closers}
PrintSteps == {e \in PlainSteps : e[1] \notin PollNames}

\* The operands of numeric steps.
LEMMA Offsets ==
  /\ 0 \in -1 .. ByteMod - 1
  /\ \A n \in -1 .. ByteMod - 1 : n \in Int
  /\ \A n \in 0 .. ByteMod - 1 : n \in -1 .. ByteMod - 1
  BY VgaAssumption

\* Steps out of any pair, by the ways they are written.
LEMMA PlainWith ==
  ASSUME NEW name \in PlainNames, NEW n \in -1 .. ByteMod - 1
  PROVE  /\ With(name, n) \in PlainSteps
         /\ name \notin PollNames => With(name, n) \in PrintSteps
<1>1. name \in NumericSteps \ {"const col"} BY DEF PlainNames, NumericSteps
<1>2. name \notin Openers \cup Closers BY DEF PlainNames, Openers, Closers
<1>3. With(name, n) \in StepSet BY <1>1 DEF With, StepSet
<1> QED BY <1>2, <1>3 DEF With, PlainSteps, PrintSteps

LEMMA PlainDo ==
  ASSUME NEW name \in PlainNames
  PROVE  /\ Do(name) \in PlainSteps
         /\ name \notin PollNames => Do(name) \in PrintSteps
<1>1. Do(name) = With(name, 0) BY DEF Do, With
<1> QED BY <1>1, Offsets, PlainWith

LEMMA PlainOther ==
  /\ \A n \in 0 .. ByteMod - 1 : With("const col", n) \in PrintSteps
  /\ \A ch \in Chars \cup {Nul} : With("store", ch) \in PrintSteps
  /\ \A key \in Scancodes : /\ With("shift", key) \in PlainSteps
                            /\ With("char?", key) \in PlainSteps
<1>1. {"const col", "store", "shift", "char?"} \cap (Openers \cup Closers) = {}
  BY DEF Openers, Closers
<1>2. ASSUME NEW n \in 0 .. ByteMod - 1
      PROVE  With("const col", n) \in StepSet
  BY DEF With, StepSet
<1>3. ASSUME NEW ch \in Chars \cup {Nul} PROVE With("store", ch) \in StepSet
  BY DEF With, StepSet
<1>4. ASSUME NEW key \in Scancodes
      PROVE  With("shift", key) \in StepSet /\ With("char?", key) \in StepSet
  BY DEF With, StepSet
<1>5. {"const col", "store"} \cap PollNames = {} BY DEF PollNames
<1>6. \A n \in 0 .. ByteMod - 1 : With("const col", n) \in PrintSteps
  BY <1>1, <1>2, <1>5 DEF With, PlainSteps, PrintSteps
<1>7. \A ch \in Chars \cup {Nul} : With("store", ch) \in PrintSteps
  BY <1>1, <1>3, <1>5 DEF With, PlainSteps, PrintSteps
<1> QED BY <1>1, <1>4, <1>6, <1>7 DEF With, PlainSteps

\* A remainder is a sequence of steps.
LEMMA RemainderSeq ==
  ASSUME NEW s \in Remainders
  PROVE  s \in Seq(StepSet) /\ Len(s) \in Nat /\ DOMAIN s = 1 .. Len(s)
  BY LenProperties DEF Remainders

\* Steps none of which is part of an inseparable pair make a call.
LEMMA PlainCall ==
  ASSUME NEW s \in Seq(StepSet),
         \A i \in 1 .. Len(s) : s[i][1] \notin Openers \cup Closers
  PROVE  s \in Calls
<1>1. Len(s) \in Nat BY LenProperties
<1>2. ASSUME NEW i \in 1 .. Len(s), i # Len(s) PROVE i + 1 \in 1 .. Len(s)
  BY <1>1, <1>2
<1>3. ASSUME NEW i \in 1 .. Len(s)
      PROVE  IF i = Len(s) THEN s[i][1] \notin Openers
                           ELSE MayFollow(s[i][1], s[i + 1][1])
  BY <1>2, <1>3 DEF MayFollow
<1>4. s # << >> => 1 \in 1 .. Len(s)
  BY EmptySeq, <1>1
<1> QED BY <1>3, <1>4 DEF Calls, Remainders

\* A remainder followed by a whole call is a remainder.
LEMMA JoinRemainder ==
  ASSUME NEW m \in Remainders, NEW n \in Calls
  PROVE  m \o n \in Remainders
<1> DEFINE s == m \o n
<1>1. /\ m \in Seq(StepSet) /\ Len(m) \in Nat
      /\ n \in Seq(StepSet) /\ Len(n) \in Nat
      /\ \A i \in 1 .. Len(m) : IF i = Len(m) THEN m[i][1] \notin Openers
                                ELSE MayFollow(m[i][1], m[i + 1][1])
      /\ \A i \in 1 .. Len(n) : IF i = Len(n) THEN n[i][1] \notin Openers
                                ELSE MayFollow(n[i][1], n[i + 1][1])
      /\ Len(n) > 0 => n[1][1] \notin Closers
  BY LenProperties, EmptySeq DEF Calls, Remainders
<1>2. /\ s \in Seq(StepSet) /\ Len(s) = Len(m) + Len(n)
      /\ \A i \in 1 .. Len(m) + Len(n) :
           s[i] = IF i <= Len(m) THEN m[i] ELSE n[i - Len(m)]
  BY <1>1, ConcatProperties
<1> HIDE DEF s
<1>3. ASSUME NEW i \in 1 .. Len(s)
      PROVE  IF i = Len(s) THEN s[i][1] \notin Openers
                           ELSE MayFollow(s[i][1], s[i + 1][1])
  <2>1. CASE i < Len(m)
    <3>1. i \in 1 .. Len(m) /\ i + 1 \in 1 .. Len(m) /\ i # Len(m) /\ i # Len(s)
      BY <1>1, <1>2, <2>1
    <3>2. s[i] = m[i] /\ s[i + 1] = m[i + 1] BY <1>1, <1>2, <3>1
    <3> QED BY <1>1, <3>1, <3>2
  <2>2. CASE i = Len(m)
    <3>1. i \in 1 .. Len(m) /\ s[i] = m[i] BY <1>1, <1>2, <2>2
    <3>2. s[i][1] \notin Openers BY <1>1, <2>2, <3>1
    <3>3. CASE i # Len(s)
      <4>2. Len(n) > 0 BY <1>1, <1>2, <2>2, <3>3
      <4>3. /\ i + 1 \in 1 .. Len(m) + Len(n) /\ ~ (i + 1 <= Len(m))
            /\ (i + 1) - Len(m) = 1
        BY <1>1, <2>2, <4>2
      <4>1. s[i + 1] = n[1] BY <1>2, <4>3
      <4> QED BY <1>1, <3>2, <3>3, <4>1, <4>2 DEF MayFollow
    <3> QED BY <3>2, <3>3
  <2>3. CASE i > Len(m)
    <3> DEFINE j == i - Len(m)
    <3>4. i \in Int /\ i <= Len(m) + Len(n) BY <1>1, <1>2
    <3>5. j \in 1 .. Len(n) /\ (i = Len(s) <=> j = Len(n))
      BY <1>1, <1>2, <2>3, <3>4
    <3>6. s[i] = n[j] BY <1>1, <1>2, <2>3
    <3>1. j \in 1 .. Len(n) /\ s[i] = n[j] /\ (i = Len(s) <=> j = Len(n))
      BY <3>5, <3>6
    <3>2. i # Len(s) => s[i + 1] = n[j + 1]
      <4>1. i # Len(s) => /\ i + 1 \in 1 .. Len(m) + Len(n)
                          /\ ~ (i + 1 <= Len(m)) /\ (i + 1) - Len(m) = j + 1
        BY <1>1, <1>2, <2>3, <3>4
      <4> HIDE DEF j
      <4> QED BY <1>2, <4>1
    <3> HIDE DEF j
    <3> QED BY <1>1, <3>1, <3>2
  <2> QED BY <1>1, <1>2, <2>1, <2>2, <2>3
<1> QED BY <1>2, <1>3 DEF Remainders, s

\* Two calls make a call.
LEMMA JoinCalls ==
  ASSUME NEW m \in Calls, NEW n \in Calls
  PROVE  m \o n \in Calls
<1>1. m \o n \in Remainders BY JoinRemainder DEF Calls
<1>2. m \in Seq(StepSet) /\ n \in Seq(StepSet) BY DEF Calls, Remainders
<1>3. CASE m = << >>
  <2>1. m \o n = n BY <1>2, <1>3, ConcatEmptySeq
  <2> QED BY <2>1
<1>4. CASE m # << >>
  <2>1. Len(m) \in Nat \ {0} /\ Len(n) \in Nat
    BY <1>2, <1>4, EmptySeq, LenProperties
  <2>2. (m \o n)[1] = m[1] BY <1>2, <2>1, ConcatProperties
  <2> QED BY <1>1, <1>4, <2>2 DEF Calls
<1> QED BY <1>3, <1>4

\* What is left of a remainder when its first step is done.
LEMMA RestRemains ==
  ASSUME NEW s \in Remainders, s # << >>
  PROVE  /\ Tail(s) \in Remainders
         /\ s[1][1] \notin Openers => Tail(s) \in Calls
         /\ Tail(s) # << >> => MayFollow(s[1][1], Tail(s)[1][1])
         /\ s[1][1] \in Openers => Tail(s) # << >>
<1> DEFINE t == Tail(s)
<1>1. /\ s \in Seq(StepSet) /\ Len(s) \in Nat \ {0}
      /\ \A i \in 1 .. Len(s) : IF i = Len(s) THEN s[i][1] \notin Openers
                                ELSE MayFollow(s[i][1], s[i + 1][1])
  BY EmptySeq DEF Remainders
<1>2. /\ t \in Seq(StepSet) /\ Len(t) = Len(s) - 1
      /\ \A i \in 1 .. Len(t) : t[i] = s[i + 1]
  BY <1>1, HeadTailProperties
<1>3. t # << >> => Len(t) \in Nat \ {0}
  BY <1>2, EmptySeq
<1>4. Len(t) = 0 => t = << >>
  BY <1>2, <1>3
<1> HIDE DEF t
<1>5. ASSUME NEW i \in 1 .. Len(t)
      PROVE  IF i = Len(t) THEN t[i][1] \notin Openers
                           ELSE MayFollow(t[i][1], t[i + 1][1])
  <2>1. i + 1 \in 1 .. Len(s) /\ t[i] = s[i + 1] BY <1>1, <1>2
  <2>2. CASE i = Len(t) BY <1>1, <1>2, <2>1, <2>2
  <2>3. CASE i # Len(t)
    <3>1. t[i + 1] = s[(i + 1) + 1] /\ i + 1 # Len(s) BY <1>1, <1>2, <2>3
    <3> QED BY <1>1, <2>1, <2>3, <3>1
  <2> QED BY <2>2, <2>3
<1>6. t \in Remainders BY <1>2, <1>5 DEF Remainders
<1>7. t # << >> => MayFollow(s[1][1], t[1][1])
  BY <1>1, <1>2, <1>3
<1>8. s[1][1] \in Openers => t # << >>
  BY <1>1, <1>2, EmptySeq
<1>9. s[1][1] \notin Openers => t \in Calls
  <2>1. \A a, b : a \notin Openers /\ MayFollow(a, b) => b \notin Closers
    BY DEF MayFollow, Inseparable, Openers
  <2> QED BY <1>6, <1>7, <2>1 DEF Calls
<1> QED BY <1>6, <1>7, <1>8, <1>9 DEF t

\* A call that prints is a call, and a call a remainder.
LEMMA CallIsRemainder == Prints \subseteq Calls /\ Calls \subseteq Remainders
  BY DEF Prints, Calls

\* Two calls that print make one.
LEMMA JoinPrints ==
  ASSUME NEW m \in Prints, NEW n \in Prints
  PROVE  m \o n \in Prints
<1> DEFINE s == m \o n
<1>1. m \in Calls /\ n \in Calls BY DEF Prints
<1>2. /\ m \in Seq(StepSet) /\ Len(m) \in Nat
      /\ n \in Seq(StepSet) /\ Len(n) \in Nat
  BY <1>1, RemainderSeq, CallIsRemainder
<1>3. /\ Len(s) = Len(m) + Len(n)
      /\ \A i \in 1 .. Len(m) + Len(n) :
           s[i] = IF i <= Len(m) THEN m[i] ELSE n[i - Len(m)]
  BY <1>2, ConcatProperties
<1>4. s \in Calls BY <1>1, JoinCalls
<1> HIDE DEF s
<1>5. ASSUME NEW i \in 1 .. Len(s) PROVE s[i][1] \notin PollNames
  <2>1. CASE i <= Len(m)
    <3>1. i \in 1 .. Len(m) /\ s[i] = m[i] BY <1>2, <1>3, <2>1
    <3> QED BY <3>1 DEF Prints, PrintOnly
  <2>2. CASE ~ i <= Len(m)
    <3>1. i - Len(m) \in 1 .. Len(n) /\ s[i] = n[i - Len(m)]
      BY <1>2, <1>3, <2>2
    <3> QED BY <3>1 DEF Prints, PrintOnly
  <2> QED BY <2>1, <2>2
<1>6. s \in Prints BY <1>4, <1>5 DEF Prints, PrintOnly
<1> QED BY <1>6 DEF s

\* The empty call, and calls of one, two, three and four steps out of any
\* pair.
LEMMA EmptyCall == << >> \in Calls /\ << >> \in Prints
<1>1. << >> \in Calls BY EmptySeq DEF Calls, Remainders
<1>2. \A i \in 1 .. Len(<< >>) : FALSE BY EmptySeq
<1> QED BY <1>1, <1>2 DEF Prints, PrintOnly

LEMMA CallOfOne ==
  ASSUME NEW a \in PlainSteps
  PROVE  <<a>> \in Calls /\ (a \in PrintSteps => <<a>> \in Prints)
<1>1. <<a>> \in Seq(StepSet) /\ Len(<<a>>) = 1 BY DEF PlainSteps
<1>2. \A i \in 1 .. 1 : <<a>>[i] = a OBVIOUS
<1>3. <<a>> \in Calls BY <1>1, <1>2, PlainCall DEF PlainSteps
<1> QED BY <1>1, <1>2, <1>3 DEF PrintSteps, Prints, PrintOnly

LEMMA CallOfTwo ==
  ASSUME NEW a \in PlainSteps, NEW b \in PlainSteps
  PROVE  /\ <<a, b>> \in Calls
         /\ {a, b} \subseteq PrintSteps => <<a, b>> \in Prints
<1>1. <<a, b>> \in Seq(StepSet) /\ Len(<<a, b>>) = 2 BY DEF PlainSteps
<1>2. \A i \in 1 .. 2 : <<a, b>>[i] \in {a, b} OBVIOUS
<1>3. <<a, b>> \in Calls BY <1>1, <1>2, PlainCall DEF PlainSteps
<1> QED BY <1>1, <1>2, <1>3 DEF PrintSteps, Prints, PrintOnly

LEMMA CallOfThree ==
  ASSUME NEW a \in PlainSteps, NEW b \in PlainSteps, NEW c \in PlainSteps
  PROVE  /\ <<a, b, c>> \in Calls
         /\ {a, b, c} \subseteq PrintSteps => <<a, b, c>> \in Prints
<1>1. <<a, b, c>> \in Seq(StepSet) /\ Len(<<a, b, c>>) = 3
  BY DEF PlainSteps
<1>2. \A i \in 1 .. 3 : <<a, b, c>>[i] \in {a, b, c} OBVIOUS
<1>3. <<a, b, c>> \in Calls BY <1>1, <1>2, PlainCall DEF PlainSteps
<1> QED BY <1>1, <1>2, <1>3 DEF PrintSteps, Prints, PrintOnly

\* Tuples as sequences.
LEMMA Pair ==
  ASSUME NEW S, NEW a \in S, NEW b \in S
  PROVE  /\ <<a, b>> \in Seq(S) /\ Len(<<a, b>>) = 2
         /\ <<a, b>>[1] = a /\ <<a, b>>[2] = b
  OBVIOUS

LEMMA Quadruple ==
  ASSUME NEW S, NEW a \in S, NEW b \in S, NEW c \in S, NEW d \in S
  PROVE  /\ <<a, b, c, d>> \in Seq(S) /\ Len(<<a, b, c, d>>) = 4
         /\ <<a, b, c, d>>[1] = a /\ <<a, b, c, d>>[2] = b
         /\ <<a, b, c, d>>[3] = c /\ <<a, b, c, d>>[4] = d
  OBVIOUS

LEMMA CallOfFour ==
  ASSUME NEW a \in PlainSteps, NEW b \in PlainSteps, NEW c \in PlainSteps,
         NEW d \in PlainSteps
  PROVE  <<a, b, c, d>> \in Calls
<1> DEFINE s == <<a, b, c, d>>
<1>1. /\ s \in Seq(StepSet) /\ Len(s) = 4
      /\ s[1] = a /\ s[2] = b /\ s[3] = c /\ s[4] = d
  BY Quadruple DEF PlainSteps
<1> HIDE DEF s
<1>2. ASSUME NEW i \in 1 .. 4 PROVE s[i] \in PlainSteps
  <2>1. i \in {1, 2, 3, 4} OBVIOUS
  <2> QED BY <1>1, <2>1
<1>3. s \in Calls BY <1>1, <1>2, PlainCall DEF PlainSteps
<1> QED BY <1>3 DEF s

\* What vga_pos does with its arguments evaluated.
LEMMA SetPosCall == SetPos \in Prints
<1> DEFINE P == << Do("set col"), Do("set row") >>
           Q == CursorCode
           s == P \o Q
<1>1. /\ \A name \in Openers \cup Closers : Do(name) \in StepSet
      /\ \A name \in Openers \cup Closers : Do(name)[1] = name
  <2>1. 0 \in -1 .. ByteMod - 1 BY VgaAssumption
  <2>2. Openers \cup Closers \subseteq NumericSteps \ {"const col"}
    BY DEF Openers, Closers, NumericSteps
  <2> QED BY <2>1, <2>2 DEF Do, StepSet
<1>2. /\ P \in Seq(StepSet) /\ Len(P) = 2
      /\ P[1] = Do("set col") /\ P[2] = Do("set row")
  <2>1. Do("set col") \in StepSet /\ Do("set row") \in StepSet
    BY <1>1 DEF Openers
  <2> QED BY <2>1, Pair
<1>3. /\ Q \in Seq(StepSet) /\ Len(Q) = 4
      /\ Q[1] = Do("select lo") /\ Q[2] = Do("write lo")
      /\ Q[3] = Do("select hi") /\ Q[4] = Do("write hi")
  <2>1. /\ Do("select lo") \in StepSet /\ Do("write lo") \in StepSet
        /\ Do("select hi") \in StepSet /\ Do("write hi") \in StepSet
    BY <1>1 DEF Closers
  <2> QED BY <2>1, Quadruple DEF CursorCode
<1>4. SetPos = s BY DEF SetPos
<1> HIDE DEF P, Q
<1>5. /\ s \in Seq(StepSet) /\ Len(s) = 6
      /\ \A i \in 1 .. 6 : s[i] = IF i <= 2 THEN P[i] ELSE Q[i - 2]
  <2>1. /\ s \in Seq(StepSet) /\ Len(s) = Len(P) + Len(Q)
        /\ \A i \in 1 .. Len(P) + Len(Q) :
             s[i] = IF i <= Len(P) THEN P[i] ELSE Q[i - Len(P)]
    BY <1>2, <1>3, ConcatProperties
  <2> HIDE DEF s
  <2>2. Len(P) = 2 /\ Len(Q) = 4 BY <1>2, <1>3
  <2>3. 2 + 4 = 6 OBVIOUS
  <2> QED BY <2>1, <2>2, <2>3
<1> HIDE DEF s
<1>6. /\ s[1] = Do("set col") /\ s[2] = Do("set row")
      /\ s[3] = Do("select lo") /\ s[4] = Do("write lo")
      /\ s[5] = Do("select hi") /\ s[6] = Do("write hi")
  <2>1. /\ s[1] = P[1] /\ s[2] = P[2]
        /\ s[3] = Q[3 - 2] /\ s[4] = Q[4 - 2]
        /\ s[5] = Q[5 - 2] /\ s[6] = Q[6 - 2]
    BY <1>5
  <2>2. 3 - 2 = 1 /\ 4 - 2 = 2 /\ 5 - 2 = 3 /\ 6 - 2 = 4 OBVIOUS
  <2> QED BY <1>2, <1>3, <2>1, <2>2
<1>7. /\ s[1][1] = "set col" /\ s[2][1] = "set row"
      /\ s[3][1] = "select lo" /\ s[4][1] = "write lo"
      /\ s[5][1] = "select hi" /\ s[6][1] = "write hi"
  BY <1>1, <1>6 DEF Openers, Closers
<1>8. ASSUME NEW i \in 1 .. 6
      PROVE  IF i = 6 THEN s[i][1] \notin Openers
                      ELSE MayFollow(s[i][1], s[i + 1][1])
  <2>1. i \in {1, 2, 3, 4, 5, 6} OBVIOUS
  <2>2. /\ 1 + 1 = 2 /\ 2 + 1 = 3 /\ 3 + 1 = 4 /\ 4 + 1 = 5 /\ 5 + 1 = 6
    OBVIOUS
  <2> QED BY <1>7, <2>1, <2>2 DEF MayFollow, Inseparable, Openers
<1>9. s[1][1] \notin Closers BY <1>7 DEF Closers
<1>10. s \in Calls BY <1>5, <1>8, <1>9 DEF Calls, Remainders
<1>11. ASSUME NEW i \in 1 .. 6 PROVE s[i][1] \notin PollNames
  <2>1. i \in {1, 2, 3, 4, 5, 6} OBVIOUS
  <2> QED BY <1>7, <2>1 DEF PollNames
<1> QED BY <1>4, <1>5, <1>10, <1>11 DEF Prints, PrintOnly

\* vga_pos with arguments relative to the cursor, and with a column of its
\* own.
LEMMA MoveCall ==
  ASSUME NEW dcol \in {-1, 0, 1}, NEW drow \in {-1, 0, 1}
  PROVE  Move(dcol, drow) \in Prints
<1>1. dcol \in -1 .. ByteMod - 1 /\ drow \in -1 .. ByteMod - 1
  BY VgaAssumption
<1>2. With("row", drow) \in PrintSteps /\ With("col", dcol) \in PrintSteps
  BY <1>1, PlainWith DEF PlainNames, PollNames
<1>3. << With("row", drow), With("col", dcol) >> \in Prints
  BY <1>2, CallOfTwo DEF PrintSteps
<1> QED BY <1>3, SetPosCall, JoinPrints DEF Move

LEMMA MoveToCall ==
  ASSUME NEW col \in 0 .. ByteMod - 1, NEW drow \in {-1, 0, 1}
  PROVE  MoveTo(col, drow) \in Prints
<1>1. drow \in -1 .. ByteMod - 1 BY VgaAssumption
<1>2. With("row", drow) \in PrintSteps BY <1>1, PlainWith DEF PlainNames, PollNames
<1>3. With("const col", col) \in PrintSteps BY PlainOther
<1>4. << With("row", drow), With("const col", col) >> \in Prints
  BY <1>2, <1>3, CallOfTwo DEF PrintSteps
<1> QED BY <1>4, SetPosCall, JoinPrints DEF MoveTo

\* What kmain prints with.
LEMMA NewLineCall == NewLineCode \in Prints
<1>1. MoveTo(0, 1) \in Prints BY MoveToCall, VgaAssumption
<1>2. << Do("overflow?") >> \in Prints BY PlainDo, CallOfOne DEF PlainNames, PollNames, PrintSteps
<1> QED BY <1>1, <1>2, JoinPrints DEF NewLineCode

LEMMA StoreCall ==
  ASSUME NEW ch \in Chars \cup {Nul} PROVE StoreCode(ch) \in Prints
<1>1. 0 \in -1 .. ByteMod - 1 BY VgaAssumption
<1>2. With("row", 0) \in PrintSteps /\ With("col", 0) \in PrintSteps
  BY <1>1, PlainWith DEF PlainNames, PollNames
<1>3. With("store", ch) \in PrintSteps BY PlainOther
<1> QED BY <1>2, <1>3, CallOfThree DEF StoreCode, PrintSteps

LEMMA PutCall == ASSUME NEW ch \in Chars PROVE PutCode(ch) \in Prints
<1>1. << Do("wrap?") >> \in Prints BY PlainDo, CallOfOne DEF PlainNames, PollNames, PrintSteps
<1>2. << Do("wrap?") >> \o StoreCode(ch) \in Prints
  BY <1>1, StoreCall, JoinPrints
<1>3. Move(1, 0) \in Prints BY MoveCall
<1>4. (<< Do("wrap?") >> \o StoreCode(ch)) \o Move(1, 0) \in Prints
  BY <1>2, <1>3, JoinPrints
<1> QED BY <1>4 DEF PutCode

LEMMA ScrollCall == ScrollCode \in Prints
<1>1. ASSUME NEW i \in 1 .. Height PROVE With("scroll row", i - 1) \in PrintSteps
  <2>1. i - 1 \in -1 .. ByteMod - 1 BY VgaAssumption
  <2> QED BY <2>1, PlainWith DEF PlainNames, PollNames
<1>2. ScrollCode \in [1 .. Height -> StepSet]
  BY <1>1 DEF ScrollCode, PlainSteps, PrintSteps
<1>3. ScrollCode \in Seq(StepSet)
  BY <1>2, SeqDef, VgaAssumption
<1>4. Len(ScrollCode) = Height
  <2>1. Len(ScrollCode) \in Nat /\ DOMAIN ScrollCode = 1 .. Len(ScrollCode)
    BY <1>3, LenProperties
  <2>2. DOMAIN ScrollCode = 1 .. Height BY <1>2
  <2>3. \A m, n \in Nat : 1 .. m = 1 .. n => m = n OBVIOUS
  <2> QED BY <2>1, <2>2, <2>3, VgaAssumption
<1>5. ASSUME NEW i \in 1 .. Len(ScrollCode)
      PROVE  ScrollCode[i][1] \notin (Openers \cup Closers) \cup PollNames
  <2>1. ScrollCode[i] = With("scroll row", i - 1) BY <1>4 DEF ScrollCode
  <2> QED BY <1>1, <1>4, <2>1 DEF PlainSteps, PrintSteps
<1>6. ScrollCode \in Calls BY <1>3, <1>5, PlainCall
<1> QED BY <1>5, <1>6 DEF Prints, PrintOnly

\* A turn of kmain's loop is whole.
LEMMA PollCall == PollCode \in Calls
  BY PlainDo, CallOfFour DEF PollCode, PlainNames

-----------------------------------------------------------------------------
(* Types. *)

\* The first step left.
LEMMA OperandType ==
  ASSUME code \in Remainders, code # << >>
  PROVE  /\ code[1][1] \in {"shift", "char?"} => Operand \in Scancodes
         /\ code[1][1] = "store" => Operand \in Chars \cup {Nul}
         /\ code[1][1] = "const col" => Operand \in 0 .. ByteMod - 1
         /\ code[1][1] \in {"row", "col"} => Operand \in Int
<1>1. code[1] \in StepSet
  BY EmptySeq, ElementOfSeq DEF Remainders
<1>2. CASE code[1] \in {"shift", "char?"} \X Scancodes BY <1>2 DEF Operand
<1>3. CASE code[1] \in {"store"} \X (Chars \cup {Nul}) BY <1>3 DEF Operand
<1>4. CASE code[1] \in {"const col"} \X (0 .. ByteMod - 1)
  BY <1>4 DEF Operand
<1>5. CASE code[1] \in (NumericSteps \ {"const col"}) \X (-1 .. ByteMod - 1)
  <2>1. code[1][1] \in NumericSteps \ {"const col"}
    BY <1>5
  <2>2. Operand \in -1 .. ByteMod - 1 BY <1>5 DEF Operand
  <2>3. Operand \in Int BY <2>2, Offsets
  <2>4. code[1][1] \notin {"shift", "char?", "store", "const col"}
    BY <2>1 DEF NumericSteps
  <2> QED BY <2>3, <2>4
<1>6. \/ code[1] \in {"shift", "char?"} \X Scancodes
      \/ code[1] \in {"store"} \X (Chars \cup {Nul})
      \/ code[1] \in (NumericSteps \ {"const col"}) \X (-1 .. ByteMod - 1)
      \/ code[1] \in {"const col"} \X (0 .. ByteMod - 1)
  BY <1>1, Zenon DEF StepSet
<1> QED BY <1>2, <1>3, <1>4, <1>5, <1>6, Zenon

\* A step leaves a remainder, if what replaces it is whole or nothing.
LEMMA StepCode ==
  ASSUME code \in Remainders, NEW name, NEW more \in Remainders,
         Step(name, more), more = << >> \/ name \notin Openers
  PROVE  code' \in Remainders
<1>1. /\ code # << >> /\ code[1][1] = name /\ code' = more \o Tail(code)
  BY DEF Step
<1>2. Tail(code) \in Remainders BY <1>1, RestRemains
<1>3. CASE more = << >>
  <2>1. code' = Tail(code) BY <1>1, <1>2, <1>3, ConcatEmptySeq DEF Remainders
  <2> QED BY <1>2, <2>1
<1>4. CASE name \notin Openers
  <2>1. Tail(code) \in Calls BY <1>1, <1>4, RestRemains
  <2> QED BY <1>1, <2>1, JoinRemainder
<1> QED BY <1>3, <1>4

\* A step that nothing replaces.
LEMMA DoneCode ==
  ASSUME code \in Remainders, NEW name, Step(name, << >>)
  PROVE  /\ code' \in Remainders /\ code' = Tail(code)
         /\ code # << >> /\ code[1][1] = name
<1>1. /\ code # << >> /\ code[1][1] = name /\ code' = << >> \o Tail(code)
  BY DEF Step
<1>2. Tail(code) \in Remainders BY <1>1, RestRemains
<1>3. code' = Tail(code) BY <1>1, <1>2, ConcatEmptySeq DEF Remainders
<1> QED BY <1>1, <1>2, <1>3

\* What keyboard_handler does with a scancode is whole.
LEMMA KeyCall == ASSUME NEW key \in Scancodes PROVE KeyCode(key) \in Calls
<1>1. << With("shift", key) >> \in Calls /\ << With("char?", key) >> \in Calls
  BY PlainOther, CallOfOne
<1>2. << Do("backspace") >> \in Calls BY PlainDo, CallOfOne DEF PlainNames
<1>3. /\ Move(0, -1) \in Calls /\ Move(0, 1) \in Calls
      /\ Move(-1, 0) \in Calls /\ Move(1, 0) \in Calls
  BY MoveCall, CallIsRemainder
<1>4. KeyCode(key) \in {<< With("shift", key) >>, NewLineCode,
                        << Do("backspace") >>, Move(0, -1), Move(0, 1),
                        Move(-1, 0), Move(1, 0), << With("char?", key) >>}
  BY DEF KeyCode, Scancodes, CursorKeys, ShiftDown, ShiftUp
<1> QED BY <1>1, <1>2, <1>3, <1>4, NewLineCall, CallIsRemainder

\* The step of keyboard_handler that moves the head, and keyboard_getc's.
LEMMA PairRemainder ==
  ASSUME NEW a \in StepSet, NEW b \in StepSet,
         a[1] \in Openers, <<a[1], b[1]>> \in Inseparable, b[1] \notin Openers
  PROVE  <<a, b>> \in Remainders
<1> DEFINE s == <<a, b>>
<1>1. s \in Seq(StepSet) /\ Len(s) = 2 /\ s[1] = a /\ s[2] = b
  BY Pair
<1> HIDE DEF s
<1>2. \A i \in 1 .. 2 : IF i = 2 THEN s[i][1] \notin Openers
                        ELSE MayFollow(s[i][1], s[i + 1][1])
  <2>1. \A i \in 1 .. 2 : (i = 1 /\ i + 1 = 2) \/ i = 2 OBVIOUS
  <2> QED BY <1>1, <2>1 DEF MayFollow
<1>3. s \in Remainders BY <1>1, <1>2 DEF Remainders
<1> QED BY <1>3 DEF s

LEMMA NumericDo ==
  ASSUME NEW name \in NumericSteps \ {"const col"}
  PROVE  Do(name) \in StepSet /\ Do(name)[1] = name
<1> QED BY Offsets DEF Do, StepSet

LEMMA HeadCall == << Do("next"), Do("head") >> \in Calls
<1>1. /\ Do("next") \in StepSet /\ Do("next")[1] = "next"
      /\ Do("head") \in StepSet /\ Do("head")[1] = "head"
  BY NumericDo DEF NumericSteps
<1>2. << Do("next"), Do("head") >> \in Remainders
  BY <1>1, PairRemainder DEF Openers, Inseparable
<1>3. << Do("next"), Do("head") >>[1] = Do("next") BY <1>1, Pair
<1> QED BY <1>1, <1>2, <1>3 DEF Calls, Closers

LEMMA TakeRemainder ==
  /\ TakeCode \in Remainders /\ TakeCode # << >> /\ TakeCode[1][1] = "cli"
  /\ Len(TakeCode) = 3
<1> DEFINE s == << Do("cli"), Do("take") >>
           t == << Do("sti") >>
<1>1. /\ Do("cli") \in StepSet /\ Do("cli")[1] = "cli"
      /\ Do("take") \in StepSet /\ Do("take")[1] = "take"
      /\ Do("sti") \in StepSet
  BY NumericDo DEF NumericSteps
<1>2. s \in Remainders BY <1>1, PairRemainder DEF Openers, Inseparable
<1>3. t \in Calls BY PlainDo, CallOfOne DEF PlainNames
<1>4. s \o t \in Remainders BY <1>2, <1>3, JoinRemainder
<1>5. TakeCode = s \o t BY DEF TakeCode
<1>6. TakeCode[1] = Do("cli") /\ TakeCode # << >> /\ Len(TakeCode) = 3
  BY <1>1 DEF TakeCode
<1> QED BY <1>1, <1>4, <1>5, <1>6

-----------------------------------------------------------------------------
(* What comes next in a call. *)

\* The first step of a whole call closes no pair.
LEMMA CallStart ==
  ASSUME NEW s \in Calls, s # << >>
  PROVE  s[1][1] \notin Closers
  BY DEF Calls

\* After a step that opens no pair the rest is whole.
LEMMA PlainNext ==
  ASSUME code \in Remainders, NEW name, NEW more \in Calls,
         Step(name, more), name \notin Openers
  PROVE  code' \in Calls
<1>1. /\ code # << >> /\ code[1][1] = name /\ code' = more \o Tail(code)
  BY DEF Step
<1>2. Tail(code) \in Calls BY <1>1, RestRemains
<1> QED BY <1>1, <1>2, JoinCalls

\* After one that does comes the step that closes it.
LEMMA OpenerNext ==
  ASSUME code \in Remainders, NEW name \in Openers, Step(name, << >>)
  PROVE  code' # << >> /\ <<name, code'[1][1]>> \in Inseparable
<1>1. code' = Tail(code) /\ code # << >> /\ code[1][1] = name BY DoneCode
<1>2. Tail(code) # << >> /\ MayFollow(name, Tail(code)[1][1])
  BY <1>1, RestRemains
<1> QED BY <1>1, <1>2 DEF MayFollow

\* The step that closes each pair.
LEMMA Closing ==
  ASSUME NEW b
  PROVE  /\ <<"set col", b>> \in Inseparable => b = "set row"
         /\ <<"set row", b>> \in Inseparable => b = "select lo"
         /\ <<"select lo", b>> \in Inseparable => b = "write lo"
         /\ <<"write lo", b>> \in Inseparable => b = "select hi"
         /\ <<"select hi", b>> \in Inseparable => b = "write hi"
         /\ <<"next", b>> \in Inseparable => b = "head"
         /\ <<"cli", b>> \in Inseparable => b = "take"
  BY DEF Inseparable

\* keyboard_getc with a character to take goes on with cli.
LEMMA TakeNext ==
  ASSUME code \in Remainders, NEW name, Step(name, TakeCode)
  PROVE  code' # << >> /\ code'[1][1] = "cli"
<1>1. code # << >> /\ code' = TakeCode \o Tail(code) BY DEF Step
<1>2. Tail(code) \in Remainders BY <1>1, RestRemains
<1>3. /\ TakeCode \in Seq(StepSet) /\ Tail(code) \in Seq(StepSet)
      /\ Len(TakeCode) = 3 /\ Len(Tail(code)) \in Nat
  BY <1>2, TakeRemainder, RemainderSeq
<1>4. /\ code' \in Seq(StepSet) /\ Len(code') = 3 + Len(Tail(code))
      /\ code'[1] = TakeCode[1]
  <2> DEFINE m == TakeCode
             n == Tail(code)
  <2>1. /\ m \in Seq(StepSet) /\ n \in Seq(StepSet) /\ code' = m \o n
        /\ Len(m) = 3 /\ Len(n) \in Nat
    BY <1>1, <1>3
  <2> HIDE DEF m, n
  <2>2. /\ m \o n \in Seq(StepSet) /\ Len(m \o n) = Len(m) + Len(n)
        /\ \A i \in 1 .. Len(m) + Len(n) :
             (m \o n)[i] = IF i <= Len(m) THEN m[i] ELSE n[i - Len(m)]
    BY <2>1, ConcatProperties
  <2>3. 1 \in 1 .. Len(m) + Len(n) /\ 1 <= Len(m) BY <2>1
  <2>4. code' \in Seq(StepSet) /\ Len(code') = 3 + Len(n) /\ code'[1] = m[1]
    BY <2>1, <2>2, <2>3
  <2> QED BY <2>4 DEF m, n
<1>5. Len(code') # 0 BY <1>3, <1>4
<1>6. code' # << >> BY <1>5, <1>4, EmptySeq
<1> QED BY <1>4, <1>6, TakeRemainder

-----------------------------------------------------------------------------
(* Lemmas about the ring. *)

\* Remainders of numbers near the divisor.
LEMMA ModNear ==
  ASSUME NEW d \in Nat \ {0}, NEW x \in 0 .. d - 1
  PROVE  x % d = x /\ d % d = 0 /\ (x - d) % d = x
OBVIOUS

\* The next position of the ring.
LEMMA AdvanceIs ==
  ASSUME NEW i \in 0 .. BufferSize - 1
  PROVE  /\ Advance(i) \in 0 .. BufferSize - 1
         /\ Advance(i) = IF i = BufferSize - 1 THEN 0 ELSE i + 1
<1>1. CASE i = BufferSize - 1
  <2>1. i + 1 = BufferSize BY <1>1, BufferAssumption
  <2>2. BufferSize \in Nat \ {0} /\ 0 \in 0 .. BufferSize - 1
    BY BufferAssumption
  <2>3. Advance(i) = 0 BY <2>1, <2>2, ModNear DEF Advance
  <2> QED BY <1>1, <2>2, <2>3
<1>2. CASE i # BufferSize - 1
  <2>1. BufferSize \in Nat \ {0} /\ i + 1 \in 0 .. BufferSize - 1
    BY <1>2, BufferAssumption
  <2>2. Advance(i) = i + 1 BY <2>1, ModNear DEF Advance
  <2> QED BY <1>2, <2>1, <2>2
<1> QED BY <1>1, <1>2

\* The characters between two positions.
LEMMA UnreadIs ==
  ASSUME NEW h \in 0 .. BufferSize - 1, NEW t \in 0 .. BufferSize - 1
  PROVE  Unread(h, t) = IF h >= t THEN h - t ELSE (h - t) + BufferSize
<1>0. BufferSize \in Nat \ {0} BY BufferAssumption
<1>1. CASE h >= t
  <2>1. h - t \in 0 .. BufferSize - 1 BY <1>0, <1>1
  <2> QED BY <1>0, <1>1, <2>1, ModNear DEF Unread
<1>2. CASE ~ h >= t
  <2> DEFINE x == (h - t) + BufferSize
  <2>1. x \in 0 .. BufferSize - 1 /\ h - t = x - BufferSize BY <1>0, <1>2
  <2> HIDE DEF x
  <2>2. (x - BufferSize) % BufferSize = x BY <1>0, <2>1, ModNear
  <2>3. Unread(h, t) = x BY <2>1, <2>2 DEF Unread
  <2> QED BY <1>2, <2>3 DEF x
<1> QED BY <1>1, <1>2

\* The head advanced makes room for one more character, unless the ring was
\* full and looks empty then; the tail advanced takes one.
LEMMA AdvanceUnread ==
  ASSUME NEW h \in 0 .. BufferSize - 1, NEW t \in 0 .. BufferSize - 1
  PROVE  /\ Unread(h, t) \in 0 .. BufferSize - 1
         /\ Unread(Advance(h), t) <= Unread(h, t) + 1
         /\ Advance(h) # t => Unread(Advance(h), t) = Unread(h, t) + 1
         /\ h # t => Unread(h, Advance(t)) = Unread(h, t) - 1
         /\ Advance(h) = t => Unread(h, t) = BufferSize - 1
<1> DEFINE a == Advance(h)
           b == Advance(t)
<1>1. /\ a \in 0 .. BufferSize - 1
      /\ a = IF h = BufferSize - 1 THEN 0 ELSE h + 1
  BY AdvanceIs
<1>2. /\ b \in 0 .. BufferSize - 1
      /\ b = IF t = BufferSize - 1 THEN 0 ELSE t + 1
  BY AdvanceIs
<1> HIDE DEF a, b
<1>3. /\ Unread(h, t) = IF h >= t THEN h - t ELSE (h - t) + BufferSize
      /\ Unread(a, t) = IF a >= t THEN a - t ELSE (a - t) + BufferSize
      /\ Unread(h, b) = IF h >= b THEN h - b ELSE (h - b) + BufferSize
  BY <1>1, <1>2, UnreadIs
<1>4. Unread(h, t) \in 0 .. BufferSize - 1 BY <1>3, BufferAssumption
<1>5. Unread(a, t) <= Unread(h, t) + 1 BY <1>1, <1>3, BufferAssumption
<1>6. a # t => Unread(a, t) = Unread(h, t) + 1
  BY <1>1, <1>3, BufferAssumption
<1>7. h # t => Unread(h, b) = Unread(h, t) - 1
  BY <1>2, <1>3, BufferAssumption
<1>8. a = t => Unread(h, t) = BufferSize - 1
  BY <1>1, <1>3, BufferAssumption
<1> QED BY <1>4, <1>5, <1>6, <1>7, <1>8 DEF a, b

\* keyboard_handler, run at once, adds a character at most, and none to a full
\* ring.
LEMMA HeadAfterIs ==
  ASSUME NEW h \in 0 .. BufferSize - 1, NEW t \in 0 .. BufferSize - 1,
         NEW flag, NEW key
  PROVE  \/ HeadAfter(h, t, flag, key) = h
         \/ /\ HeadAfter(h, t, flag, key) \in 0 .. BufferSize - 1
            /\ HeadAfter(h, t, flag, key) # t
            /\ Unread(HeadAfter(h, t, flag, key), t) = Unread(h, t) + 1
<1> DEFINE x == HeadAfter(h, t, flag, key)
<1>1. x = h \/ (x = Advance(h) /\ x # t) BY DEF HeadAfter, StoreHead
<1> QED BY <1>1, AdvanceIs, AdvanceUnread

-----------------------------------------------------------------------------
(* Lemmas about the console, one register at a time. *)

LEMMA SetColumn ==
  ASSUME NEW v \in Consoles, NEW b \in 0 .. ByteMod - 1
  PROVE  /\ [v EXCEPT !.col = b] \in Consoles
         /\ [v EXCEPT !.col = b].col = b
         /\ [v EXCEPT !.row = b] \in Consoles
         /\ [v EXCEPT !.row = b].row = b /\ [v EXCEPT !.row = b].col = v.col
  BY DEF Consoles

LEMMA Selected ==
  ASSUME NEW v \in Consoles, NEW reg \in {"lo", "hi"}
  PROVE  LET w == [v EXCEPT !.crtc.index = reg]
         IN  /\ w \in Consoles /\ w.col = v.col /\ w.row = v.row
             /\ w.crtc.index = reg /\ w.crtc.lo = v.crtc.lo
             /\ w.crtc.hi = v.crtc.hi
  BY DEF Consoles, Crtc

\* The data port writes the register selected.
LEMMA Written ==
  ASSUME NEW v \in Consoles, NEW b \in 0 .. ByteMod - 1
  PROVE  LET w == [v EXCEPT !.crtc[v.crtc.index] = b]
         IN  /\ w \in Consoles /\ w.col = v.col /\ w.row = v.row
             /\ w.crtc.index = v.crtc.index
             /\ v.crtc.index = "lo" => w.crtc.lo = b /\ w.crtc.hi = v.crtc.hi
             /\ v.crtc.index = "hi" => w.crtc.hi = b /\ w.crtc.lo = v.crtc.lo
<1>1. v.crtc \in Crtc BY DEF Consoles
<1>2. v.crtc.index \in {"lo", "hi"} BY <1>1 DEF Crtc
<1>3. CASE v.crtc.index = "lo"
  BY <1>1, <1>3 DEF Consoles, Crtc
<1>4. CASE v.crtc.index = "hi"
  BY <1>1, <1>4 DEF Consoles, Crtc
<1> QED BY <1>2, <1>3, <1>4

\* What a cell may read as, and what the text page may become.
LEMMA NewCells ==
  ASSUME NEW v \in Consoles, NEW f \in [Addr -> Chars \cup {Nul}]
  PROVE  LET w == [v EXCEPT !.cells = f]
         IN  w \in Consoles /\ w.col = v.col /\ w.row = v.row /\ w.crtc = v.crtc
  BY DEF Consoles

\* The bytes of a cursor location.
LEMMA LocationBytes ==
  ASSUME NEW pos \in Int
  PROVE  LowByte(pos) \in 0 .. ByteMod - 1 /\ HighByte(pos) \in 0 .. ByteMod - 1
<1>1. ByteMod \in Nat \ {0} BY VgaAssumption
<1>2. pos \div ByteMod \in Int BY <1>1
<1>3. pos % ByteMod \in 0 .. ByteMod - 1 BY <1>1
<1>4. (pos \div ByteMod) % ByteMod \in 0 .. ByteMod - 1 BY <1>1, <1>2
<1> QED BY <1>3, <1>4 DEF LowByte, HighByte

-----------------------------------------------------------------------------
(* Every step keeps the types. *)

\* The branches leave whole calls.
LEMMA BranchMore ==
  ASSUME Branch
  PROVE  \E name, more : /\ Step(name, more) /\ name \notin Openers
                         /\ more \in Prints
<1>1. Width - 1 \in 0 .. ByteMod - 1 BY VgaAssumption
<1>2. /\ Move(-1, 0) \in Prints /\ Move(1, 0) \in Prints
      /\ MoveTo(0, -1) \in Prints /\ MoveTo(Width - 1, -1) \in Prints
  <2>1. 0 \in 0 .. ByteMod - 1 BY VgaAssumption
  <2> QED BY <1>1, <2>1, MoveCall, MoveToCall
<1>3. /\ << Do("blank?") >> \in Prints /\ << Do("scan") >> \in Prints
      /\ << Do("scanned?") >> \in Prints /\ << Do("transmit") >> \in Prints
  BY PlainDo, CallOfOne DEF PlainNames, PollNames, PrintSteps
<1>4. {"wrap?", "overflow?", "backspace", "transmit", "blank?", "scan",
       "scanned?"} \cap Openers = {}
  BY DEF Openers
<1>5. CASE Step("wrap?", IF vga.col + 1 >= Width THEN NewLineCode ELSE << >>)
  BY <1>4, <1>5, NewLineCall, EmptyCall
<1>6. CASE Step("overflow?", IF vga.row > Height - 1
                             THEN ScrollCode \o MoveTo(0, -1) ELSE << >>)
  <2>1. ScrollCode \o MoveTo(0, -1) \in Prints BY <1>2, ScrollCall, JoinPrints
  <2> QED BY <1>4, <1>6, <2>1, EmptyCall
<1>7. CASE Step("backspace", BackspaceCode)
  <2>1. MoveTo(Width - 1, -1) \o << Do("transmit"), Do("blank?") >> \in Prints
    <3>1. << Do("transmit"), Do("blank?") >>
            = << Do("transmit") >> \o << Do("blank?") >>
      OBVIOUS
    <3>2. << Do("transmit"), Do("blank?") >> \in Prints
      BY <1>3, <3>1, JoinPrints
    <3> QED BY <1>2, <3>2, JoinPrints
  <2>2. StoreCode(Nul) \in Prints BY StoreCall
  <2>3. BackspaceCode \in Prints
    <3>1. CASE vga.col > 0 BY <1>2, <2>2, <3>1, JoinPrints DEF BackspaceCode
    <3>2. CASE ~ vga.col > 0 BY <2>1, <2>2, <3>2, JoinPrints DEF BackspaceCode
    <3> QED BY <3>1, <3>2
  <2> QED BY <1>4, <1>7, <2>3
<1>8. ASSUME NEW view \in CellViews,
             \/ Step("blank?", IF view = Nul
                               THEN << Do("scan") >> \o Move(1, 0) ELSE << >>)
             \/ Step("scan", IF view = Nul
                             THEN Move(-1, 0) \o << Do("scanned?") >> ELSE << >>)
      PROVE  \E name, more : /\ Step(name, more) /\ name \notin Openers
                               /\ more \in Prints
  <2>1. /\ << Do("scan") >> \o Move(1, 0) \in Prints
        /\ Move(-1, 0) \o << Do("scanned?") >> \in Prints
    BY <1>2, <1>3, JoinPrints
  <2>2. CASE Step("blank?", IF view = Nul
                            THEN << Do("scan") >> \o Move(1, 0) ELSE << >>)
    BY <1>4, <2>1, <2>2, EmptyCall
  <2>3. CASE Step("scan", IF view = Nul
                          THEN Move(-1, 0) \o << Do("scanned?") >> ELSE << >>)
    BY <1>4, <2>1, <2>3, EmptyCall
  <2> QED BY <1>8, <2>2, <2>3
<1>9. CASE Step("scanned?", ScanOn)
  <2>1. ScanOn \in Prints BY <1>2, <1>3 DEF ScanOn
  <2> QED BY <1>4, <1>9, <2>1
<1>10. CASE Step("transmit", << >>) BY <1>4, <1>10, EmptyCall
<1> QED BY <1>5, <1>6, <1>7, <1>8, <1>9, <1>10 DEF Branch

LEMMA BranchCode ==
  ASSUME code \in Remainders, Branch
  PROVE  code' \in Calls
  BY BranchMore, PlainNext, CallIsRemainder

\* The steps of a vga_pos, and of a store or a scroll, that change the console.
LEMMA DrawType ==
  ASSUME TypeInv, SetCol \/ SetRow \/ SelectCrtc \/ WriteCrtc \/ Store \/ ScrollRow
  PROVE  code' \in Remainders /\ vga' \in Consoles
<1>0. /\ vga \in Consoles /\ code \in Remainders
      /\ loc.col \in 0 .. ByteMod - 1 /\ loc.row \in 0 .. ByteMod - 1
  BY DEF TypeInv, MainType, Locals
<1>1. CASE SetCol BY <1>0, <1>1, DoneCode, SetColumn DEF SetCol
<1>2. CASE SetRow BY <1>0, <1>2, DoneCode, SetColumn DEF SetRow
<1>3. CASE SelectCrtc
  <2>1. PICK reg \in {"lo", "hi"} :
          /\ Step(IF reg = "lo" THEN "select lo" ELSE "select hi", << >>)
          /\ vga' = [vga EXCEPT !.crtc.index = reg]
    BY <1>3 DEF SelectCrtc
  <2> QED BY <1>0, <2>1, DoneCode, Selected
<1>4. CASE WriteCrtc
  <2> DEFINE pos == loc.row * Width + loc.col
  <2>1. pos \in Int BY <1>0, VgaAssumption
  <2> HIDE DEF pos
  <2>2. LowByte(pos) \in 0 .. ByteMod - 1 /\ HighByte(pos) \in 0 .. ByteMod - 1
    BY <2>1, LocationBytes
  <2>3. \/ /\ Step("write lo", << >>)
           /\ vga' = [vga EXCEPT !.crtc[vga.crtc.index] = LowByte(pos)]
        \/ /\ Step("write hi", << >>)
           /\ vga' = [vga EXCEPT !.crtc[vga.crtc.index] = HighByte(pos)]
    BY <1>4 DEF WriteCrtc, pos
  <2> QED BY <1>0, <2>2, <2>3, DoneCode, Written
<1>5. CASE Store
  <2>1. Step("store", << >>) /\ vga' = vga_set(vga, Operand, loc.col, loc.row)
    BY <1>5 DEF Store
  <2>2. code' \in Remainders /\ code # << >> /\ code[1][1] = "store"
    BY <1>0, <2>1, DoneCode
  <2>3. Operand \in Chars \cup {Nul} BY <1>0, <2>2, OperandType
  <2>4. loc.col \in Int /\ loc.row \in Int BY <1>0
  <2> QED BY <1>0, <2>1, <2>2, <2>3, <2>4, SetEffect
<1>6. CASE ScrollRow
  <2> DEFINE f == [i \in Addr |->
       IF i \div Width # Operand THEN vga.cells[i]
       ELSE IF i + Width \in Addr THEN vga.cells[i + Width] ELSE Nul]
  <2>1. f \in [Addr -> Chars \cup {Nul}] BY <1>0 DEF Consoles
  <2>2. Step("scroll row", << >>) /\ vga' = [vga EXCEPT !.cells = f]
    BY <1>6 DEF ScrollRow
  <2> HIDE DEF f
  <2> QED BY <1>0, <2>1, <2>2, DoneCode, NewCells
<1> QED BY <1>1, <1>2, <1>3, <1>4, <1>5, <1>6

\* The interrupt.
LEMMA IrqType ==
  ASSUME TypeInv, KeyboardIrq
  PROVE  /\ vga' \in Consoles /\ RingType' /\ hit' \in BOOLEAN
         /\ kbc' = [kbc EXCEPT !.full = FALSE]
         /\ pic' = [irr |-> FALSE, isr |-> FALSE]
         /\ at' \in {"boot", "print", "loop", "halt", "spin", "lost"}
         /\ \/ at' = "lost" /\ code' = << >> /\ loc' = NoLocals
            \/ at' # "lost" /\ UNCHANGED <<code, loc>>
<1> DEFINE key == kbc.byte
<1>1. vga' \in Consoles
  <2>1. CASE key \in CursorKeys BY <2>1, KeyType DEF KeyboardIrq, TypeInv
  <2>2. CASE key \notin CursorKeys BY <2>2 DEF KeyboardIrq, TypeInv
  <2> QED BY <2>1, <2>2
<1>2. shift' \in BOOLEAN BY DEF KeyboardIrq, ShiftAfter, TypeInv, RingType
<1>3. head' \in 0 .. BufferSize - 1 /\ tail' \in 0 .. BufferSize - 1
  BY HeadAfterIs DEF KeyboardIrq, TypeInv, RingType
<1>4. hit' \in BOOLEAN BY DEF KeyboardIrq, TypeInv
<1>5. pic' = [irr |-> FALSE, isr |-> FALSE] BY DEF KeyboardIrq, Eoi
<1>6. at' \in {"boot", "print", "loop", "halt", "spin", "lost"}
  BY DEF KeyboardIrq, Resumed, TypeInv, MainType
<1>7. \/ at' = "lost" /\ code' = << >> /\ loc' = NoLocals
      \/ at' # "lost" /\ UNCHANGED <<code, loc>>
  BY DEF KeyboardIrq
<1>8. kbc' = [kbc EXCEPT !.full = FALSE] BY DEF KeyboardIrq
<1> QED BY <1>1, <1>2, <1>3, <1>4, <1>5, <1>6, <1>7, <1>8 DEF RingType

\* The four groups of state, and the frame of every step inside a call.
LEMMA CallFrame ==
  ASSUME TypeInv, session' = session, at' = at, printed' = printed,
         code' \in Remainders, loc' \in Locals,
         vga' \in Consoles, hit' \in BOOLEAN, HardwareType', RingType'
  PROVE  TypeInv'
  BY DEF TypeInv, MainType, Locals

LEMMA HardwareFrame ==
  ASSUME TypeInv, session' = session, UNCHANGED hardware
  PROVE  HardwareType'
  BY DEF TypeInv, HardwareType, hardware

LEMMA RingFrame ==
  ASSUME TypeInv, UNCHANGED ring
  PROVE  RingType'
  BY DEF TypeInv, RingType, ring

\* kmain between its calls.
LEMMA OutsideType ==
  ASSUME TypeInv, session' = session, Sti \/ PrintChar \/ LeaveSetup \/ Poll
  PROVE  TypeInv'
<1> USE DEF TypeInv
<1>1. CASE Sti
  <2>1. HardwareType' BY <1>1 DEF Sti, HardwareType
  <2>2. RingType' BY <1>1, RingFrame DEF Sti
  <2> QED BY <1>1, <2>1, <2>2 DEF Sti, MainType
<1>2. CASE PrintChar
  <2>1. HardwareType' /\ RingType'
    BY <1>2, HardwareFrame, RingFrame DEF PrintChar
  <2>2. code' \in Remainders
    BY <1>2, NewLineCall, PutCall, CallIsRemainder DEF PrintChar, Call
  <2>3. printed' \in 0 .. session.maxPrints
    <3>1. session.maxPrints \in Nat BY KernelAssumption
    <3> QED BY <1>2, <3>1 DEF PrintChar, MainType
  <2> QED BY <1>2, <2>1, <2>2, <2>3 DEF PrintChar, MainType, Locals
<1>3. CASE LeaveSetup
  <2>1. HardwareType' /\ RingType'
    BY <1>3, HardwareFrame, RingFrame DEF LeaveSetup
  <2> QED BY <1>3, <2>1 DEF LeaveSetup, MainType, Locals
<1>4. CASE Poll
  <2>1. HardwareType' /\ RingType' BY <1>4, HardwareFrame, RingFrame DEF Poll
  <2>2. code' \in Remainders
    BY <1>4, PollCall, CallIsRemainder DEF Poll, Call
  <2> QED BY <1>4, <2>1, <2>2 DEF Poll, MainType, Locals
<1> QED BY <1>1, <1>2, <1>3, <1>4

\* The steps of a call that change its locals.
LEMMA LocalsType ==
  ASSUME TypeInv, session' = session,
         EvalRow \/ EvalCol \/ ComputeNext \/ TestEmpty \/ Take
  PROVE  TypeInv'
<1>0. /\ code \in Remainders /\ loc \in Locals
      /\ vga.col \in Int /\ vga.row \in Int
      /\ head \in 0 .. BufferSize - 1 /\ tail \in 0 .. BufferSize - 1
      /\ vga \in Consoles /\ hit \in BOOLEAN
  BY DEF TypeInv, MainType, Consoles, RingType
<1>1. CASE EvalRow
  <2>1. /\ Step("row", << >>) /\ UNCHANGED <<hardware, vga, ring, hit>>
        /\ loc' = [loc EXCEPT !.row = Byte(vga.row + Operand)]
    BY <1>1 DEF EvalRow
  <2>2. code' \in Remainders /\ code # << >> /\ code[1][1] = "row"
    BY <1>0, <2>1, DoneCode
  <2>3. Operand \in Int BY <1>0, <2>2, OperandType
  <2>4. Byte(vga.row + Operand) \in 0 .. ByteMod - 1
    BY <1>0, <2>3, ByteRange
  <2>5. loc' \in Locals BY <1>0, <2>1, <2>4 DEF Locals
  <2>6. HardwareType' /\ RingType' BY <2>1, HardwareFrame, RingFrame
  <2> QED BY <1>0, <2>1, <2>2, <2>5, <2>6, CallFrame DEF Step
<1>2. CASE EvalCol
  <2>1. /\ UNCHANGED <<hardware, vga, ring, hit>>
        /\ \/ /\ Step("col", << >>)
              /\ loc' = [loc EXCEPT !.col = Byte(vga.col + Operand)]
           \/ /\ Step("const col", << >>)
              /\ loc' = [loc EXCEPT !.col = Operand]
    BY <1>2 DEF EvalCol
  <2>2. code' \in Remainders /\ at' = at /\ printed' = printed
    BY <1>0, <2>1, DoneCode DEF Step
  <2>3. loc' \in Locals
    <3>1. CASE /\ Step("col", << >>)
               /\ loc' = [loc EXCEPT !.col = Byte(vga.col + Operand)]
      <4>1. code # << >> /\ code[1][1] = "col" BY <1>0, <3>1, DoneCode
      <4>2. Operand \in Int BY <1>0, <4>1, OperandType
      <4>3. Byte(vga.col + Operand) \in 0 .. ByteMod - 1
        BY <1>0, <4>2, ByteRange
      <4> QED BY <1>0, <3>1, <4>3 DEF Locals
    <3>2. CASE /\ Step("const col", << >>)
               /\ loc' = [loc EXCEPT !.col = Operand]
      <4>1. code # << >> /\ code[1][1] = "const col" BY <1>0, <3>2, DoneCode
      <4>2. Operand \in 0 .. ByteMod - 1 BY <1>0, <4>1, OperandType
      <4> QED BY <1>0, <3>2, <4>2 DEF Locals
    <3> QED BY <2>1, <3>1, <3>2
  <2>4. HardwareType' /\ RingType' BY <2>1, HardwareFrame, RingFrame
  <2> QED BY <1>0, <2>1, <2>2, <2>3, <2>4, CallFrame
<1>3. CASE ComputeNext
  <2>1. /\ Step("next", << >>) /\ UNCHANGED <<hardware, vga, ring, hit>>
        /\ loc' = [loc EXCEPT !.next = Advance(head)]
    BY <1>3 DEF ComputeNext
  <2>2. code' \in Remainders BY <1>0, <2>1, DoneCode
  <2>3. Advance(head) \in 0 .. BufferSize - 1 BY <1>0, AdvanceIs
  <2>4. loc' \in Locals BY <1>0, <2>1, <2>3 DEF Locals
  <2>5. HardwareType' /\ RingType' BY <2>1, HardwareFrame, RingFrame
  <2> QED BY <1>0, <2>1, <2>2, <2>4, <2>5, CallFrame DEF Step
<1>4. CASE TestEmpty
  <2>1. /\ Step("empty?", IF head = tail THEN << >> ELSE TakeCode)
        /\ UNCHANGED <<hardware, vga, ring, hit>>
        /\ loc' = [loc EXCEPT !.ch = Nul]
    BY <1>4 DEF TestEmpty
  <2>2. code' \in Remainders
    <3>1. "empty?" \notin Openers BY DEF Openers
    <3> QED BY <1>0, <2>1, <3>1, TakeRemainder, EmptyCall, CallIsRemainder, StepCode
  <2>3. loc' \in Locals BY <1>0, <2>1 DEF Locals
  <2>4. HardwareType' /\ RingType' BY <2>1, HardwareFrame, RingFrame
  <2> QED BY <1>0, <2>1, <2>2, <2>3, <2>4, CallFrame DEF Step
<1>5. CASE Take
  <2>1. /\ Step("take", << >>)
        /\ UNCHANGED <<hardware, vga, shift, head, hit>>
        /\ loc' = [loc EXCEPT !.ch = kbd_buffer[tail]]
        /\ tail' = Advance(tail)
    BY <1>5 DEF Take
  <2>2. code' \in Remainders BY <1>0, <2>1, DoneCode
  <2>3. kbd_buffer[tail] = Nul BY <1>0 DEF kbd_buffer
  <2>4. loc' \in Locals BY <1>0, <2>1, <2>3 DEF Locals
  <2>5. Advance(tail) \in 0 .. BufferSize - 1 BY <1>0, AdvanceIs
  <2>6. RingType' BY <2>1, <2>5 DEF RingType, TypeInv
  <2>7. HardwareType' BY <2>1, HardwareFrame
  <2> QED BY <1>0, <2>1, <2>2, <2>4, <2>6, <2>7, CallFrame DEF Step
<1> QED BY <1>1, <1>2, <1>3, <1>4, <1>5

\* The steps of a call that touch the hardware and the ring, and PrintGot.
LEMMA PollType ==
  ASSUME TypeInv, session' = session,
         \/ ReadPort \/ SetShift \/ ApplyShift \/ WriteHead \/ SendEoi
         \/ Flag \/ PrintGot
  PROVE  TypeInv'
<1>0. /\ code \in Remainders /\ loc \in Locals /\ session \in Sessions
      /\ vga \in Consoles /\ hit \in BOOLEAN
      /\ HardwareType /\ RingType
      /\ loc.next \in 0 .. BufferSize - 1 /\ loc.ch \in Chars \cup {Nul}
  BY DEF TypeInv, MainType, Locals
<1>1. CASE ReadPort
  <2>1. /\ Step("inb", KeyCode(kbc.byte))
        /\ kbc' = [kbc EXCEPT !.full = FALSE]
        /\ UNCHANGED <<loc, intr, pic, typed, sent, vga, ring, hit>>
    BY <1>1 DEF ReadPort
  <2>2. kbc.byte \in Scancodes
    BY <1>0, KernelAssumption DEF HardwareType
  <2>3. code' \in Remainders
    <3>1. "inb" \notin Openers BY DEF Openers
    <3> QED BY <1>0, <2>1, <2>2, <3>1, KeyCall, CallIsRemainder, StepCode
  <2>4. HardwareType' BY <1>0, <2>1 DEF HardwareType
  <2>5. RingType' BY <2>1, RingFrame
  <2> QED BY <1>0, <2>1, <2>3, <2>4, <2>5, CallFrame DEF Step
<1>2. CASE SetShift
  <2>1. /\ Step("shift", << >>)
        /\ shift' = ShiftAfter(shift, Operand)
        /\ UNCHANGED <<loc, hardware, vga, head, tail, hit>>
    BY <1>2 DEF SetShift
  <2>2. code' \in Remainders BY <1>0, <2>1, DoneCode
  <2>3. RingType' BY <1>0, <2>1 DEF RingType, ShiftAfter
  <2>4. HardwareType' BY <2>1, HardwareFrame
  <2> QED BY <1>0, <2>1, <2>2, <2>3, <2>4, CallFrame DEF Step
<1>3. CASE ApplyShift
  <2>1. /\ Step("char?", IF YieldsChar(shift, Operand)
                         THEN << Do("next"), Do("head") >> ELSE << >>)
        /\ UNCHANGED <<loc, hardware, vga, ring, hit>>
    BY <1>3 DEF ApplyShift
  <2>2. code' \in Remainders
    <3>1. "char?" \notin Openers BY DEF Openers
    <3> QED BY <1>0, <2>1, <3>1, HeadCall, EmptyCall, CallIsRemainder, StepCode
  <2>3. HardwareType' /\ RingType' BY <2>1, HardwareFrame, RingFrame
  <2> QED BY <1>0, <2>1, <2>2, <2>3, CallFrame DEF Step
<1>4. CASE WriteHead
  <2>1. /\ Step("head", << >>)
        /\ head' = StoreHead(head, loc.next, tail)
        /\ UNCHANGED <<loc, hardware, vga, shift, tail, hit>>
    BY <1>4 DEF WriteHead
  <2>2. code' \in Remainders BY <1>0, <2>1, DoneCode
  <2>3. RingType' BY <1>0, <2>1 DEF RingType, StoreHead
  <2>4. HardwareType' BY <2>1, HardwareFrame
  <2> QED BY <1>0, <2>1, <2>2, <2>3, <2>4, CallFrame DEF Step
<1>5. CASE SendEoi
  <2>1. /\ Step("eoi", << >>) /\ pic' = Eoi(pic)
        /\ UNCHANGED <<loc, intr, kbc, typed, sent, vga, ring, hit>>
    BY <1>5 DEF SendEoi
  <2>2. code' \in Remainders BY <1>0, <2>1, DoneCode
  <2>3. HardwareType' BY <1>0, <2>1 DEF HardwareType, Eoi
  <2>4. RingType' BY <2>1, RingFrame
  <2> QED BY <1>0, <2>1, <2>2, <2>3, <2>4, CallFrame DEF Step
<1>6. CASE Flag
  <2>1. /\ \/ Step("cli", << >>) /\ intr' = FALSE
           \/ Step("sti", << >>) /\ intr' = TRUE
        /\ UNCHANGED <<loc, pic, kbc, typed, sent, vga, ring, hit>>
    BY <1>6 DEF Flag
  <2>2. code' \in Remainders /\ at' = at /\ printed' = printed
    BY <1>0, <2>1, DoneCode DEF Step
  <2>3. HardwareType' BY <1>0, <2>1 DEF HardwareType
  <2>4. RingType' BY <2>1, RingFrame
  <2> QED BY <1>0, <2>1, <2>2, <2>3, <2>4, CallFrame
<1>7. CASE PrintGot
  <2>1. /\ Step("print?", IF loc.ch # Nul THEN PutCode(loc.ch) ELSE << >>)
        /\ UNCHANGED <<loc, hardware, vga, ring, hit>>
    BY <1>7 DEF PrintGot
  <2>2. code' \in Remainders
    <3>1. "print?" \notin Openers BY DEF Openers
    <3> QED BY <1>0, <2>1, <3>1, PutCall, EmptyCall, CallIsRemainder, StepCode
  <2>3. HardwareType' /\ RingType' BY <2>1, HardwareFrame, RingFrame
  <2> QED BY <1>0, <2>1, <2>2, <2>3, CallFrame DEF Step
<1> QED BY <1>1, <1>2, <1>3, <1>4, <1>5, <1>6, <1>7

LEMMA TypeStep == TypeInv /\ [Next]_vars => TypeInv'
<1> SUFFICES ASSUME TypeInv, [Next]_vars PROVE TypeInv' OBVIOUS
<1>0. session' = session BY DEF Next, vars
<1>1. ASSUME NEW key \in session.keys, Type(key) PROVE TypeInv'
  <2>1. HardwareType'
    <3>1. /\ typed' \in Seq(session.keys) /\ Len(typed') = Len(typed) + 1
          /\ Len(typed) \in Nat
      BY <1>1, AppendProperties, LenProperties DEF Type, TypeInv, HardwareType
    <3>2. session.maxKeys \in Nat BY KernelAssumption DEF TypeInv
    <3> QED BY <1>0, <1>1, <3>1, <3>2 DEF Type, TypeInv, HardwareType
  <2>2. RingType' BY <1>1, RingFrame DEF Type
  <2> QED BY <1>0, <1>1, <2>1, <2>2 DEF Type, TypeInv, MainType, Locals, main
<1>2. CASE KbcLoad
  <2>1. HardwareType'
    <3>1. sent + 1 \in 1 .. Len(typed)
      BY <1>2, LenProperties DEF KbcLoad, TypeInv, HardwareType
    <3>2. typed[sent + 1] \in session.keys
      BY <3>1, ElementOfSeq DEF TypeInv, HardwareType
    <3>3. /\ kbc' = [byte |-> typed[sent + 1], full |-> TRUE]
          /\ pic' = [pic EXCEPT !.irr = TRUE]
          /\ sent' = sent + 1 /\ intr' = intr /\ typed' = typed
      BY <1>2 DEF KbcLoad
    <3>4. kbc' \in [byte : session.keys \cup session.stale, full : BOOLEAN]
      BY <3>2, <3>3
    <3>5. pic' \in [irr : BOOLEAN, isr : BOOLEAN]
      BY <3>3 DEF TypeInv, HardwareType
    <3>6. sent' \in 0 .. Len(typed) BY <3>1, <3>3
    <3> QED BY <1>0, <3>3, <3>4, <3>5, <3>6 DEF TypeInv, HardwareType
  <2>2. RingType' BY <1>2, RingFrame DEF KbcLoad
  <2> QED BY <1>0, <1>2, <2>1, <2>2 DEF KbcLoad, TypeInv, MainType, Locals, main
<1>3. CASE KeyboardIrq
  <2>1. HardwareType'
    <3>1. /\ kbc' = [kbc EXCEPT !.full = FALSE]
          /\ pic' = [irr |-> FALSE, isr |-> FALSE]
          /\ intr' = intr /\ typed' = typed /\ sent' = sent
      BY <1>3, IrqType DEF KeyboardIrq
    <3>2. /\ kbc' \in [byte : session.keys \cup session.stale, full : BOOLEAN]
          /\ pic' \in [irr : BOOLEAN, isr : BOOLEAN]
      BY <3>1 DEF TypeInv, HardwareType
    <3> QED BY <1>0, <3>1, <3>2 DEF TypeInv, HardwareType
  <2>2. NoLocals \in Locals /\ << >> \in Remainders
    BY VgaAssumption, BufferAssumption, EmptyCall, CallIsRemainder
    DEF NoLocals, Locals
  <2>3. loc' \in Locals /\ code' \in Remainders
    BY <1>3, <2>2, IrqType DEF TypeInv, MainType
  <2> QED BY <1>0, <1>3, <2>1, <2>3, IrqType DEF TypeInv, MainType, KeyboardIrq, Locals
<1>4. CASE Sti \/ PrintChar \/ LeaveSetup \/ Poll BY <1>0, <1>4, OutsideType
<1>5. CASE EvalRow \/ EvalCol \/ ComputeNext \/ TestEmpty \/ Take
  BY <1>0, <1>5, LocalsType
<1>6. CASE SetCol \/ SetRow \/ SelectCrtc \/ WriteCrtc \/ Store \/ ScrollRow
  <2>1. code' \in Remainders /\ vga' \in Consoles BY <1>6, DrawType
  <2>2. /\ at' = at /\ printed' = printed /\ loc' = loc /\ hit' \in BOOLEAN
        /\ UNCHANGED hardware /\ UNCHANGED ring
    BY <1>6 DEF SetCol, SetRow, SelectCrtc, WriteCrtc, Store, ScrollRow,
                OnlyVga, Step, TypeInv
  <2>3. HardwareType' /\ RingType'
    BY <1>0, <2>2, HardwareFrame, RingFrame
  <2> QED BY <1>0, <2>1, <2>2, <2>3, CallFrame DEF TypeInv, MainType
<1>7. CASE Branch
  <2>1. code' \in Remainders
    BY <1>7, BranchCode, CallIsRemainder DEF TypeInv, MainType
  <2>2. /\ at' = at /\ printed' = printed
        /\ UNCHANGED <<loc, hardware, vga, ring, hit>>
    BY <1>7 DEF Branch, Step
  <2>3. HardwareType' /\ RingType'
    BY <1>0, <2>2, HardwareFrame, RingFrame
  <2> QED BY <1>0, <2>1, <2>2, <2>3, CallFrame DEF TypeInv, MainType
<1>8. CASE \/ ReadPort \/ SetShift \/ ApplyShift \/ WriteHead \/ SendEoi
           \/ Flag \/ PrintGot
  BY <1>0, <1>8, PollType
<1>9. CASE UNCHANGED vars
  BY <1>9 DEF vars, main, hardware, ring, TypeInv, MainType, HardwareType,
              RingType, Locals
<1> QED
  BY <1>1, <1>2, <1>3, <1>4, <1>5, <1>6, <1>7, <1>8, <1>9 DEF Next, Main

LEMMA TypeInit == Init => TypeInv
<1> SUFFICES ASSUME Init PROVE TypeInv OBVIOUS
<1>1. session \in Sessions /\ hit \in BOOLEAN BY DEF Init
<1>2. vga \in Consoles BY ClearedType DEF Init
<1>3. MainType
  <2>1. session.maxPrints \in Nat BY <1>1, KernelAssumption
  <2>2. loc \in Locals
    BY VgaAssumption, BufferAssumption DEF Init, NoLocals, Locals
  <2> QED BY <2>1, <2>2, EmptyCall, CallIsRemainder DEF Init, MainType
<1>4. HardwareType
  <2>1. session.maxKeys \in Nat BY <1>1, KernelAssumption
  <2>2. typed \in Seq(session.keys) /\ Len(typed) = 0 BY EmptySeq DEF Init
  <2>3. /\ intr \in BOOLEAN /\ pic \in [irr : BOOLEAN, isr : BOOLEAN]
        /\ kbc \in [byte : session.stale, full : BOOLEAN] /\ sent = 0
    BY DEF Init
  <2>4. kbc \in [byte : session.keys \cup session.stale, full : BOOLEAN]
    BY <2>3
  <2> QED BY <2>1, <2>2, <2>3, <2>4 DEF HardwareType
<1>5. RingType
  <2>1. 0 \in 0 .. BufferSize - 1 BY BufferAssumption
  <2>2. shift = FALSE /\ head = 0 /\ tail = 0 BY DEF Init
  <2> QED BY <2>1, <2>2 DEF RingType
<1> QED BY <1>1, <1>2, <1>3, <1>4, <1>5 DEF TypeInv

LEMMA TypeInvImplies == TypeInv => TypeOK
<1> SUFFICES ASSUME TypeInv PROVE TypeOK OBVIOUS
<1>1. ASSUME NEW i \in DOMAIN code
      PROVE  \/ code[i] \in {"shift", "char?"} \X Scancodes
             \/ code[i] \in {"store"} \X (Chars \cup {Nul})
             \/ code[i][1] \in NumericSteps /\ code[i][2] \in -1 .. ByteMod - 1
  <2>1. code[i] \in StepSet
    BY RemainderSeq, ElementOfSeq DEF TypeInv, MainType
  <2>2. CASE code[i] \in (NumericSteps \ {"const col"}) \X (-1 .. ByteMod - 1)
    BY <2>2
  <2>3. CASE code[i] \in {"const col"} \X (0 .. ByteMod - 1)
    <3>1. code[i][1] = "const col" /\ code[i][2] \in 0 .. ByteMod - 1
      BY <2>3
    <3>2. code[i][2] \in -1 .. ByteMod - 1 BY <3>1, Offsets
    <3> QED BY <3>1, <3>2 DEF NumericSteps
  <2> QED BY <2>1, <2>2, <2>3 DEF StepSet
<1> QED BY <1>1 DEF TypeOK, TypeInv, MainType, HardwareType, RingType, Locals

\* kmain and the interrupt keep every variable in its range: the positions of
\* the ring, the bytes handed to the CRTC, and the steps of every call.
THEOREM KernelType == Spec => []TypeOK
<1> QED BY TypeInit, TypeStep, TypeInvImplies, PTL DEF Spec

-----------------------------------------------------------------------------
(* The ring buffer. *)

\* A whole call knows nothing yet of the ring.
LEMMA CallRing ==
  ASSUME code' \in Calls PROVE RingInv'
  BY DEF Calls, RingInv, Closers

\* Neither does a call in vga_pos.
LEMMA OtherRing ==
  ASSUME code' # << >> => code'[1][1] \notin {"cli", "take", "head"}
  PROVE  RingInv'
  BY DEF RingInv

\* Every step of a call but those of the ring, and what follows it.
LEMMA DrawNext ==
  ASSUME TypeInv,
         \/ EvalRow \/ EvalCol \/ SetCol \/ SetRow \/ SelectCrtc \/ WriteCrtc
         \/ Store \/ ScrollRow
  PROVE  code' # << >> => code'[1][1] \notin {"cli", "take", "head"}
<1>0. code \in Remainders BY DEF TypeInv, MainType
<1>1. \E name \in {"row", "col", "const col", "set col", "set row",
                   "select lo", "write lo", "select hi", "write hi", "store",
                   "scroll row"} : Step(name, << >>)
  BY DEF EvalRow, EvalCol, SetCol, SetRow, SelectCrtc, WriteCrtc, Store, ScrollRow
<1>2. PICK name \in {"row", "col", "const col", "set col", "set row",
                     "select lo", "write lo", "select hi", "write hi", "store",
                     "scroll row"} : Step(name, << >>)
  BY <1>1
<1>3. CASE name \in Openers
  <2>1. <<name, code'[1][1]>> \in Inseparable BY <1>0, <1>2, <1>3, OpenerNext
  <2> QED BY <1>2, <2>1 DEF Inseparable
<1>4. CASE name \notin Openers
  <2>1. code' \in Calls BY <1>0, <1>2, <1>4, EmptyCall, PlainNext
  <2> QED BY <2>1, CallStart DEF Closers
<1> QED BY <1>3, <1>4

\* What the steps of the polled keyboard_handler and keyboard_getc leave.
LEMMA PollNext ==
  ASSUME TypeInv
  PROVE  /\ ReadPort \/ SetShift \/ ApplyShift \/ WriteHead \/ SendEoi
              \/ Take \/ PrintGot => code' \in Calls
         /\ Flag => \/ code' \in Calls
                    \/ /\ code[1][1] = "cli"
                       /\ code' # << >> /\ code'[1][1] = "take"
         /\ TestEmpty => \/ code' \in Calls
                         \/ head # tail /\ code' # << >> /\ code'[1][1] = "cli"
         /\ ComputeNext => code' # << >> /\ code'[1][1] = "head"
<1>0. /\ code \in Remainders /\ kbc.byte \in Scancodes
      /\ loc.ch \in Chars \cup {Nul}
  BY KernelAssumption DEF TypeInv, MainType, Locals, HardwareType
<1>1. {"inb", "shift", "char?", "head", "eoi", "take", "print?", "empty?", "sti"}
        \cap Openers = {}
  BY DEF Openers
<1>2. ReadPort => code' \in Calls
  BY <1>0, <1>1, KeyCall, PlainNext DEF ReadPort
<1>3. SetShift \/ WriteHead \/ SendEoi \/ Take => code' \in Calls
  BY <1>0, <1>1, EmptyCall, PlainNext DEF SetShift, WriteHead, SendEoi, Take
<1>4. ApplyShift => code' \in Calls
  BY <1>0, <1>1, HeadCall, EmptyCall, PlainNext DEF ApplyShift
<1>5. PrintGot => code' \in Calls
  <2>1. (IF loc.ch # Nul THEN PutCode(loc.ch) ELSE << >>) \in Calls
    BY <1>0, PutCall, EmptyCall, CallIsRemainder
  <2> QED BY <1>0, <1>1, <2>1, PlainNext DEF PrintGot
<1>6. ASSUME Flag
      PROVE  \/ code' \in Calls
             \/ code[1][1] = "cli" /\ code' # << >> /\ code'[1][1] = "take"
  <2>1. CASE Step("sti", << >>) BY <1>0, <1>1, <2>1, EmptyCall, PlainNext
  <2>2. CASE Step("cli", << >>)
    <3>1. "cli" \in Openers BY DEF Openers
    <3>2. code' # << >> /\ <<"cli", code'[1][1]>> \in Inseparable
      BY <1>0, <2>2, <3>1, OpenerNext
    <3> QED BY <2>2, <3>2, Closing DEF Step
  <2> QED BY <1>6, <2>1, <2>2 DEF Flag
<1>7. ASSUME TestEmpty
      PROVE  \/ code' \in Calls
             \/ head # tail /\ code' # << >> /\ code'[1][1] = "cli"
  <2>1. CASE head = tail
    BY <1>0, <1>1, <1>7, <2>1, EmptyCall, PlainNext DEF TestEmpty
  <2>2. CASE head # tail
    BY <1>0, <1>7, <2>2, TakeNext DEF TestEmpty
  <2> QED BY <2>1, <2>2
<1>8. ASSUME ComputeNext PROVE code' # << >> /\ code'[1][1] = "head"
  <2>1. "next" \in Openers BY DEF Openers
  <2>2. Step("next", << >>) BY <1>8 DEF ComputeNext
  <2>3. code' # << >> /\ <<"next", code'[1][1]>> \in Inseparable
    BY <1>0, <2>1, <2>2, OpenerNext
  <2> QED BY <2>3, Closing
<1> QED BY <1>2, <1>3, <1>4, <1>5, <1>6, <1>7, <1>8

LEMMA RingStep == TypeInv /\ RingInv /\ [Next]_vars => RingInv'
<1> SUFFICES ASSUME TypeInv, RingInv, [Next]_vars PROVE RingInv' OBVIOUS
<1>0. /\ code \in Remainders
      /\ head \in 0 .. BufferSize - 1 /\ tail \in 0 .. BufferSize - 1
      /\ loc.next \in 0 .. BufferSize - 1
  BY DEF TypeInv, MainType, Locals, RingType
<1>1. CASE UNCHANGED <<code, loc, head, tail>>
  BY <1>1 DEF RingInv, Unread
<1>2. CASE KeyboardIrq
  <2>1. CASE code' = << >> BY <2>1 DEF RingInv
  <2>2. CASE code' = code /\ loc' = loc
    <3>1. /\ tail' = tail
          /\ \/ head' = head
             \/ head' # tail /\ Unread(head', tail) = Unread(head, tail) + 1
      BY <1>0, <1>2, HeadAfterIs DEF KeyboardIrq
    <3>2. Unread(loc.next, tail)' = Unread(loc.next, tail)
          /\ Unread(head, tail)' = Unread(head', tail)
      BY <2>2, <3>1
    <3>3. Unread(loc.next, tail) \in Int /\ Unread(head, tail) \in Int
      <4>1. Unread(loc.next, tail) \in 0 .. BufferSize - 1
        BY <1>0, AdvanceUnread
      <4>2. Unread(head, tail) \in 0 .. BufferSize - 1
        BY <1>0, AdvanceUnread
      <4> QED BY <4>1, <4>2
    <3>4. code # << >> /\ code[1][1] \in {"cli", "take"} => head' # tail'
      BY <3>1 DEF RingInv
    <3>5. code # << >> /\ code[1][1] = "head"
            => Unread(loc.next, tail) <= Unread(head', tail) + 1
      BY <3>1, <3>3 DEF RingInv
    <3> QED BY <2>2, <3>2, <3>4, <3>5 DEF RingInv
  <2> QED BY <1>2, <2>1, <2>2, IrqType
<1>3. CASE PrintChar \/ Poll
  <2>1. code' \in Calls
    BY <1>3, NewLineCall, PutCall, PollCall, CallIsRemainder
    DEF PrintChar, Poll, Call
  <2> QED BY <2>1, CallRing
<1>4. CASE \/ EvalRow \/ EvalCol \/ SetCol \/ SetRow \/ SelectCrtc \/ WriteCrtc
           \/ Store \/ ScrollRow
  BY <1>4, DrawNext, OtherRing
<1>5. CASE Branch BY <1>0, <1>5, BranchCode, CallRing
<1>6. CASE \/ ReadPort \/ SetShift \/ ApplyShift \/ WriteHead \/ SendEoi
           \/ Take \/ PrintGot
  BY <1>6, PollNext, CallRing
<1>7. CASE Flag
  <2>1. CASE code' \in Calls BY <2>1, CallRing
  <2>2. CASE code[1][1] = "cli" /\ code' # << >> /\ code'[1][1] = "take"
    <3>1. head' = head /\ tail' = tail /\ code # << >>
      BY <1>7 DEF Flag, ring, Step
    <3> QED BY <2>2, <3>1 DEF RingInv
  <2> QED BY <1>7, <2>1, <2>2, PollNext
<1>8. CASE TestEmpty
  <2>1. CASE code' \in Calls BY <2>1, CallRing
  <2>2. CASE head # tail /\ code' # << >> /\ code'[1][1] = "cli"
    <3>1. head' = head /\ tail' = tail BY <1>8 DEF TestEmpty, ring
    <3> QED BY <2>2, <3>1 DEF RingInv
  <2> QED BY <1>8, <2>1, <2>2, PollNext
<1>9. CASE ComputeNext
  <2>1. code' # << >> /\ code'[1][1] = "head" BY <1>9, PollNext
  <2>2. /\ loc' = [loc EXCEPT !.next = Advance(head)]
        /\ head' = head /\ tail' = tail
    BY <1>9 DEF ComputeNext, ring
  <2>3. loc'.next = Advance(head) BY <2>2 DEF TypeInv, MainType, Locals
  <2>4. Unread(Advance(head), tail) <= Unread(head, tail) + 1
    BY <1>0, AdvanceUnread
  <2>5. Unread(loc.next, tail)' = Unread(Advance(head), tail)
        /\ Unread(head, tail)' = Unread(head, tail)
    BY <2>2, <2>3
  <2> QED BY <2>1, <2>4, <2>5 DEF RingInv
<1>10. ASSUME (\E key \in session.keys : Type(key)) \/ KbcLoad \/ Sti
                \/ LeaveSetup \/ UNCHANGED vars
       PROVE  UNCHANGED <<code, loc, head, tail>>
  BY <1>10 DEF Type, KbcLoad, Sti, LeaveSetup, vars, main, ring
<1> QED
  BY <1>1, <1>2, <1>3, <1>4, <1>5, <1>6, <1>7, <1>8, <1>9, <1>10 DEF Next, Main

\* What each step does to the ring.
LEMMA RingStepAllowed ==
  ASSUME TypeInv, RingInv, [Next]_vars
  PROVE  /\ head' # head => head' # tail' /\ tail' = tail
         /\ tail' # tail => head # tail /\ head' = head
         /\ Unread(head', tail') <= Unread(head, tail) + 1
<1>0. /\ head \in 0 .. BufferSize - 1 /\ tail \in 0 .. BufferSize - 1
      /\ Unread(head, tail) \in Int
  BY AdvanceUnread DEF TypeInv, RingType
<1>1. CASE KeyboardIrq
  <2>1. /\ tail' = tail
        /\ \/ head' = head
           \/ head' # tail /\ Unread(head', tail) = Unread(head, tail) + 1
    BY <1>0, <1>1, HeadAfterIs DEF KeyboardIrq
  <2> QED BY <1>0, <2>1
<1>2. CASE WriteHead
  <2>1. /\ code # << >> /\ code[1][1] = "head" /\ tail' = tail
        /\ \/ head' = head
           \/ head' = loc.next /\ head' # tail
    BY <1>2 DEF WriteHead, Step, StoreHead
  <2>2. Unread(loc.next, tail) <= Unread(head, tail) + 1
    BY <2>1 DEF RingInv
  <2> QED BY <1>0, <2>1, <2>2
<1>3. CASE Take
  <2>1. /\ code # << >> /\ code[1][1] = "take"
        /\ head' = head /\ tail' = Advance(tail)
    BY <1>3 DEF Take, Step
  <2>2. head # tail BY <2>1 DEF RingInv
  <2>3. Unread(head, Advance(tail)) = Unread(head, tail) - 1
    BY <1>0, <2>2, AdvanceUnread
  <2> QED BY <1>0, <2>1, <2>2, <2>3
<1>4. CASE UNCHANGED <<head, tail>> BY <1>0, <1>4
<1>5. ASSUME ~ KeyboardIrq, ~ WriteHead, ~ Take PROVE UNCHANGED <<head, tail>>
  BY <1>5
  DEF Next, Main, vars, ring, Type, KbcLoad, Sti, PrintChar, LeaveSetup, Poll,
      EvalRow, EvalCol, SetCol, SetRow, SelectCrtc, WriteCrtc, Store, ScrollRow,
      OnlyVga, Branch, ReadPort, SetShift, ApplyShift, ComputeNext, SendEoi,
      TestEmpty, Flag, PrintGot
<1> QED BY <1>1, <1>2, <1>3, <1>4, <1>5

LEMMA RingInit == Init => RingInv
  BY DEF Init, RingInv

\* The ring buffer shared by kmain's polled keyboard_handler, keyboard_getc
\* and the interrupt, wherever the interrupt hits: no store of the head
\* catches up with the tail or adds more than one character, and no character
\* is taken from an empty ring.
THEOREM RingIsDisciplined == Spec => RingDiscipline
<1>1. TypeInv /\ RingInv /\ [Next]_vars
        => [ /\ head' # head => head' # tail' /\ tail' = tail
             /\ tail' # tail => head # tail /\ head' = head
             /\ Unread(head', tail') <= Unread(head, tail) + 1 ]_vars
  BY RingStepAllowed
<1> QED
  BY <1>1, TypeInit, TypeStep, RingInit, RingStep, PTL DEF Spec, RingDiscipline

-----------------------------------------------------------------------------
(* The cursor. *)

\* The steps by which vga_pos has left the two cursors apart.
Underway == {"set row", "select lo", "write lo", "select hi", "write hi"}

\* Between two vga_pos the cursors agree, and stay so.
LEMMA CursorFrame ==
  ASSUME CursorInv, hit' = hit, at # "lost",
         code # << >> => code[1][1] \notin Underway,
         code' # << >> => code'[1][1] \notin Underway,
         vga'.col = vga.col, vga'.row = vga.row, vga'.crtc = vga.crtc
  PROVE  CursorInv'
<1>1. ~ hit => Agrees(vga) BY DEF CursorInv, Progress, Underway
<1>2. ~ hit => Agrees(vga') BY <1>1 DEF Agrees
<1>3. Agrees(vga)' <=> Agrees(vga') BY DEF Agrees
<1>4. Agrees(vga)' => Progress' BY DEF Progress, Underway
<1> QED BY <1>2, <1>3, <1>4 DEF CursorInv

\* A whole call begins with no step of vga_pos under way.
LEMMA CallUnderway ==
  ASSUME NEW s \in Calls, s # << >> PROVE s[1][1] \notin Underway
  BY CallStart DEF Underway, Closers

\* The steps of vga_pos.
LEMMA CursorDraw ==
  ASSUME TypeInv, CursorInv, at # "lost",
         SetCol \/ SetRow \/ SelectCrtc \/ WriteCrtc
  PROVE  CursorInv'
<1>0. /\ code \in Remainders /\ vga \in Consoles
      /\ loc.col \in 0 .. ByteMod - 1 /\ loc.row \in 0 .. ByteMod - 1
  BY DEF TypeInv, MainType, Locals
<1>1. {"set col", "set row", "select lo", "write lo", "select hi"} \subseteq Openers
  BY DEF Openers
<1>2. CASE SetCol
  <2>1. /\ Step("set col", << >>) /\ vga' = [vga EXCEPT !.col = loc.col]
        /\ loc' = loc
    BY <1>2 DEF SetCol
  <2>2. code' # << >> /\ code'[1][1] = "set row"
    BY <1>0, <1>1, <2>1, OpenerNext, Closing
  <2>3. vga'.col = loc'.col BY <1>0, <2>1, SetColumn
  <2> QED BY <2>2, <2>3 DEF CursorInv, Progress, ColSet
<1>3. CASE SetRow
  <2>1. /\ Step("set row", << >>) /\ vga' = [vga EXCEPT !.row = loc.row]
        /\ loc' = loc /\ hit' = hit
    BY <1>3 DEF SetRow, OnlyVga
  <2>2. code' # << >> /\ code'[1][1] = "select lo"
    BY <1>0, <1>1, <2>1, OpenerNext, Closing
  <2>3. ~ hit => vga.col = loc.col
    BY <2>1 DEF Step, CursorInv, Progress, ColSet
  <2>4. vga'.col = vga.col /\ vga'.row = loc'.row BY <1>0, <2>1, SetColumn
  <2> QED BY <2>1, <2>2, <2>3, <2>4 DEF CursorInv, Progress, BothSet, ColSet
<1>4. CASE SelectCrtc
  <2>1. PICK reg \in {"lo", "hi"} :
          /\ Step(IF reg = "lo" THEN "select lo" ELSE "select hi", << >>)
          /\ vga' = [vga EXCEPT !.crtc.index = reg]
    BY <1>4 DEF SelectCrtc
  <2>2. loc' = loc /\ hit' = hit BY <1>4 DEF SelectCrtc, OnlyVga
  <2>3. /\ vga'.col = vga.col /\ vga'.row = vga.row /\ vga'.crtc.index = reg
        /\ vga'.crtc.lo = vga.crtc.lo
    BY <1>0, <2>1, Selected
  <2>4. CASE reg = "lo"
    <3>1. Step("select lo", << >>) BY <2>1, <2>4
    <3>2. code' # << >> /\ code'[1][1] = "write lo"
      BY <1>0, <1>1, <3>1, OpenerNext, Closing
    <3>3. ~ hit => BothSet
      BY <3>1 DEF Step, CursorInv, Progress
    <3>4. BothSet => BothSet' BY <2>2, <2>3 DEF BothSet, ColSet
    <3> QED BY <2>2, <2>3, <2>4, <3>2, <3>3, <3>4 DEF CursorInv, Progress
  <2>5. CASE reg = "hi"
    <3>1. Step("select hi", << >>) BY <2>1, <2>5
    <3>2. code' # << >> /\ code'[1][1] = "write hi"
      BY <1>0, <1>1, <3>1, OpenerNext, Closing
    <3>3. ~ hit => LowSent
      BY <3>1 DEF Step, CursorInv, Progress
    <3>4. LowSent => LowSent'
      BY <2>2, <2>3 DEF LowSent, BothSet, ColSet
    <3> QED BY <2>2, <2>3, <2>5, <3>2, <3>3, <3>4 DEF CursorInv, Progress
  <2> QED BY <2>4, <2>5
<1>5. CASE WriteCrtc
  <2> DEFINE pos == CellIndex(loc.col, loc.row)
  <2>1. pos = loc.row * Width + loc.col BY DEF CellIndex
  <2>2. pos \in Int BY <1>0, <2>1, VgaAssumption
  <2>3. /\ \/ /\ Step("write lo", << >>)
              /\ vga' = [vga EXCEPT !.crtc[vga.crtc.index] = LowByte(pos)]
           \/ /\ Step("write hi", << >>)
              /\ vga' = [vga EXCEPT !.crtc[vga.crtc.index] = HighByte(pos)]
        /\ loc' = loc /\ hit' = hit
    BY <1>5, <2>1 DEF WriteCrtc, OnlyVga
  <2> HIDE DEF pos
  <2>4. LowByte(pos) \in 0 .. ByteMod - 1 /\ HighByte(pos) \in 0 .. ByteMod - 1
    BY <2>2, LocationBytes
  <2>5. BothSet => CellIndex(vga.col, vga.row) = pos
    BY DEF BothSet, ColSet, pos
  <2>6. CASE /\ Step("write lo", << >>)
             /\ vga' = [vga EXCEPT !.crtc[vga.crtc.index] = LowByte(pos)]
    <3>1. code' # << >> /\ code'[1][1] = "select hi"
      BY <1>0, <1>1, <2>6, OpenerNext, Closing
    <3>2. ~ hit => BothSet /\ vga.crtc.index = "lo"
      BY <2>6 DEF Step, CursorInv, Progress
    <3>3. /\ vga'.col = vga.col /\ vga'.row = vga.row
          /\ vga.crtc.index = "lo" => vga'.crtc.lo = LowByte(pos)
      BY <1>0, <2>4, <2>6, Written
    <3>4. BothSet /\ vga.crtc.index = "lo" => LowSent'
      BY <2>3, <2>5, <3>3 DEF LowSent, BothSet, ColSet
    <3> QED BY <2>3, <3>1, <3>2, <3>4 DEF CursorInv, Progress
  <2>7. CASE /\ Step("write hi", << >>)
             /\ vga' = [vga EXCEPT !.crtc[vga.crtc.index] = HighByte(pos)]
    <3>1. "write hi" \notin Openers BY DEF Openers
    <3>2. code' \in Calls BY <1>0, <2>7, <3>1, EmptyCall, PlainNext
    <3>3. ~ hit => LowSent /\ vga.crtc.index = "hi"
      BY <2>7 DEF Step, CursorInv, Progress
    <3>4. /\ vga'.col = vga.col /\ vga'.row = vga.row
          /\ vga.crtc.index = "hi" => /\ vga'.crtc.hi = HighByte(pos)
                                      /\ vga'.crtc.lo = vga.crtc.lo
      BY <1>0, <2>4, <2>7, Written
    <3>5. LowSent /\ vga.crtc.index = "hi" => Agrees(vga')
      BY <2>5, <3>4 DEF LowSent, Agrees
    <3>6. Agrees(vga') => Progress'
      BY <3>2, CallUnderway DEF Progress, Underway, Agrees
    <3> QED BY <2>3, <3>3, <3>5, <3>6 DEF CursorInv
  <2> QED BY <2>3, <2>6, <2>7
<1> QED BY <1>2, <1>3, <1>4, <1>5

\* The steps of a call outside vga_pos.
LEMMA CursorOther ==
  ASSUME TypeInv, CursorInv, at # "lost",
         \/ EvalRow \/ EvalCol \/ Store \/ ScrollRow \/ Branch
         \/ ReadPort \/ SetShift \/ ApplyShift \/ ComputeNext \/ WriteHead
         \/ SendEoi \/ TestEmpty \/ Flag \/ Take \/ PrintGot
  PROVE  CursorInv'
<1>0. code \in Remainders /\ vga \in Consoles BY DEF TypeInv, MainType
<1>1. code # << >> /\ code[1][1] \notin Underway /\ hit' = hit
  BY DEF EvalRow, EvalCol, Store, ScrollRow, Branch, ReadPort, SetShift,
         ApplyShift, ComputeNext, WriteHead, SendEoi, TestEmpty, Flag, Take,
         PrintGot, OnlyVga, Step, Underway
<1>2. code' # << >> => code'[1][1] \notin Underway
  <2>1. CASE EvalRow \/ EvalCol \/ Store \/ ScrollRow
    <3>1. \E name \in {"row", "col", "const col", "store", "scroll row"} :
            Step(name, << >>)
      BY <2>1 DEF EvalRow, EvalCol, Store, ScrollRow
    <3>2. {"row", "col", "const col", "store", "scroll row"} \cap Openers = {}
      BY DEF Openers
    <3>3. code' \in Calls BY <1>0, <3>1, <3>2, EmptyCall, PlainNext
    <3> QED BY <3>3, CallUnderway
  <2>2. CASE Branch BY <1>0, <2>2, BranchCode, CallUnderway
  <2>3. CASE \/ ReadPort \/ SetShift \/ ApplyShift \/ WriteHead \/ SendEoi
             \/ Take \/ PrintGot
    BY <2>3, PollNext, CallUnderway
  <2>4. CASE Flag
    BY <2>4, PollNext, CallUnderway DEF Underway
  <2>5. CASE TestEmpty
    BY <2>5, PollNext, CallUnderway DEF Underway
  <2>6. CASE ComputeNext BY <2>6, PollNext DEF Underway
  <2> QED BY <2>1, <2>2, <2>3, <2>4, <2>5, <2>6
<1>3. vga'.col = vga.col /\ vga'.row = vga.row /\ vga'.crtc = vga.crtc
  <2>1. CASE Store
    <3>1. vga' = vga_set(vga, Operand, loc.col, loc.row) BY <2>1 DEF Store
    <3> QED BY <1>0, <3>1 DEF vga_set, Consoles
  <2>2. CASE ScrollRow BY <1>0, <2>2 DEF ScrollRow, Consoles
  <2>3. CASE ~ Store /\ ~ ScrollRow
    <3>1. vga' = vga
      BY <2>3 DEF EvalRow, EvalCol, Branch, ReadPort, SetShift, ApplyShift,
                  ComputeNext, WriteHead, SendEoi, TestEmpty, Flag, Take,
                  PrintGot
    <3> QED BY <3>1
  <2> QED BY <2>1, <2>2, <2>3
<1> QED BY <1>1, <1>2, <1>3, CursorFrame

LEMMA CursorStep == TypeInv /\ CursorInv /\ [Next]_vars => CursorInv'
<1> SUFFICES ASSUME TypeInv, CursorInv, [Next]_vars PROVE CursorInv' OBVIOUS
<1>1. CASE at' = "lost" BY <1>1 DEF CursorInv
<1>2. CASE UNCHANGED <<code, loc, vga, hit>> /\ at # "lost"
  BY <1>2 DEF CursorInv, Progress, Agrees, LowSent, BothSet, ColSet
<1>3. CASE KeyboardIrq /\ at' # "lost"
  <2>1. code' = code /\ loc' = loc BY <1>3, IrqType
  <2>2. at # "lost" BY <1>3 DEF KeyboardIrq
  <2>3. CASE kbc.byte \notin CursorKeys
    <3>1. vga' = vga /\ (~ hit' => ~ hit) BY <1>3, <2>3 DEF KeyboardIrq
    <3>2. Progress => Progress'
      BY <2>1, <3>1 DEF Progress, Agrees, LowSent, BothSet, ColSet
    <3> QED BY <2>2, <3>1, <3>2 DEF CursorInv
  <2>4. CASE kbc.byte \in CursorKeys
    <3>1. /\ vga' \in KeyOutcomes(vga, kbc.byte)
          /\ ~ hit' => code = << >>
      BY <1>3, <2>4 DEF KeyboardIrq
    <3>2. Agrees(vga') BY <2>4, <3>1, KeyAgrees DEF TypeInv
    <3>3. Agrees(vga') /\ code' = << >> => Progress'
      BY DEF Progress, Agrees
    <3> QED BY <2>1, <3>1, <3>2, <3>3 DEF CursorInv
  <2> QED BY <2>3, <2>4
<1>4. CASE PrintChar \/ Poll
  <2>1. code' \in Calls /\ code = << >> /\ vga' = vga /\ hit' = hit /\ at # "lost"
    BY <1>4, NewLineCall, PutCall, PollCall, CallIsRemainder
    DEF PrintChar, Poll, Call
  <2> QED BY <2>1, CallUnderway, CursorFrame
<1>5. ASSUME \/ EvalRow \/ EvalCol \/ SetCol \/ SetRow \/ SelectCrtc
             \/ WriteCrtc \/ Store \/ ScrollRow \/ Branch \/ ReadPort
             \/ SetShift \/ ApplyShift \/ ComputeNext \/ WriteHead \/ SendEoi
             \/ TestEmpty \/ Flag \/ Take \/ PrintGot
      PROVE  at' = at
  BY <1>5 DEF EvalRow, EvalCol, SetCol, SetRow, SelectCrtc, WriteCrtc, Store,
              ScrollRow, Branch, ReadPort, SetShift, ApplyShift, ComputeNext,
              WriteHead, SendEoi, TestEmpty, Flag, Take, PrintGot, Step
<1>6. CASE SetCol \/ SetRow \/ SelectCrtc \/ WriteCrtc
  BY <1>1, <1>5, <1>6, CursorDraw
<1>7. CASE \/ EvalRow \/ EvalCol \/ Store \/ ScrollRow \/ Branch
           \/ ReadPort \/ SetShift \/ ApplyShift \/ ComputeNext \/ WriteHead
           \/ SendEoi \/ TestEmpty \/ Flag \/ Take \/ PrintGot
  BY <1>1, <1>5, <1>7, CursorOther
<1>8. ASSUME (\E key \in session.keys : Type(key)) \/ KbcLoad \/ Sti
               \/ LeaveSetup \/ UNCHANGED vars,
             at' # "lost"
      PROVE  UNCHANGED <<code, loc, vga, hit>> /\ at # "lost"
  BY <1>8 DEF Type, KbcLoad, Sti, LeaveSetup, vars, main
<1> QED BY <1>1, <1>2, <1>3, <1>4, <1>6, <1>7, <1>8 DEF Next, Main

LEMMA CursorInit == Init => CursorInv
<1> SUFFICES ASSUME Init PROVE CursorInv OBVIOUS
<1>1. vga = Cleared /\ code = << >> BY DEF Init
<1>2. Agrees(Cleared)
  <2>1. CellIndex(0, 0) = 0 * Width + 0 BY DEF CellIndex
  <2> QED BY <2>1 DEF Agrees, Cleared, vga_cursor_pos
<1> QED BY <1>1, <1>2 DEF CursorInv, Progress

LEMMA CursorAgreesThere ==
  ASSUME TypeInv, CursorInv, at # "lost" PROVE CursorAgrees
<1>1. vga.col \in 0 .. ByteMod - 1 /\ vga.row \in 0 .. ByteMod - 1
  BY DEF TypeInv, Consoles
<1>2. code = << >> /\ ~ hit => Agrees(vga) BY DEF CursorInv, Progress
<1> QED BY <1>1, <1>2, TwoBytes DEF CursorAgrees, Agrees

\* Whatever the interrupt stubs restore, as long as no interrupt has made
\* kmain lose its registers: between two calls the cursor on the screen is
\* the software cursor, unless an interrupt has used the console in the
\* middle of kmain's last vga_pos or after it.
THEOREM CursorAgreesUntilLost == Spec => [](at # "lost" => CursorAgrees)
<1>1. TypeInv /\ CursorInv => (at # "lost" => CursorAgrees)
  BY CursorAgreesThere
<1> QED BY <1>1, TypeInit, TypeStep, CursorInit, CursorStep, PTL DEF Spec

\* With stubs that restore the registers no interrupt loses kmain.
LEMMA NeverLost ==
  ASSUME StubRestores
  PROVE  Spec => [](at # "lost")
<1>1. Init => at # "lost" BY DEF Init
<1>2. at # "lost" /\ [Next]_vars => (at # "lost")'
  BY DEF Next, vars, main, Main, Type, KbcLoad, KeyboardIrq, Resumed, Sti,
         PrintChar, LeaveSetup, Poll, EvalRow, EvalCol, SetCol, SetRow,
         SelectCrtc, WriteCrtc, Store, ScrollRow, Branch, ReadPort, SetShift,
         ApplyShift, ComputeNext, WriteHead, SendEoi, TestEmpty, Flag, Take,
         PrintGot, Step
<1> QED BY <1>1, <1>2, PTL DEF Spec

\* With such stubs, the contract the C code is written against, CursorAgrees
\* holds in every state.
THEOREM CursorsAgree ==
  ASSUME StubRestores PROVE Spec => []CursorAgrees
<1>1. Spec => [](at # "lost") BY NeverLost
<1> QED BY <1>1, CursorAgreesUntilLost, PTL

-----------------------------------------------------------------------------
(* The keyboard interrupt on its own. *)

\* The shift flag after one scancode more.
LEMMA ShiftOverNext ==
  ASSUME NEW s, NEW n \in Nat
  PROVE  ShiftOver(s, n + 1) <=> \/ s[n + 1] \in ShiftDown
                                 \/ ShiftOver(s, n) /\ s[n + 1] \notin ShiftUp
<1>1. ASSUME s[n + 1] \in ShiftDown PROVE ShiftOver(s, n + 1)
  <2>1. n + 1 \in 1 .. n + 1 /\ \A j \in (n + 1) + 1 .. n + 1 : FALSE OBVIOUS
  <2> QED BY <1>1, <2>1 DEF ShiftOver
<1>2. ASSUME ShiftOver(s, n), s[n + 1] \notin ShiftUp
      PROVE  ShiftOver(s, n + 1)
  <2>1. PICK i \in 1 .. n : /\ s[i] \in ShiftDown
                            /\ \A j \in i + 1 .. n : s[j] \notin ShiftUp
    BY <1>2 DEF ShiftOver
  <2>2. i \in 1 .. n + 1 OBVIOUS
  <2>3. ASSUME NEW j \in i + 1 .. n + 1 PROVE s[j] \notin ShiftUp
    <3>1. j = n + 1 \/ j \in i + 1 .. n OBVIOUS
    <3> QED BY <1>2, <2>1, <3>1
  <2> QED BY <2>1, <2>2, <2>3 DEF ShiftOver
<1>3. ASSUME ShiftOver(s, n + 1), s[n + 1] \notin ShiftDown
      PROVE  ShiftOver(s, n) /\ s[n + 1] \notin ShiftUp
  <2>1. PICK i \in 1 .. n + 1 :
          s[i] \in ShiftDown /\ \A j \in i + 1 .. n + 1 : s[j] \notin ShiftUp
    BY <1>3 DEF ShiftOver
  <2>2. i # n + 1 BY <1>3, <2>1
  <2>3. i \in 1 .. n /\ n + 1 \in i + 1 .. n + 1 BY <2>2
  <2>4. \A j \in i + 1 .. n : j \in i + 1 .. n + 1 OBVIOUS
  <2> QED BY <2>1, <2>3, <2>4 DEF ShiftOver
<1> QED BY <1>1, <1>2, <1>3

\* That is what keyboard_get_char makes of the flag.
LEMMA ShiftFollows ==
  ASSUME NEW s, NEW n \in Nat, NEW flag \in BOOLEAN, flag <=> ShiftOver(s, n)
  PROVE  ShiftAfter(flag, s[n + 1]) <=> ShiftOver(s, n + 1)
<1> DEFINE key == s[n + 1]
<1>1. ShiftOver(s, n + 1) <=> key \in ShiftDown \/ (flag /\ key \notin ShiftUp)
  BY ShiftOverNext
<1> HIDE DEF key
<1>2. ShiftAfter(flag, key) <=> key \in ShiftDown \/ (flag /\ key \notin ShiftUp)
  <2>1. ShiftAfter(flag, key) = IF key \in ShiftDown THEN TRUE
                                ELSE IF key \in ShiftUp THEN FALSE ELSE flag
    BY DEF ShiftAfter, ShiftDown, ShiftUp
  <2> QED BY <2>1
<1> QED BY <1>1, <1>2 DEF key

\* The characters after one scancode more.
LEMMA CharsFinite ==
  ASSUME NEW s, NEW n \in Nat
  PROVE  IsFiniteSet(CharsOver(s, n)) /\ Cardinality(CharsOver(s, n)) \in Nat
<1>1. IsFiniteSet(1 .. n) BY FS_Interval
<1>2. CharsOver(s, n) \subseteq 1 .. n BY DEF CharsOver
<1> QED BY <1>1, <1>2, FS_Subset, FS_CardinalityType

LEMMA CharsOverNext ==
  ASSUME NEW s, NEW n \in Nat
  PROVE  Cardinality(CharsOver(s, n + 1)) =
           IF YieldsChar(ShiftOver(s, n), s[n + 1])
           THEN Cardinality(CharsOver(s, n)) + 1
           ELSE Cardinality(CharsOver(s, n))
<1>1. (n + 1) - 1 = n /\ n + 1 \in 1 .. n + 1 OBVIOUS
<1>2. \A i : i \in 1 .. n + 1 <=> i \in 1 .. n \/ i = n + 1 OBVIOUS
<1>3. CASE YieldsChar(ShiftOver(s, n), s[n + 1])
  <2>1. CharsOver(s, n + 1) = CharsOver(s, n) \cup {n + 1}
    BY <1>1, <1>2, <1>3 DEF CharsOver
  <2>2. n + 1 \notin CharsOver(s, n) BY DEF CharsOver
  <2> QED BY <1>3, <2>1, <2>2, CharsFinite, FS_AddElement
<1>4. CASE ~ YieldsChar(ShiftOver(s, n), s[n + 1])
  <2>1. CharsOver(s, n + 1) = CharsOver(s, n)
    BY <1>1, <1>2, <1>4 DEF CharsOver
  <2> QED BY <1>4, <2>1
<1> QED BY <1>3, <1>4

\* What follows does not matter to either.
LEMMA OverPrefix ==
  ASSUME NEW s, NEW t, NEW n \in Nat, \A i \in 1 .. n : s[i] = t[i]
  PROVE  /\ ShiftOver(s, n) <=> ShiftOver(t, n)
         /\ CharsOver(s, n) = CharsOver(t, n)
<1>1. ASSUME NEW m \in 0 .. n PROVE ShiftOver(s, m) <=> ShiftOver(t, m)
  <2>1. \A i \in 1 .. m : /\ s[i] = t[i]
                          /\ \A j \in i + 1 .. m : s[j] = t[j]
    <3>1. \A i \in 1 .. m : i \in 1 .. n /\ \A j \in i + 1 .. m : j \in 1 .. n
      OBVIOUS
    <3> QED BY <3>1
  <2> QED BY <2>1 DEF ShiftOver
<1>2. \A i \in 1 .. n : i - 1 \in 0 .. n OBVIOUS
<1>3. n \in 0 .. n OBVIOUS
<1> QED BY <1>1, <1>2, <1>3 DEF CharsOver, YieldsChar

\* keyboard_handler on a ring nobody empties.
LEMMA StoredNext ==
  ASSUME NEW n \in Nat, NEW flag, NEW key
  PROVE  /\ Stored(n) \in 0 .. BufferSize - 1
         /\ HeadAfter(Stored(n), 0, flag, key) =
              IF YieldsChar(flag, key) THEN Stored(n + 1) ELSE Stored(n)
<1>1. Stored(n) \in 0 .. BufferSize - 1 BY BufferAssumption DEF Stored
<1>2. /\ Advance(Stored(n)) = IF Stored(n) = BufferSize - 1 THEN 0
                              ELSE Stored(n) + 1
  BY <1>1, AdvanceIs
<1>3. CASE n < BufferSize - 1
  <2>1. /\ Stored(n) = n /\ Stored(n + 1) = n + 1 /\ n # BufferSize - 1
        /\ n + 1 # 0
    BY <1>3, BufferAssumption DEF Stored
  <2>2. Advance(Stored(n)) = n + 1 BY <1>2, <2>1
  <2> QED BY <1>1, <2>1, <2>2 DEF HeadAfter, StoreHead
<1>4. CASE ~ n < BufferSize - 1
  <2>1. Stored(n) = BufferSize - 1 /\ Stored(n + 1) = BufferSize - 1
    BY <1>4, BufferAssumption DEF Stored
  <2>2. Advance(Stored(n)) = 0 BY <1>2, <2>1
  <2> QED BY <1>1, <2>1, <2>2 DEF HeadAfter, StoreHead
<1> QED BY <1>3, <1>4

-----------------------------------------------------------------------------

Alone == at \in {"boot", "print", "halt", "spin"}

\* kmain's printing stays printing.
LEMMA PrintStays ==
  ASSUME code \in Remainders, PrintOnly(code), NEW name, NEW more \in Prints,
         Step(name, more)
  PROVE  PrintOnly(code')
<1> DEFINE t == Tail(code)
<1>1. code # << >> /\ code' = more \o t BY DEF Step
<1>2. t \in Remainders BY <1>1, RestRemains
<1>3. /\ more \in Seq(StepSet) /\ Len(more) \in Nat
      /\ t \in Seq(StepSet) /\ Len(t) \in Nat
      /\ code \in Seq(StepSet) /\ Len(code) \in Nat
  BY <1>2, RemainderSeq, CallIsRemainder
<1>4. /\ Len(t) = Len(code) - 1 /\ \A i \in 1 .. Len(t) : t[i] = code[i + 1]
  BY <1>1, <1>3, HeadTailProperties
<1> HIDE DEF t
<1>5. ASSUME NEW i \in 1 .. Len(t) PROVE t[i][1] \notin PollNames
  <2>1. i + 1 \in 1 .. Len(code) BY <1>3, <1>4
  <2> QED BY <1>4, <2>1 DEF PrintOnly
<1>6. /\ Len(code') = Len(more) + Len(t)
      /\ \A i \in 1 .. Len(more) + Len(t) :
           code'[i] = IF i <= Len(more) THEN more[i] ELSE t[i - Len(more)]
  BY <1>1, <1>3, ConcatProperties
<1>7. ASSUME NEW i \in 1 .. Len(code') PROVE code'[i][1] \notin PollNames
  <2>1. CASE i <= Len(more)
    <3>1. i \in 1 .. Len(more) /\ code'[i] = more[i] BY <1>3, <1>6, <2>1
    <3> QED BY <3>1 DEF Prints, PrintOnly
  <2>2. CASE ~ i <= Len(more)
    <3>1. i - Len(more) \in 1 .. Len(t) /\ code'[i] = t[i - Len(more)]
      BY <1>3, <1>6, <2>2
    <3> QED BY <1>5, <3>1
  <2> QED BY <2>1, <2>2
<1> QED BY <1>7 DEF PrintOnly

\* The first of the steps of a printing call is none of the poll.
LEMMA PrintFirst ==
  ASSUME code \in Remainders, PrintOnly(code), NEW name, NEW more,
         Step(name, more)
  PROVE  name \notin PollNames
<1>1. code # << >> /\ code[1][1] = name BY DEF Step
<1>2. Len(code) \in Nat \ {0} BY <1>1, EmptySeq DEF Remainders
<1>3. 1 \in 1 .. Len(code) BY <1>2
<1> QED BY <1>1, <1>3 DEF PrintOnly

\* What the invariant says of everything but kmain's call.
KeyboardAlone ==
  /\ tail = 0
  /\ (pic.irr <=> kbc.full /\ sent > 0) /\ pic.isr = FALSE
  /\ pic.irr => kbc.byte = typed[sent]
  /\ shift <=> ShiftOver(typed, Served)
  /\ head = Stored(Cardinality(CharsOver(typed, Served)))

LEMMA AloneParts ==
  AloneInv <=> (Alone => PrintOnly(code) /\ KeyboardAlone)
  BY DEF AloneInv, Alone, KeyboardAlone

LEMMA AloneFrame ==
  ASSUME KeyboardAlone,
         UNCHANGED <<pic, kbc, typed, sent, shift, head, tail>>
  PROVE  KeyboardAlone'
<1>1. Served' = Served BY DEF Served
<1> QED BY <1>1 DEF KeyboardAlone

\* The scancodes served are scancodes sent.
LEMMA ServedType ==
  ASSUME TypeInv, KeyboardAlone
  PROVE  /\ Served \in 0 .. Len(typed) /\ sent \in Nat /\ Len(typed) \in Nat
         /\ kbc.full \in BOOLEAN
<1>1. /\ sent \in 0 .. Len(typed) /\ Len(typed) \in Nat
      /\ kbc.full \in BOOLEAN
  BY LenProperties DEF TypeInv, HardwareType
<1> QED BY <1>1 DEF Served, KeyboardAlone

LEMMA AloneType ==
  ASSUME TypeInv, KeyboardAlone, NEW key \in session.keys, Type(key)
  PROVE  KeyboardAlone'
<1>1. /\ Served \in 0 .. Len(typed) /\ sent \in 0 .. Len(typed)
      /\ Len(typed) \in Nat
  BY ServedType DEF TypeInv, HardwareType
<1>2. \A i \in 1 .. Len(typed) : typed'[i] = typed[i]
  BY AppendProperties DEF Type, TypeInv, HardwareType
<1>3. Served' = Served BY DEF Type, Served
<1>4. /\ ShiftOver(typed, Served) <=> ShiftOver(typed', Served)
      /\ CharsOver(typed, Served) = CharsOver(typed', Served)
  <2>1. \A i \in 1 .. Served : typed[i] = typed'[i] BY <1>1, <1>2
  <2>2. Served \in Nat BY <1>1
  <2> HIDE DEF Served
  <2> QED BY <2>1, <2>2, OverPrefix
<1>5. /\ (ShiftOver(typed, Served))' <=> ShiftOver(typed', Served)
      /\ (CharsOver(typed, Served))' = CharsOver(typed', Served)
  BY <1>3 DEF ShiftOver, CharsOver
<1>6. pic.irr => kbc.byte = typed'[sent]
  <2>1. pic.irr => sent \in 1 .. Len(typed) BY <1>1 DEF KeyboardAlone
  <2> QED BY <1>2, <2>1 DEF KeyboardAlone
<1> QED BY <1>4, <1>5, <1>6 DEF KeyboardAlone, Type, ring

LEMMA AloneLoad ==
  ASSUME TypeInv, KeyboardAlone, KbcLoad
  PROVE  KeyboardAlone'
<1>1. /\ kbc' = [byte |-> typed[sent + 1], full |-> TRUE]
      /\ kbc.full = FALSE
      /\ sent' = sent + 1 /\ typed' = typed
      /\ pic' = [pic EXCEPT !.irr = TRUE]
      /\ shift' = shift /\ head' = head /\ tail' = tail
  BY ServedType DEF KbcLoad, ring
<1>2. kbc'.full = TRUE /\ kbc'.byte = typed[sent'] BY <1>1
<1>3. pic'.irr = TRUE /\ pic'.isr = FALSE
  BY <1>1 DEF KeyboardAlone, TypeInv, HardwareType
<1>4. sent \in Nat /\ sent' > 0 BY <1>1, ServedType
<1>5. Served' = Served BY <1>1, <1>2, <1>4 DEF Served
<1> QED BY <1>1, <1>2, <1>3, <1>4, <1>5 DEF KeyboardAlone

LEMMA AloneIrq ==
  ASSUME TypeInv, KeyboardAlone, KeyboardIrq
  PROVE  KeyboardAlone'
<1> DEFINE n == Served
           key == kbc.byte
<1>1. /\ pic.irr = TRUE /\ kbc.full = TRUE /\ kbc.full
      /\ sent > 0 /\ key = typed[sent]
  BY DEF KeyboardIrq, KeyboardAlone, TypeInv, HardwareType
<1>2. n \in Nat /\ n + 1 = sent /\ key = typed[n + 1]
  BY <1>1, ServedType DEF Served
<1>3. /\ kbc' = [kbc EXCEPT !.full = FALSE]
      /\ pic' = [irr |-> FALSE, isr |-> FALSE]
  BY IrqType
<1>4. /\ shift' = ShiftAfter(shift, key)
      /\ head' = HeadAfter(head, tail, shift, key)
      /\ typed' = typed /\ sent' = sent /\ tail' = tail
  BY DEF KeyboardIrq
<1>5. kbc'.full = FALSE BY <1>3 DEF TypeInv, HardwareType
<1>6. Served' = n + 1 BY <1>2, <1>4, <1>5 DEF Served
<1>7. shift \in BOOLEAN /\ (shift <=> ShiftOver(typed, n))
  BY DEF KeyboardAlone, TypeInv, RingType
<1>8. head = Stored(Cardinality(CharsOver(typed, n))) /\ tail = 0
  BY DEF KeyboardAlone
<1> HIDE DEF n, key
<1>9. shift' <=> ShiftOver(typed, n + 1) BY <1>2, <1>4, <1>7, ShiftFollows
<1>10. head' = Stored(Cardinality(CharsOver(typed, n + 1)))
  <2> DEFINE c == Cardinality(CharsOver(typed, n))
  <2>1. c \in Nat BY <1>2, CharsFinite
  <2>2. Cardinality(CharsOver(typed, n + 1)) =
          IF YieldsChar(ShiftOver(typed, n), typed[n + 1]) THEN c + 1 ELSE c
    BY <1>2, CharsOverNext
  <2>3. YieldsChar(ShiftOver(typed, n), typed[n + 1]) <=> YieldsChar(shift, key)
    BY <1>2, <1>7 DEF YieldsChar
  <2> HIDE DEF c
  <2>4. HeadAfter(Stored(c), 0, shift, key) =
          IF YieldsChar(shift, key) THEN Stored(c + 1) ELSE Stored(c)
    BY <2>1, StoredNext
  <2>5. head' = HeadAfter(Stored(c), 0, shift, key) BY <1>4, <1>8 DEF c
  <2> QED BY <2>2, <2>3, <2>4, <2>5
<1>11. (ShiftOver(typed, Served))' <=> ShiftOver(typed, n + 1)
  BY <1>4, <1>6 DEF ShiftOver
<1>12. (CharsOver(typed, Served))' = CharsOver(typed, n + 1)
  BY <1>4, <1>6 DEF ShiftOver, CharsOver
<1>13. pic'.irr = FALSE /\ pic'.isr = FALSE BY <1>3
<1> QED
  BY <1>4, <1>5, <1>8, <1>9, <1>10, <1>11, <1>12, <1>13 DEF KeyboardAlone

\* kmain's own steps while it does not poll.
LEMMA AloneMain ==
  ASSUME TypeInv, PrintOnly(code), KeyboardAlone,
         at' \in {"boot", "print", "halt", "spin"}, Main
  PROVE  PrintOnly(code') /\ KeyboardAlone'
<1>0. code \in Remainders BY DEF TypeInv, MainType
<1>1. CASE Sti \/ LeaveSetup
  <2>1. code' = code /\ UNCHANGED <<pic, kbc, typed, sent, shift, head, tail>>
    BY <1>1 DEF Sti, LeaveSetup, hardware, ring
  <2> QED BY <2>1, AloneFrame
<1>2. CASE PrintChar
  <2>1. code' \in Prints BY <1>2, NewLineCall, PutCall DEF PrintChar, Call
  <2>2. UNCHANGED <<pic, kbc, typed, sent, shift, head, tail>>
    BY <1>2 DEF PrintChar, hardware, ring
  <2> QED BY <2>1, <2>2, AloneFrame DEF Prints
<1>3. CASE \/ EvalRow \/ EvalCol \/ SetCol \/ SetRow \/ SelectCrtc
           \/ WriteCrtc \/ Store \/ ScrollRow \/ Branch
  <2>1. UNCHANGED <<pic, kbc, typed, sent, shift, head, tail>>
    BY <1>3 DEF EvalRow, EvalCol, SetCol, SetRow, SelectCrtc, WriteCrtc, Store,
                ScrollRow, Branch, OnlyVga, hardware, ring
  <2>2. \E name, more : Step(name, more) /\ more \in Prints
    <3>1. CASE Branch BY <3>1, BranchMore
    <3>2. CASE ~ Branch
      <4>1. \E name : Step(name, << >>)
        BY <1>3, <3>2 DEF EvalRow, EvalCol, SetCol, SetRow, SelectCrtc,
                          WriteCrtc, Store, ScrollRow
      <4> QED BY <4>1, EmptyCall
    <3> QED BY <3>1, <3>2
  <2>3. PrintOnly(code') BY <1>0, <2>2, PrintStays
  <2> QED BY <2>1, <2>3, AloneFrame
<1>4. CASE \/ ReadPort \/ SetShift \/ ApplyShift \/ ComputeNext \/ WriteHead
           \/ SendEoi \/ TestEmpty \/ Flag \/ Take \/ PrintGot
  <2>1. \E name \in PollNames : \E more : Step(name, more)
    BY <1>4 DEF ReadPort, SetShift, ApplyShift, ComputeNext, WriteHead, SendEoi,
                TestEmpty, Flag, Take, PrintGot, PollNames
  <2> QED BY <1>0, <2>1, PrintFirst
<1>5. CASE Poll BY <1>5 DEF Poll
<1> QED BY <1>1, <1>2, <1>3, <1>4, <1>5 DEF Main

LEMMA AloneStep == TypeInv /\ AloneInv /\ [Next]_vars => AloneInv'
<1> SUFFICES ASSUME TypeInv, AloneInv, [Next]_vars PROVE AloneInv' OBVIOUS
<1>1. CASE ~ Alone'
  <2>1. at' \notin {"boot", "print", "halt", "spin"} BY <1>1 DEF Alone
  <2> QED BY <2>1 DEF AloneInv
<1>2. CASE Alone'
  <2>0. at' \in {"boot", "print", "halt", "spin"} BY <1>2 DEF Alone
  <2>1. Alone
    BY <2>0 DEF Alone, Next, vars, main, Main, Type, KbcLoad, KeyboardIrq,
         Resumed, Sti, PrintChar, LeaveSetup, Poll, EvalRow, EvalCol, SetCol,
         SetRow, SelectCrtc, WriteCrtc, Store, ScrollRow, Branch, ReadPort,
         SetShift, ApplyShift, ComputeNext, WriteHead, SendEoi, TestEmpty, Flag,
         Take, PrintGot, Step
  <2>2. PrintOnly(code) /\ KeyboardAlone BY <2>1, AloneParts
  <2>3. PrintOnly(code') /\ KeyboardAlone'
    <3>1. ASSUME NEW key \in session.keys, Type(key)
          PROVE  PrintOnly(code') /\ KeyboardAlone'
      BY <2>2, <3>1, AloneType DEF Type, main
    <3>2. CASE KbcLoad BY <2>2, <3>2, AloneLoad DEF KbcLoad, main
    <3>3. CASE KeyboardIrq
      <4>1. code' = code BY <2>0, <3>3, IrqType
      <4> QED BY <2>2, <3>3, <4>1, AloneIrq
    <3>4. CASE Main BY <2>0, <2>2, <3>4, AloneMain
    <3>5. CASE UNCHANGED vars
      <4>1. code' = code /\ UNCHANGED <<pic, kbc, typed, sent, shift, head, tail>>
        BY <3>5 DEF vars, main, hardware, ring
      <4> QED BY <2>2, <4>1, AloneFrame
    <3> QED BY <3>1, <3>2, <3>3, <3>4, <3>5 DEF Next
  <2>4. PrintOnly(code)' BY <2>3 DEF PrintOnly
  <2> QED BY <2>3, <2>4 DEF AloneInv, KeyboardAlone
<1> QED BY <1>1, <1>2

LEMMA AloneInit == Init => AloneInv
<1> SUFFICES ASSUME Init PROVE PrintOnly(code) /\ KeyboardAlone
  BY AloneParts
<1>1. code = << >> /\ typed = << >> /\ sent = 0 BY DEF Init
<1>2. PrintOnly(code) BY <1>1, EmptyCall DEF Prints
<1>3. Served = 0 BY <1>1 DEF Served
<1>4. ~ ShiftOver(typed, 0) /\ CharsOver(typed, 0) = {}
  <2>1. 1 .. 0 = {} OBVIOUS
  <2> QED BY <2>1 DEF ShiftOver, CharsOver
<1>5. Stored(Cardinality({})) = 0
  BY FS_EmptySet, BufferAssumption DEF Stored
<1>6. /\ tail = 0 /\ head = 0 /\ shift = FALSE
      /\ pic.irr = FALSE /\ pic.isr = FALSE
  BY DEF Init
<1>7. ~ (sent > 0) BY <1>1
<1> QED BY <1>2, <1>3, <1>4, <1>5, <1>6, <1>7 DEF KeyboardAlone

\* Halted and quiet.
LEMMA AloneHalted ==
  ASSUME TypeInv, AloneInv PROVE HaltedKeyboard
<1> SUFFICES ASSUME at \in {"halt", "spin"}, Quiet
             PROVE  /\ shift = ShiftWhen(Len(typed))
                    /\ LET n == Cardinality(TypedChars)
                       IN  Unread(head, tail) =
                             IF n < BufferSize THEN n ELSE BufferSize - 1
  BY DEF HaltedKeyboard
<1>1. KeyboardAlone BY AloneParts DEF Alone
<1>2. Served = Len(typed) /\ Len(typed) \in Nat
  BY <1>1, ServedType DEF Quiet, Served
<1>3. \A n : ShiftWhen(n) <=> ShiftOver(typed, n)
  BY DEF ShiftWhen, ShiftOver
<1>4. TypedChars = CharsOver(typed, Len(typed))
  BY <1>3 DEF TypedChars, CharsOver, YieldsChar
<1>5. shift = ShiftWhen(Len(typed))
  <2>1. shift \in BOOLEAN /\ (shift <=> ShiftOver(typed, Len(typed)))
    BY <1>1, <1>2 DEF KeyboardAlone, TypeInv, RingType
  <2>2. ShiftWhen(Len(typed)) \in BOOLEAN BY DEF ShiftWhen
  <2> QED BY <1>3, <2>1, <2>2
<1>6. head = Stored(Cardinality(TypedChars)) /\ tail = 0
  BY <1>1, <1>2, <1>4 DEF KeyboardAlone
<1>7. Unread(head, tail) = head
  <2>1. /\ head \in 0 .. BufferSize - 1 /\ 0 \in 0 .. BufferSize - 1
        /\ head >= 0 /\ head - 0 = head
    BY BufferAssumption DEF TypeInv, RingType
  <2> QED BY <1>6, <2>1, UnreadIs
<1> QED BY <1>5, <1>6, <1>7 DEF Stored

\* Once the machine is halted, and before it polls, the interrupt has the
\* keyboard to itself: no scancode is lost, served twice or out of order, so
\* that the shift flag follows the last shift key and the ring holds one
\* character for each character key, up to its capacity.
THEOREM HaltedKeyboardServed == Spec => []HaltedKeyboard
<1> QED BY TypeInit, TypeStep, AloneInit, AloneStep, AloneHalted, PTL DEF Spec
=============================================================================
