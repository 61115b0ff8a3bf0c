------------------------------ MODULE Terminal ------------------------------
(***************************************************************************)
(* What a text console promises to whoever prints on it and types on it: a *)
(* page of at most Rows lines of at most LineLength characters, always     *)
(* written at its end.  A full line is continued on a new one, a line      *)
(* beyond the last row pushes the oldest line out, and Erase takes back    *)
(* the last character.                                                     *)
(***************************************************************************)
EXTENDS Integers, Sequences

CONSTANTS Rows, LineLength, Chars

VARIABLE page

LastLine == page[Len(page)]

\* Keep the newest Rows lines.
Fit(p) == IF Len(p) > Rows THEN Tail(p) ELSE p

Upto(s, n) == SubSeq(s, 1, n)

Init == page = << << >> >>

Emit(ch) ==
  page' = IF Len(LastLine) = LineLength
          THEN Fit(Append(page, <<ch>>))
          ELSE [page EXCEPT ![Len(page)] = Append(@, ch)]

NewLine == page' = Fit(Append(page, << >>))

EraseChar ==
  /\ LastLine # << >>
  /\ page' = [page EXCEPT ![Len(page)] = Upto(@, Len(@) - 1)]

\* Erasing on an empty line goes back to the line before it, which keeps its
\* text unless that text is a single character.
JoinLine ==
  /\ LastLine = << >>
  /\ Len(page) > 1
  /\ LET kept == Upto(page, Len(page) - 1)
     IN  page' = [kept EXCEPT ![Len(kept)] = IF Len(@) = 1 THEN << >> ELSE @]

Next ==
  \/ \E ch \in Chars : Emit(ch)
  \/ NewLine
  \/ EraseChar
  \/ JoinLine

Spec == Init /\ [][Next]_page
=============================================================================
