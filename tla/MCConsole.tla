----------------------------- MODULE MCConsole -----------------------------
(***************************************************************************)
(* Two users for Console: one who types and erases, and one who moves the  *)
(* cursor anywhere, for whom one character is enough.                      *)
(***************************************************************************)
EXTENDS Console

CONSTANTS a, b

Typist == [keys |-> {"enter", "backspace"}, chars |-> {a, b}, origin |-> FALSE]
Rover == [keys |-> CursorKeys, chars |-> {a}, origin |-> TRUE]

MCUsers == {Typist, Rover}
=============================================================================
