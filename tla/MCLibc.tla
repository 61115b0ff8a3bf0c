------------------------------- MODULE MCLibc -------------------------------
(***************************************************************************)
(* Callers for Libc: one moves and compares bytes in a memory of any       *)
(* contents, one cuts strings into tokens, one formats text.               *)
(***************************************************************************)
EXTENDS Libc

\* Bytes 1 and 2: 2 is the usual delimiter.
Mover ==
  [images |-> [Address -> {0, 1, 2}],
   calls |->
     {<<fn, d, s, n>> : fn \in {"memmove", "memcpy", "strncpy", "memcmp", "strncmp"},
                        d \in {0, 1, 3}, s \in {0, 2}, n \in {0, 2, 3}}
     \cup {<<fn, p, q>> : fn \in {"strstr", "strcmp", "strcpy"},
                          p \in {0, 1}, q \in {3, 4}}
     \cup {<<"strchr", 0, ch>> : ch \in 0 .. 2}
     \cup {<<"memset", 1, ch, 3>> : ch \in 0 .. 2},
   once |-> TRUE]

\* Strings in the first cells, delimiters in the last two.
Tokenizer ==
  [images |-> {m \in [Address -> {0, 1, 2}] :
                 m[MemSize - 1] = 0 /\ m[MemSize - 2] = 2 /\ m[MemSize - 3] = 0},
   calls |->
     {<<"strtok", s, delim>> : s \in {NULL, 0, 1}, delim \in MemSize - 2 .. MemSize - 1}
     \cup {<<"memset", 0, 1, 2>>},
   once |-> FALSE]

\* Formats, with the end in its place and, behind a percent sign that ends the
\* format, the bytes that follow it in memory.
Number(width, letter) == <<"%">> \o width \o <<letter, Nul>>
Texts == {NullString, << >>, <<"a">>, <<"a", "lf", "b">>}
Formatter ==
  [images |-> {[a \in Address |-> 0]},
   calls |->
     {<<fn, Number(width, letter), <<word>> >> :
        fn \in {"printf", "sprintf"}, word \in 0 .. WordMod - 1,
        width \in {<< >>, <<"4">>, <<"1", "0">>},
        letter \in {"d", "i", "u", "x", "X", "o", "p"}}
     \cup {<<fn, <<"a", "lf", "%", "3", "s", "%", "c", "cr", Nul>>, <<s, ch>> >> :
        fn \in {"printf", "sprintf"}, s \in Texts, ch \in {"b", "lf"}}
     \cup {<<fn, <<"%", ch, "%", Nul, "b", Nul>>, << >> >> :
        fn \in {"printf", "sprintf"}, ch \in {"%", "q", "lf"}},
   once |-> TRUE]

MCClients == {Mover, Tokenizer, Formatter}
=============================================================================
