------------------------------ MODULE Strings ------------------------------
(***************************************************************************)
(* The routines of src/src/stdlib/string.c as operators on memory: a       *)
(* function from addresses to bytes, numbers of which 0 ends a string.     *)
(* NULL is the null pointer.                                               *)
(***************************************************************************)
EXTENDS Integers

CONSTANT MemSize  \* bytes of memory

ASSUME StringsAssumption == MemSize \in Nat \ {0}

Address == 0 .. MemSize - 1
NULL == -1

IsString(m, s) == s \in Address /\ \E e \in s .. MemSize - 1 : m[e] = 0

-----------------------------------------------------------------------------
(* Copies, byte after byte. *)

\* The memory after the first i turns of a loop over n bytes that stores byte
\* From(i) of the old contents; upwards and downwards.
CopyUp(m, d, s, n) ==
  LET after[i \in 0 .. n] ==
        IF i = 0 THEN m
        ELSE [after[i - 1] EXCEPT ![d + i - 1] = after[i - 1][s + i - 1]]
  IN  after[n]

CopyDown(m, d, s, n) ==
  LET after[i \in 0 .. n] ==
        IF i = n THEN m
        ELSE [after[i + 1] EXCEPT ![d + i] = after[i + 1][s + i]]
  IN  after[0]

\* Wrong variant: the direction that destroys the source of an overlap.
BugMemmove(m, d, s, n) ==
  IF d = s \/ n = 0 THEN m
  ELSE IF d < s THEN CopyDown(m, d, s, n) ELSE CopyUp(m, d, s, n)

memmove(m, d, s, n) ==
  IF d = s \/ n = 0 THEN m
  ELSE IF d < s \/ d >= s + n THEN CopyUp(m, d, s, n) ELSE CopyDown(m, d, s, n)

memcpy(m, d, s, n) == CopyUp(m, d, s, n)

memset(m, d, v, n) == [a \in Address |-> IF a \in d .. d + n - 1 THEN v ELSE m[a]]

strlen(m, s) ==
  CHOOSE n \in 0 .. MemSize : m[s + n] = 0 /\ \A k \in 0 .. n - 1 : m[s + k] # 0

\* Strings that do not overlap: the end of the source stays in place.
strcpy(m, d, s) == CopyUp(m, d, s, strlen(m, s) + 1)

strncpy(m, d, s, n) ==
  LET len == IF strlen(m, s) < n THEN strlen(m, s) ELSE n
  IN  memset(CopyUp(m, d, s, len), d + len, 0, n - len)

-----------------------------------------------------------------------------
(* Comparisons and searches. *)

\* How many bytes at p and q go by before they differ, or are one of those
\* that stop, or are n.
Common(m, p, q, n, stops) ==
  CHOOSE k \in 0 .. n :
    /\ k = n \/ m[p + k] # m[q + k] \/ m[p + k] \in stops
    /\ \A j \in 0 .. k - 1 : m[p + j] = m[q + j] /\ m[p + j] \notin stops

End == {0}  \* what stops at the end of a string

memcmp(m, p, q, n) ==
  LET k == Common(m, p, q, n, {}) IN IF k = n THEN 0 ELSE m[p + k] - m[q + k]

strcmp(m, p, q) ==
  LET k == Common(m, p, q, MemSize, End) IN m[p + k] - m[q + k]

strncmp(m, p, q, n) ==
  LET k == Common(m, p, q, n, End) IN IF k = n THEN 0 ELSE m[p + k] - m[q + k]

\* The addresses of a string, its end left out, and the first of the hits among
\* them, or NULL.
Within(m, s) == s .. s + strlen(m, s) - 1
FirstIn(m, s, hits) ==
  LET found == hits \cap Within(m, s)
  IN  IF found = {} THEN NULL ELSE CHOOSE a \in found : \A b \in found : a <= b

\* It finds no '\0', not even when asked for it.
strchr(m, s, c) == FirstIn(m, s, {a \in Address : m[a] = c})

\* Wrong variant: the end of the haystack matches anything.
BugStrstr(m, h, n) ==
  IF m[n] = 0 THEN h
  ELSE FirstIn(m, h, {a \in Within(m, h) :
         LET k == Common(m, a, n, MemSize, End) IN m[n + k] = 0 \/ m[a + k] = 0})

strstr(m, h, n) ==
  IF m[n] = 0 THEN h
  ELSE FirstIn(m, h, {a \in Within(m, h) : m[n + Common(m, a, n, MemSize, End)] = 0})

-----------------------------------------------------------------------------
(* strtok, with its static variable: what it returns, leaves in "next" and *)
(* in the memory.                                                          *)

\* Wrong variant: the delimiter that ends the token is not skipped.
BugCut(m, end) == [next |-> end, mem |-> [m EXCEPT ![end] = 0]]

\* The end of a token at a delimiter.
Cut(m, end) == [next |-> end + 1, mem |-> [m EXCEPT ![end] = 0]]

strtok(m, static, str, delim) ==
  LET from == IF str # NULL THEN str ELSE static
      delims == {a \in Address : strchr(m, delim, m[a]) # NULL}
  IN  IF from = NULL THEN [ret |-> NULL, next |-> NULL, mem |-> m]
      ELSE LET start == FirstIn(m, from, Address \ delims)
           IN  IF start = NULL
               THEN [ret |-> NULL, next |-> from + strlen(m, from), mem |-> m]
               ELSE LET end == FirstIn(m, start, delims)
                        cut == IF end = NULL THEN [next |-> NULL, mem |-> m]
                                             ELSE Cut(m, end)
                    IN  [ret |-> start, next |-> cut.next, mem |-> cut.mem]
============================================================================
