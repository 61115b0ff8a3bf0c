----------------------------- MODULE Allocator -----------------------------
(***************************************************************************)
(* What a memory allocator promises its callers: the regions handed out    *)
(* lie in the arena, share no byte and no address, and stay as they are    *)
(* until they are released.  A request may be refused.                     *)
(***************************************************************************)
EXTENDS Integers

CONSTANTS Arena, Sizes

VARIABLE regions  \* the regions handed out, records [ptr, len]

Init == regions = {}

Apart(p, q) ==
  /\ p.ptr # q.ptr
  /\ p.ptr + p.len <= q.ptr \/ q.ptr + q.len <= p.ptr

Allocate(p, n) ==
  LET new == [ptr |-> p, len |-> n]
  IN  /\ p + n <= Arena
      /\ \A r \in regions : Apart(new, r)
      /\ regions' = regions \cup {new}

Release(r) == regions' = regions \ {r}

Next ==
  \/ \E p \in 0 .. Arena, n \in Sizes : Allocate(p, n)
  \/ \E r \in regions : Release(r)

Spec == Init /\ [][Next]_regions
=============================================================================
