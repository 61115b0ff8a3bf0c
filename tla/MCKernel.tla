----------------------------- MODULE MCKernel ------------------------------
(***************************************************************************)
(* Two sessions for Kernel: one that fills the ring with character keys    *)
(* and one in which kmain and the interrupt use the console at once; and   *)
(* the single key press that shows what the kernel as built stores.        *)
(***************************************************************************)
EXTENDS Kernel

Ring ==
  [keys |-> {"letter", "symbol", "lshift down", "rshift up"},
   stale |-> {"letter"}, maxKeys |-> 4, maxPrints |-> 0]

Screen ==
  [keys |-> {"enter", "backspace", "left"}, stale |-> {"silent", "backspace"},
   maxKeys |-> 2, maxPrints |-> 1]

MCSessions == {Ring, Screen}

OneKey ==
  [keys |-> {"letter"}, stale |-> {"letter"}, maxKeys |-> 1, maxPrints |-> 0]

MCOneKey == {OneKey}
=============================================================================
