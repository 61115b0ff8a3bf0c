------------------------------- MODULE MCAta -------------------------------
(***************************************************************************)
(* Small drives for Ata: 16 addresses of four bits, one in each register,  *)
(* of which the driver believes 9 to exist.                                *)
(***************************************************************************)
EXTENDS Ata

\* Over a carry into each register, the last sector, one beyond it, none, and
\* a sum that wraps around.
MCRequests ==
  {<<3, 2>>, <<7, 2>>, <<4, 1>>, <<8, 2>>, <<9, 0>>, <<63, 2>>}

\* All is well, a sector is damaged, two take their words and lose them, and the
\* drive is smaller than believed.
MCDrives ==
  {[sectors |-> 16, bad |-> {}, worn |-> {}],
   [sectors |-> 16, bad |-> {4}, worn |-> {}],
   [sectors |-> 16, bad |-> {}, worn |-> {3, 8}],
   [sectors |-> 8, bad |-> {}, worn |-> {0}]}
============================================================================
