------------------------------- MODULE MCBoot -------------------------------
(***************************************************************************)
(* Boots for Boot: what the boot loader may hand over, and two images, one *)
(* that is FAT32 and one that is not.                                      *)
(***************************************************************************)
EXTENDS Boot, MCFat32

Good == Volume(Bpb(4, 3, 2), 13, 3, MCEoc, MCEoc, Full, Last)
Other == Volume(Bpb(8, 3, 2), 13, MCEoc, MCEoc, MCEoc, Short, Last)
BootVolumes == {Good, Other}

Module(named, image, size) == [named |-> named, image |-> image, size |-> size]
Start(magic, flag, mods) ==
  [restores |-> TRUE, magic |-> magic, info |-> TRUE, flag |-> flag, mods |-> mods]

Contract ==
  { Start(FALSE, TRUE, << >>), Start(TRUE, FALSE, <<Module(TRUE, Good, 52)>>),
    Start(TRUE, TRUE, << >>), Start(TRUE, TRUE, <<Module(FALSE, Good, 52)>>),
    [Start(TRUE, TRUE, << >>) EXCEPT !.info = FALSE],
    Start(TRUE, TRUE, <<Module(TRUE, Good, 55)>>),
    Start(TRUE, TRUE, <<Module(TRUE, Good, 30)>>),
    Start(TRUE, TRUE, <<Module(FALSE, Other, 52), Module(TRUE, Good, 52)>>),
    Start(TRUE, TRUE, <<Module(TRUE, Other, 52), Module(TRUE, Good, 52)>>) }

\* Each of them with stubs by contract and with those of the code.
MCStarts == Contract \cup {[s EXCEPT !.restores = FALSE] : s \in Contract}

MCMasks == {{}, 0 .. 7}
MCMessage == <<"S", "0", "cr", "lf">>
=============================================================================
