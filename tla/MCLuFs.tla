------------------------------- MODULE MCLuFs -------------------------------
(***************************************************************************)
(* Directories of up to MaxNodes files and directories, Depth deep, for    *)
(* LuFs.  Of the three names two are the same in what an entry stores.     *)
(***************************************************************************)
EXTENDS LuFs

CONSTANTS
  Depth, MaxNodes,
  Sizes      \* of files

Names == 1 .. 3
MCStored(name) == IF name = 3 THEN 2 ELSE name

\* Sets of paths that hold the directories of their members.
Shapes ==
  LET of[n \in 0 .. MaxNodes] ==
        IF n = 0 THEN {{}}
        ELSE UNION {{ps \cup {Append(d, name)} :
                       d \in {q \in ps \cup {Root} : Len(q) < Depth}, name \in Names} :
                     ps \in of[n - 1]} \cup of[n - 1]
  IN  of[MaxNodes]
Leaves(ps) == {p \in ps : \A q \in ps : Len(q) > 1 => Front(q) # p}
MCTrees ==
  UNION {{[p \in ps \cup {Root} |-> IF p \in DOMAIN kinds THEN kinds[p] ELSE IsDir] :
            kinds \in [Leaves(ps) -> Sizes \cup {IsDir}]} : ps \in Shapes}
=============================================================================
