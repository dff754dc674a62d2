------------------------- MODULE MCWindowsPublication -------------------------
(* Commands below one ancestor: two of them want the same root, and one    *)
(* asks for the name of the staging directory.                             *)
EXTENDS WindowsPublication, TLC

CONSTANTS p1, p2, p3, root

MCRequested == [p \in Publishers |-> IF p = p3 THEN Staging ELSE root]

SameRequest == Permutations({p1, p2})
===============================================================================
