--------------------------- MODULE MCRootPublication ---------------------------
(* Commands below one ancestor: two of them want the same root.            *)
EXTENDS RootPublication, TLC

CONSTANTS p1, p2, p3, n1, n2

MCRequested == [p \in Publishers |-> IF p = p3 THEN n2 ELSE n1]

(* The commands that want the same root are interchangeable.               *)
SameRequest == Permutations({p1, p2})

===============================================================================
