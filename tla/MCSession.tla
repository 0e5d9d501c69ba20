----------------------------- MODULE MCSession ------------------------------
EXTENDS Session, TLC

CONSTANTS r1, r2, p1, p2, o1, o2

MCRecipient == (o1 :> o1) @@ (o2 :> o2)

Symmetry == Permutations({r1, r2}) \cup Permutations({p1, p2})
=============================================================================
