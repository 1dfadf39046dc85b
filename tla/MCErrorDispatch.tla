--------------------------- MODULE MCErrorDispatch ---------------------------
(* Instances of ErrorDispatch for TLC.                                       *)
EXTENDS ErrorDispatch, TLC

CONSTANTS main, child, grandchild, b1, b2, e1, e2, d1, d2

Interchangeable ==
    Permutations(Tasks \ {Main}) \union Permutations(Boxes) \union Permutations(Errors)
      \union Permutations(Data)
=============================================================================
