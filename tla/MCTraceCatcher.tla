--------------------------- MODULE MCTraceCatcher ---------------------------
(* Symmetry for model checking TraceCatcher: no property tells one request *)
(* object from another, and none of them is a liveness property.           *)
EXTENDS TraceCatcher, TLC

ObjectSymmetry == Permutations(Objects)
=============================================================================
