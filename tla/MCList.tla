------------------------------- MODULE MCList -------------------------------
(***************************************************************************)
(* List with three items, two of which compare equal.                      *)
(***************************************************************************)
EXTENDS List, TLC

CONSTANTS x1, x2, x3

TwoEqual == x1 :> 1 @@ x2 :> 1 @@ x3 :> 0

\* Nodes and iterators are interchangeable.
Interchange == Permutations(Node) \cup Permutations(Iter)

=============================================================================
