----------------------------- MODULE MCHostlist -----------------------------
(***************************************************************************)
(* Hostlist with the strings and names of a caller whose node numbers grow *)
(* from one digit to two, with and without leading zeros.                  *)
(***************************************************************************)
EXTENDS Hostlist, TLC

ASSUME Bounds == MaxRange \in Nat /\ MaxRanges \in Nat /\ MaxHosts \in Nat

R(lo, hi, w) == [lo |-> lo, hi |-> hi, width |-> w]
Name(n, len) == [pfx |-> 1, num |-> n, len |-> len]

List(rs) == [kind |-> "list", pfx |-> 1, ranges |-> rs]

\* f[8-10], f[9-10], f[08,10] and x[1]y; a descending range and a list that
\* is too long for the brackets.
MCTexts ==
  {<<List(<<R(8, 10, 1)>>)>>,
   <<List(<<R(9, 10, 1)>>)>>,
   <<List(<<R(8, 8, 2), R(10, 10, 2)>>)>>,
   <<[kind |-> "suffixed", pfx |-> 0, ranges |-> <<R(1, 1, 1)>>]>>,
   <<List(<<R(3, 2, 1)>>)>>,
   <<List(<<R(1, 1, 1), R(3, 3, 1), R(5, 5, 1)>>)>>}

\* f9, f09 and the host f.
MCHosts == {Name(9, 1), Name(9, 2), Name(0, 0)}

\* No call depends on the last one, which only the properties of steps read.
WithoutHistory == <<hl, set, missed>>

=============================================================================
