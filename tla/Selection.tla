------------------------------ MODULE Selection ------------------------------
(***************************************************************************)
(* ORDER BY and filter(): members of a finite set of numbers by size, and  *)
(* elements of a sequence in their order.  SelectSeq would do, but its     *)
(* value comes out of a recursion, and these are defined by what they      *)
(* return, so that a proof can use them.                                   *)
(***************************************************************************)
EXTENDS Naturals, FiniteSets, Sequences

\* The k-th smallest member of S.
Nth(S, k) == CHOOSE i \in S : Cardinality({j \in S : j < i}) = k - 1

\* What stands at the chosen positions of s, in the order of s.
Pick(s, chosen) == [k \in 1 .. Cardinality(chosen) |-> s[Nth(chosen, k)]]
=============================================================================
