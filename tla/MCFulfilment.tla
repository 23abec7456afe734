---------------------------- MODULE MCFulfilment ----------------------------
(* Instances of Fulfilment for TLC: two of each of two lines.              *)
EXTENDS Fulfilment, TLC

CONSTANTS milk, eggs, p1, p2, c1

MCOrdered == milk :> 2 @@ eggs :> 2
(* Lines that came up short, one or both; milk may be found after all,     *)
(* some of it or everything.                                               *)
ShortReports == {milk :> 1, milk :> 2, eggs :> 1, milk :> 0 @@ eggs :> 1}
(* The pickers are interchangeable.                                        *)
Symmetry == Permutations({p1, p2})
=============================================================================
