---------------------------- MODULE MCFixPublish ----------------------------
(***************************************************************************)
(* Small shops for TLC.  Fixes are numbered; odd shapes are picked by the  *)
(* configurations.                                                         *)
(***************************************************************************)
EXTENDS FixPublish

CONSTANTS b1, b2, plain, rich, empty

\* Two description fixes and one category fix of one product.
TwoBodiesOneCategory == [f \in Fixes |-> IF f \in {3, 4} THEN "category" ELSE "description"]

AllOnOne == [f \in Fixes |-> 1]

\* Fixes 1 and 3 belong to product 1, 2 and 4 to product 2.
TwoProducts == [f \in Fixes |-> IF f \in {1, 3} THEN 1 ELSE 2]

Distinct == [f \in Fixes |-> IF f = 1 THEN b1 ELSE b2]
SameBlock == [f \in Fixes |-> b1]

\* The words of the rich copy include those of the plain one.
Words == [c \in Copies |-> CASE c = plain -> {"w"}
                             [] c = rich -> {"w", "x"}
                             [] OTHER -> {}]

=============================================================================
