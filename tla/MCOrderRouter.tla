--------------------------- MODULE MCOrderRouter ---------------------------
(* One order buys two, one sells one; prices keep every quotient exact. *)
EXTENDS OrderRouter, TLC

CONSTANTS buy, sell, c1, c2

MCOrders == {buy, sell}
MCBuys == {buy}
MCQuantity == [o \in {buy, sell} |-> IF o = buy THEN 2 ELSE 1]
MCLimitPrice == [o \in {buy, sell} |-> 1]
MCCallers == {c1, c2}
Symmetry == Permutations(MCCallers)
=============================================================================
