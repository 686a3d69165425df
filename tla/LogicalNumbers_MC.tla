-------------------------- MODULE LogicalNumbers_MC --------------------------
(* Two primary and three logical partitions, one to be created, one for copies. *)
EXTENDS LogicalNumbers, TLC

CONSTANTS p1, p3, l5, l6, l7, n, c

ThePrimaries == (p1 :> 1) @@ (p3 :> 3)
TheLogicals  == <<l5, l6, l7>>
==============================================================================
