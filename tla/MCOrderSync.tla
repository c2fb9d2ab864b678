---------------------------- MODULE MCOrderSync ----------------------------
(***************************************************************************)
(* OrderSync for TLC: the orders are model values, given by the            *)
(* configurations and interchangeable.  Nothing needs a bound: an order    *)
(* fills at most Size times and a connection carries at most one event per *)
(* change of an order.                                                     *)
(***************************************************************************)
EXTENDS OrderSync, TLC

Symmetry == Permutations(Orders)
=============================================================================
