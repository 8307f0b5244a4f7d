-------------------------- MODULE MCExecutionOrders --------------------------
(***************************************************************************)
(* Small instances of ExecutionOrders.  One unit of money is the largest   *)
(* single order.                                                           *)
(***************************************************************************)
EXTENDS ExecutionOrders, TLC

CONSTANTS t1, t2, o1

TwoTasks == {t1, t2}
TaskSymmetry == Permutations(TwoTasks)
=============================================================================
