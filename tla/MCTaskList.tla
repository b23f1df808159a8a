----------------------------- MODULE MCTaskList -----------------------------
(***************************************************************************)
(* A root with two planned tasks and two more that functions may add.  One *)
(* planned and one added task are required, the others are not.            *)
(***************************************************************************)
EXTENDS TaskListInv

CONSTANTS root, a, b, x, y

MCTasks == {root, a, b, x, y}
MCPlan == <<a, b>>
MCRequired == {root, a, x}
=============================================================================
