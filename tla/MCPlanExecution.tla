--------------------------- MODULE MCPlanExecution ---------------------------
(* Plans for TLC. *)
EXTENDS PlanExecution

(* An execution and its verification, an execution on it, a verification of both:
   either verification sends back what others have used.                   *)
Shared == [t \in 1 .. 4 |-> CASE t = 1 -> {} [] t = 4 -> {1, 3} [] OTHER -> {1}]
Latest == [t \in 1 .. 4 |-> IF t = 4 THEN 3 ELSE 1]
=============================================================================
