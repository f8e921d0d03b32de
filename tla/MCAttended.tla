------------------------------ MODULE MCAttended ------------------------------
(* Small instances of AttendedExecution. *)
EXTENDS AttendedExecution, TLC

CONSTANTS k1, k2, k3, t1, t2, x1, x2

\* p1 is the plan of interest.  p2 substitutes another plan under its transaction
\* id; p3, under its own id, shares a key with p1.
AnyPlan == {"p1", "p2", "p3"}
OnePlan == {"p1"}
Ids == [p \in Plans |-> IF p = "p3" THEN t2 ELSE t1]
Operations == [p \in Plans |-> CASE p = "p1" -> <<k1, k2>>
                                 [] p = "p2" -> <<k3>>
                                 [] p = "p3" -> <<k3, k2>>]

\* The plan of interest alone, with one operation.
OneOperation == [p \in Plans |-> <<k1>>]

ExecutorSymmetry == Permutations(Executors)
=============================================================================
