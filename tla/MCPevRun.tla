------------------------------ MODULE MCPevRun ------------------------------
(* Instances of PevRun for TLC.                                            *)
EXTENDS PevRun

(* Three plans: "ab" and "ab2" differ only in wording the structure drops  *)
(* (an isomorphic pair of two steps), "c" has one step of its own.         *)
MCPlans == {"ab", "ab2", "c"}

MCShape == [p \in MCPlans |-> IF p = "c" THEN "c" ELSE "ab"]

MCStepCount == [p \in MCPlans |-> IF p = "c" THEN 1 ELSE 2]

=============================================================================
