--------------------------- MODULE MCPlannerLoop ---------------------------
(* An instance of PlannerLoop: an open question, a question for a ranking,   *)
(* one for a resume, and one about collected jobs with each authority that   *)
(* matters to it.                                                            *)
EXTENDS PlannerLoop

MCGoals ==
  {[wants |-> {}, allowed |-> Skills, collected |-> FALSE],
   [wants |-> {"matching"}, allowed |-> {"discovery", "matching"}, collected |-> FALSE],
   [wants |-> {"tailoring"}, allowed |-> Skills, collected |-> FALSE],
   [wants |-> {}, allowed |-> {"discovery", "matching"}, collected |-> TRUE],
   [wants |-> {"tailoring"}, allowed |-> Skills, collected |-> TRUE]}
=============================================================================
