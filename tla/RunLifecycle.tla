---------------------------- MODULE RunLifecycle ----------------------------
(***************************************************************************)
(* What a client of the agent runs may rely on: the life of ONE run row as *)
(* every reader of the database sees it.  domain/agent_runtime.py declares *)
(* the table of allowed moves (_ALLOWED_RUN_TRANSITIONS) and which statuses*)
(* are terminal; nothing on the write path consults it, so PevRun is shown *)
(* to implement it (the PROPERTY LifecycleImplemented of that module).     *)
(***************************************************************************)

VARIABLE status

RunStatus ==
  {"queued", "running", "waiting_user", "succeeded", "failed", "cancelled"}

TerminalRunStatuses == {"succeeded", "failed", "cancelled"}

AllowedRunTransitions ==
  [queued       |-> {"running", "cancelled"},
   running      |-> {"waiting_user", "succeeded", "failed", "cancelled"},
   waiting_user |-> {"running", "failed", "cancelled"},
   succeeded    |-> {},
   failed       |-> {},
   cancelled    |-> {}]

Init == status = "queued"

(* can_transition_run *)
Transition ==
  \E target \in AllowedRunTransitions[status] : status' = target

(* The one move outside the table: the worker's except branch closes a run *)
(* that raised before run_started was committed.                           *)
AbortBeforeStart ==
  /\ status = "queued"
  /\ status' = "failed"

Next == Transition \/ AbortBeforeStart

Spec == Init /\ [][Next]_status

=============================================================================
