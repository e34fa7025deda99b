------------------------------- MODULE PevRun -------------------------------
(***************************************************************************)
(* One agent run under the Planner / Executor / CompletionGate harness of  *)
(* services/agent_runtime/runtime.py, as its one driver at a time moves it:*)
(* the background worker that takes the queued run, or the HTTP request of *)
(* a user's resume or recover.  A driver works on a database session: what *)
(* it writes is pending in "session" until one of the code's commits makes *)
(* it "durable", and a crash or an exception throws the pending part away. *)
(*                                                                         *)
(* Several drivers on the same run are the subject of RunDrivers.          *)
(***************************************************************************)
EXTENDS Naturals, Sequences

CONSTANTS
  Plans,              \* what the planner can produce, up to _plan_fingerprint
  Shape,              \* [Plans -> ...]: equal iff _plans_isomorphic
  StepCount,          \* [Plans -> Nat \ {0}]: number of steps of a plan
  MaxReplans,         \* budget.max_replans of the submitted task
  ReplanCap,          \* the most an upgraded budget may reach (10 in the code)
  MaxAutoRecoveries,  \* budget.max_auto_recoveries
  NoPlan,             \* no plan in hand
  MaxPasses           \* bound: no resume or recover once so many passes began

ASSUME PlansAssumption ==
  /\ NoPlan \notin Plans
  /\ StepCount \in [Plans -> Nat \ {0}]
  /\ Shape \in [Plans -> Plans]

ASSUME BudgetAssumption ==
  /\ MaxReplans \in Nat
  /\ ReplanCap \in Nat \ {0}
  /\ MaxReplans <= ReplanCap
  /\ MaxAutoRecoveries \in Nat
  /\ MaxPasses \in Nat

VARIABLES
  durable,      \* the committed rows of the run: run, plans, steps, last pause
  session,      \* the same rows as the driver's transaction sees them
  scheduled,    \* the background task of the queued run is still in memory
  pc,           \* where the driver is; "idle" when there is none
  driver,       \* "worker", "resume" or "recover": who is (or was) driving
  proposal,     \* the plan the planner returned last
  replanSource, \* replan_source: the plan the replan was requested from
  replans,      \* replans consumed, as this pass counts them
  conversions,  \* ReplanState.conversion_reasons
  budget,       \* task.budget.max_replans of this pass
  attempts,     \* context["auto_recovery_attempts"] of this pass
  cause,        \* why the pass that just returned had paused
  passes        \* history: calls of _run_once so far

rows    == <<durable, session>>
control == <<pc, driver, scheduled>>
loop    == <<proposal, replanSource, replans, conversions, budget, attempts>>
vars    == <<rows, control, loop, cause, passes>>

-----------------------------------------------------------------------------
(* Pauses.  Every waiting_user transition appends an event, and three of   *)
(* the event types carry a terminal.v1 contract.  The harness resumes by   *)
(* itself on what the latest of THOSE says, which comes down to a class:   *)
(*   model_decision  a reason of _AUTO_RECOVERY_ELIGIBLE_REASONS, not      *)
(*                   stamped as blocked: need_user, the wall clock, ...    *)
(*   source_block    stamped as blocked: login, captcha, anti-bot, ...     *)
(*   hard_stop       any other reason: replan_budget_exhausted, ...        *)

PauseClass == {"none", "model_decision", "source_block", "hard_stop"}

(* _auto_recovery_eligible over _last_needs_user_contract *)
AutoRecoveryEligible(row) == row.pause = "model_decision"

(* What really paused the run: an agent's event with a contract, or one of *)
(* the harness's guards.                                                   *)
Causes == {"none", "agent", "guard"}

(* How a step pauses; StepRun computes the class. *)
StepPauses == {"source_block", "model_decision", "hard_stop"}

(* An unusable plan (invalid_execution_plan) is a hard stop; a question, an*)
(* invalid model answer and the wall clock are not.                        *)
PlannerPauses == {"model_decision", "hard_stop"}

-----------------------------------------------------------------------------
RunStatus == {"queued", "running", "waiting_user", "succeeded", "failed"}

StepStatus == {"planned", "succeeded", "failed", "skipped"}

ReplanReason ==
  {"tool_scope_conflict", "dependency_unavailable",
   "retry_contract_exhausted", "need_user_contract"}

ConversionReasons == {"retry_contract_exhausted", "need_user_contract"}

Rows ==
  [status : RunStatus,
   plans  : Seq(Plans),
   steps  : Seq(StepStatus),         \* step rows of the latest plan
   closed : {"open", "all_steps", "zero_match"},
   pause  : PauseClass,
   grants : Nat]                     \* replans granted: their events

QueuedRow ==
  [status |-> "queued", plans |-> <<>>, steps |-> <<>>, closed |-> "open",
   pause |-> "none", grants |-> 0]

Finish(row, status) == [row EXCEPT !.status = status]

Pause(row, class) == [row EXCEPT !.status = "waiting_user", !.pause = class]

CloseStep(row, status) ==
  [row EXCEPT !.steps = [row.steps EXCEPT ![Len(row.steps)] = status]]

Grant(row) == [row EXCEPT !.grants = row.grants + 1]

LatestPlan(row) == row.plans[Len(row.plans)]

(* Mutant: the count compared with > 2. *)
AcceptedThreeTimes(plans, p) ==
  \E i, j, k \in DOMAIN plans :
    i < j /\ j < k /\ plans[i] = p /\ plans[j] = p /\ plans[k] = p

(* accepted_plan_fingerprints.get(fingerprint) >= 2 *)
AcceptedTwice(plans, p) ==
  \E i, j \in DOMAIN plans : i < j /\ plans[i] = p /\ plans[j] = p

(* Mutant: a pass starts with the whole replan budget. *)
NoReplansOnEntry(row) == 0

(* replans = max(0, revision - 1, replan_state.count) where a pass starts  *)
ReplansOnEntry(row) == IF row.plans = <<>> THEN 0 ELSE Len(row.plans) - 1

(* int(value * (1.0 + 0.5 * (attempts_used + 1))) within 1..cap *)
UpgradedBudget(value, used) ==
  LET scaled == (value * (used + 3)) \div 2
  IN  IF scaled > ReplanCap THEN ReplanCap
      ELSE IF scaled < 1 THEN 1 ELSE scaled

-----------------------------------------------------------------------------
Init ==
  /\ durable = QueuedRow
  /\ session = QueuedRow
  /\ scheduled = TRUE
  /\ pc = "idle"
  /\ driver = "worker"
  /\ proposal = NoPlan
  /\ replanSource = NoPlan
  /\ replans = 0
  /\ conversions = {}
  /\ budget = MaxReplans
  /\ attempts = 0
  /\ cause = "none"
  /\ passes = 0

(* A pass begins: _run_once rebuilds its local state from the rows and from*)
(* the task, whose replan_state and conversions are those of a new task.   *)
BeginPass(row, taskBudget, used) ==
  /\ pc' = "planning"
  /\ replanSource' = NoPlan
  /\ replans' = ReplansOnEntry(row)
  /\ conversions' = {}
  /\ budget' = taskBudget
  /\ attempts' = used
  /\ cause' = "none"
  /\ passes' = passes + 1
  /\ proposal' = NoPlan

(* The driver is gone and its local state with it. *)
DriverLeaves ==
  /\ pc' = "idle"
  /\ proposal' = NoPlan
  /\ replanSource' = NoPlan
  /\ replans' = 0
  /\ conversions' = {}
  /\ budget' = MaxReplans
  /\ attempts' = 0
  /\ cause' = "none"
  /\ UNCHANGED <<driver, passes>>

-----------------------------------------------------------------------------
(* Entries.                                                                *)

(* The worker reads the row without a lock and goes on if it is queued.    *)
WorkerTakesRun ==
  /\ pc = "idle"
  /\ scheduled
  /\ durable.status = "queued"
  /\ scheduled' = FALSE
  /\ pc' = "starting"
  /\ driver' = "worker"
  /\ session' = durable
  /\ UNCHANGED <<durable, loop, cause, passes>>

(* start_run, run_started, checkpoint. *)
RunStarted ==
  /\ pc = "starting"
  /\ durable' = Finish(session, "running")
  /\ session' = durable'
  /\ BeginPass(session, MaxReplans, 0)
  /\ UNCHANGED <<driver, scheduled>>

(* Mutant: the status check lets a failed run through. *)
ResumeAnyStoppedRun ==
  /\ pc = "idle"
  /\ passes < MaxPasses
  /\ durable.status \in {"waiting_user", "failed"}
  /\ driver' = "resume"
  /\ session' = Finish(durable, "running")
  /\ BeginPass(durable, MaxReplans, 0)
  /\ UNCHANGED <<durable, scheduled>>

(* The user answers a pause: start_run and run_resumed stay pending. *)
ResumeRun ==
  /\ pc = "idle"
  /\ passes < MaxPasses
  /\ durable.status = "waiting_user"
  /\ driver' = "resume"
  /\ session' = Finish(durable, "running")
  /\ BeginPass(durable, MaxReplans, 0)
  /\ UNCHANGED <<durable, scheduled>>

(* An interrupted running run restarts from what it had committed. *)
RecoverRun ==
  /\ pc = "idle"
  /\ passes < MaxPasses
  /\ durable.status = "running"
  /\ driver' = "recover"
  /\ session' = durable
  /\ BeginPass(durable, MaxReplans, 0)
  /\ UNCHANGED <<durable, scheduled>>

-----------------------------------------------------------------------------
(* Planning.  trace() commits after every decision of the planner.         *)

(* A decision that does not end planner.run: a tool call, a premature      *)
(* question or an invalid plan that is asked again.                        *)
PlannerTurn ==
  /\ pc = "planning"
  /\ durable' = session
  /\ UNCHANGED <<session, control, loop, cause, passes>>

PlannerProposes(p) ==
  /\ pc = "planning"
  /\ durable' = session
  /\ proposal' = p
  /\ pc' = "proposed"
  /\ UNCHANGED <<session, driver, scheduled, replanSource, replans, conversions,
                 budget, attempts, cause, passes>>

(* An unusable model answer replaced by the seeded fallback plan: the      *)
(* failed decision is not traced, so nothing is committed here.            *)
PlannerFallsBack(p) ==
  /\ pc = "planning"
  /\ proposal' = p
  /\ pc' = "proposed"
  /\ UNCHANGED <<rows, driver, scheduled, replanSource, replans, conversions,
                 budget, attempts, cause, passes>>

(* planner_needs_user and planner_budget_exhausted. *)
PlannerAsksUser(class) ==
  /\ pc = "planning"
  /\ session' = Pause(session, class)
  /\ cause' = "agent"
  /\ pc' = "returned"
  /\ UNCHANGED <<durable, driver, scheduled, loop, passes>>

(* A spent turn, tool or model budget, or a gateway error, fails the run. *)
PlannerFails ==
  /\ pc = "planning"
  /\ session' = Finish(session, "failed")
  /\ pc' = "returned"
  /\ UNCHANGED <<durable, driver, scheduled, loop, cause, passes>>

-----------------------------------------------------------------------------
(* What the harness does with a plan before it executes it.                *)

(* N4: the plan repeats the structure that was to be replanned, and the    *)
(* replan budget is spent.                                                 *)
IsomorphicRepeat ==
  /\ replanSource # NoPlan
  /\ budget >= 2
  /\ replans >= budget
  /\ Shape[replanSource] = Shape[proposal]

DuplicatePlan == AcceptedTwice(session.plans, proposal)

(* Mutant: the guard finishes the run and does not return. *)
GuardPausesAndGoesOn ==
  /\ pc = "proposed"
  /\ IsomorphicRepeat \/ DuplicatePlan
  /\ session' = Finish(session, "waiting_user")
  /\ replanSource' = NoPlan
  /\ proposal' = NoPlan
  /\ cause' = "guard"
  /\ pc' = "planning"
  /\ UNCHANGED <<durable, driver, scheduled, replans, conversions, budget,
                 attempts, passes>>

(* Both guards pause the run under an event type of their own, which       *)
(* _last_needs_user_contract does not read: session.pause stays as it was. *)
GuardPauses ==
  /\ pc = "proposed"
  /\ IsomorphicRepeat \/ DuplicatePlan
  /\ session' = Finish(session, "waiting_user")
  /\ replanSource' = NoPlan
  /\ proposal' = NoPlan
  /\ cause' = "guard"
  /\ pc' = "returned"
  /\ UNCHANGED <<durable, driver, scheduled, replans, conversions, budget,
                 attempts, passes>>

(* create_plan, plan_created, checkpoint. *)
AcceptPlan ==
  /\ pc = "proposed"
  /\ ~ IsomorphicRepeat
  /\ ~ DuplicatePlan
  /\ session' = [session EXCEPT !.plans = Append(session.plans, proposal),
                                !.steps = <<>>]
  /\ durable' = session'
  /\ replanSource' = NoPlan
  /\ proposal' = NoPlan
  /\ pc' = "stepping"
  /\ UNCHANGED <<driver, scheduled, replans, conversions, budget, attempts,
                 cause, passes>>

-----------------------------------------------------------------------------
(* Executing the steps of the plan in order.                               *)

(* create_step, checkpoint: what the previous step left pending commits.   *)
BeginStep ==
  /\ pc = "stepping"
  /\ Len(session.steps) < StepCount[LatestPlan(session)]
  /\ session' = [session EXCEPT !.steps = Append(session.steps, "planned")]
  /\ durable' = session'
  /\ pc' = "executing"
  /\ UNCHANGED <<driver, scheduled, loop, cause, passes>>

(* The gate passed, or a rescue kept the tool-backed deliverable. *)
StepSucceeds ==
  /\ pc = "executing"
  /\ session' = CloseStep(session, "succeeded")
  /\ pc' = "stepping"
  /\ UNCHANGED <<durable, driver, scheduled, loop, cause, passes>>

(* A complete scan of an official source proved that there is no match: the*)
(* whole run succeeds at this step.                                        *)
StepProvesZeroMatch ==
  /\ pc = "executing"
  /\ session' = [CloseStep(session, "succeeded") EXCEPT
                   !.status = "succeeded", !.closed = "zero_match"]
  /\ pc' = "returned"
  /\ UNCHANGED <<durable, driver, scheduled, loop, cause, passes>>

(* The contract-driven conversions need replan budget and happen once; a   *)
(* tool-scope conflict or a missing dependency always asks for a replan.   *)
MayRequestReplan(reason) ==
  reason \in ConversionReasons =>
    /\ replans < budget
    /\ reason \notin conversions

(* The replan is granted: the planner is asked again with the feedback. *)
StepReplans(reason) ==
  /\ pc = "executing"
  /\ MayRequestReplan(reason)
  /\ replans + 1 <= budget
  /\ session' = Grant(CloseStep(session, "skipped"))
  /\ replans' = replans + 1
  /\ conversions' = conversions \cup ({reason} \cap ConversionReasons)
  /\ replanSource' = LatestPlan(session)
  /\ pc' = "planning"
  /\ UNCHANGED <<durable, driver, scheduled, proposal, budget, attempts, cause,
                 passes>>

(* ... or max_replans is spent: the run pauses. *)
ReplanBudgetExhausted(reason) ==
  /\ pc = "executing"
  /\ MayRequestReplan(reason)
  /\ replans + 1 > budget
  /\ session' = Pause(CloseStep(session, "skipped"), "hard_stop")
  /\ replans' = replans + 1
  /\ cause' = "agent"
  /\ pc' = "returned"
  /\ UNCHANGED <<durable, driver, scheduled, proposal, replanSource,
                 conversions, budget, attempts, passes>>

(* Mutant: the loop does not look at the status of the outcome. *)
StepPausesAndPlanGoesOn(class) ==
  /\ pc = "executing"
  /\ session' = Pause(CloseStep(session, "failed"), class)
  /\ cause' = "agent"
  /\ pc' = "stepping"
  /\ UNCHANGED <<durable, driver, scheduled, loop, passes>>

(* Mutant: the pause is checkpointed at once. *)
StepPausesRunDurably(class) ==
  /\ pc = "executing"
  /\ session' = Pause(CloseStep(session, "failed"), class)
  /\ durable' = session'
  /\ cause' = "agent"
  /\ pc' = "returned"
  /\ UNCHANGED <<driver, scheduled, loop, passes>>

(* _wait_for_user *)
StepPausesRun(class) ==
  /\ pc = "executing"
  /\ session' = Pause(CloseStep(session, "failed"), class)
  /\ cause' = "agent"
  /\ pc' = "returned"
  /\ UNCHANGED <<durable, driver, scheduled, loop, passes>>

(* _fail_step *)
StepFailsRun ==
  /\ pc = "executing"
  /\ session' = Finish(CloseStep(session, "failed"), "failed")
  /\ pc' = "returned"
  /\ UNCHANGED <<durable, driver, scheduled, loop, cause, passes>>

FinishRun ==
  /\ pc = "stepping"
  /\ Len(session.steps) = StepCount[LatestPlan(session)]
  /\ session' = [session EXCEPT !.status = "succeeded", !.closed = "all_steps"]
  /\ pc' = "returned"
  /\ UNCHANGED <<durable, driver, scheduled, loop, cause, passes>>

-----------------------------------------------------------------------------
(* After a pass.                                                           *)

(* Mutant: attempts are not compared with max_auto_recoveries. *)
MayAlwaysAutoRecover ==
  /\ session.status = "waiting_user"
  /\ AutoRecoveryEligible(session)

MayAutoRecover ==
  /\ session.status = "waiting_user"
  /\ attempts < MaxAutoRecoveries
  /\ AutoRecoveryEligible(session)

(* _auto_recover: the pause is still pending when the run goes on. *)
AutoRecover ==
  /\ pc = "returned"
  /\ MayAutoRecover
  /\ session' = Finish(session, "running")
  /\ BeginPass(session, UpgradedBudget(budget, attempts), attempts + 1)
  /\ UNCHANGED <<durable, driver, scheduled>>

(* The commit of the worker or of the request. *)
DriverCommits ==
  /\ pc = "returned"
  /\ ~ MayAutoRecover
  /\ durable' = session
  /\ DriverLeaves
  /\ UNCHANGED <<session, scheduled>>

-----------------------------------------------------------------------------
(* Failures of the process.                                                *)

(* An exception leaves the worker: rollback, then the run is closed. *)
WorkerRaises ==
  /\ pc # "idle"
  /\ driver = "worker"
  /\ durable' = Finish(durable, "failed")
  /\ session' = durable'
  /\ DriverLeaves
  /\ UNCHANGED scheduled

(* An exception leaves the request of a resume or recover: its session is  *)
(* closed and only what was committed remains.                             *)
RequestRaises ==
  /\ pc # "idle"
  /\ driver # "worker"
  /\ session' = durable
  /\ DriverLeaves
  /\ UNCHANGED <<durable, scheduled>>

(* The process stops: sessions and background tasks are gone. *)
Crash ==
  /\ pc # "idle" \/ scheduled
  /\ session' = durable
  /\ scheduled' = FALSE
  /\ DriverLeaves
  /\ UNCHANGED durable

-----------------------------------------------------------------------------
Planner ==
  \/ PlannerTurn
  \/ \E p \in Plans : PlannerProposes(p)
  \/ \E p \in Plans : PlannerFallsBack(p)
  \/ \E class \in PlannerPauses : PlannerAsksUser(class)
  \/ PlannerFails

Step ==
  \/ BeginStep
  \/ StepSucceeds
  \/ StepProvesZeroMatch
  \/ \E reason \in ReplanReason : StepReplans(reason)
  \/ \E reason \in ReplanReason : ReplanBudgetExhausted(reason)
  \/ \E class \in StepPauses : StepPausesRun(class)
  \/ StepFailsRun

Driver ==
  \/ WorkerTakesRun
  \/ RunStarted
  \/ Planner
  \/ GuardPauses
  \/ AcceptPlan
  \/ Step
  \/ FinishRun
  \/ AutoRecover
  \/ DriverCommits

Human == ResumeRun \/ RecoverRun

Failure == WorkerRaises \/ RequestRaises \/ Crash

Next == Driver \/ Human \/ Failure

Spec == Init /\ [][Next]_vars

(* A driver that can take a step takes one: the worker is a thread of the  *)
(* server, the planner's loop is bounded by the turn budget and every model*)
(* call has a deadline.  Nothing obliges a user to answer, and nothing     *)
(* obliges a process to fail.                                              *)
FairSpec == Spec /\ WF_vars(Driver)

-----------------------------------------------------------------------------
(* Properties.                                                             *)

TypeOK ==
  /\ durable \in Rows
  /\ session \in Rows
  /\ scheduled \in BOOLEAN
  /\ pc \in {"idle", "starting", "planning", "proposed", "stepping",
             "executing", "returned"}
  /\ driver \in {"worker", "resume", "recover"}
  /\ proposal \in Plans \cup {NoPlan}
  /\ replanSource \in Plans \cup {NoPlan}
  /\ replans \in Nat
  /\ conversions \subseteq ConversionReasons
  /\ budget \in 0..ReplanCap
  /\ attempts \in 0..MaxAutoRecoveries
  /\ cause \in Causes
  /\ passes \in Nat

AtMostTwice(plans) ==
  \A i, j, k \in DOMAIN plans :
    i < j /\ j < k => ~ (plans[i] = plans[j] /\ plans[j] = plans[k])

(* The duplicate guard holds across passes, crashes and resumes: a plan is *)
(* never accepted a third time, although the counts the guard uses live in *)
(* memory and are rebuilt from the persisted plans whenever a pass begins. *)
NoPlanAcceptedThrice == AtMostTwice(session.plans)

(* Replans already spent are not spendable again: whatever is interrupted, *)
(* recovered by the harness or resumed by the user, each further pass buys *)
(* the run at most ONE plan beyond the largest replan budget.              *)
PlansBoundedByPasses == Len(session.plans) <= ReplanCap + passes

Covered(row) ==
  row.status = "succeeded" =>
    /\ row.plans # <<>>
    /\ row.steps # <<>>
    /\ \A i \in DOMAIN row.steps : row.steps[i] = "succeeded"
    /\ \/ Len(row.steps) = StepCount[LatestPlan(row)]
       \/ row.closed = "zero_match"

(* A run only succeeds on a plan of which every step row succeeded, unless *)
(* the step that closed it proved that nothing matches; either way no step *)
(* before it failed, was skipped or was left open.                         *)
SucceededRunIsCovered == Covered(durable)

(* A pause the user can see has nobody working behind it: as long as the   *)
(* harness may still go on by itself the pause is uncommitted, so the only *)
(* driver of a run that is durably waiting is the user's resume before its *)
(* first commit, and that one has accepted no plan yet.                    *)
CommittedPauseIsQuiet ==
  durable.status = "waiting_user" /\ pc # "idle" =>
    /\ driver = "resume"
    /\ session.plans = durable.plans

(* The committed status of the run moves as the lifecycle allows. *)
Lifecycle == INSTANCE RunLifecycle WITH status <- durable.status

LifecycleImplemented == Lifecycle!Spec

(* No pass runs for ever: replans and automatic recoveries come to an end, *)
(* and the run is handed back to a user, closed or left to be recovered.   *)
DriverTerminates == (pc # "idle") ~> (pc = "idle")

(* Checked and refuted (see the README's findings).                        *)

(* "oscillation guards never auto-recover; the pause goes to the human     *)
(* unchanged" (_auto_recover).                                             *)
GuardPauseGoesToUser == [][AutoRecover => cause # "guard"]_vars

(* "Recovering a crashed run must NOT reset this to zero, or a budget      *)
(* already spent on replanning becomes spendable again" (_run_once): every *)
(* replan whose grant was committed still counts after the interruption.   *)
GrantedReplansSurviveRecovery ==
  [][RecoverRun => replans' >= durable.grants]_vars

=============================================================================
