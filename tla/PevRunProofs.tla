---------------------------- MODULE PevRunProofs ----------------------------
(***************************************************************************)
(* Theorems about PevRun for every set of plans, every budget and every    *)
(* number of passes.  They all rest on one inductive invariant, built in   *)
(* layers: the types, then what the driver's position says of the rows.    *)
(* At the end a measure shows that no pass goes on for ever.               *)
(***************************************************************************)
EXTENDS PevRun, TLAPS, SequenceTheorems

USE PlansAssumption, BudgetAssumption DEF PlansAssumption, BudgetAssumption

-----------------------------------------------------------------------------
(* Facts about the rows.                                                   *)

(* finish_run and start_run only touch the status.                         *)
LEMMA FinishRow ==
  ASSUME NEW row \in Rows, NEW s \in RunStatus
  PROVE  /\ Finish(row, s) \in Rows
         /\ Finish(row, s).status = s
         /\ Finish(row, s).plans = row.plans
         /\ Finish(row, s).steps = row.steps
         /\ Finish(row, s).closed = row.closed
  BY DEF Rows, Finish

(* A pause keeps plans and steps.                                          *)
LEMMA PauseRow ==
  ASSUME NEW row \in Rows, NEW class \in PauseClass
  PROVE  /\ Pause(row, class) \in Rows
         /\ Pause(row, class).status = "waiting_user"
         /\ Pause(row, class).plans = row.plans
         /\ Pause(row, class).steps = row.steps
         /\ Pause(row, class).closed = row.closed
  BY DEF Rows, Pause, RunStatus

(* Closing a step changes the last step row and nothing else.              *)
LEMMA CloseStepRow ==
  ASSUME NEW row \in Rows, row.steps # <<>>, NEW s \in StepStatus
  PROVE  /\ CloseStep(row, s) \in Rows
         /\ CloseStep(row, s).status = row.status
         /\ CloseStep(row, s).plans = row.plans
         /\ CloseStep(row, s).closed = row.closed
         /\ CloseStep(row, s).pause = row.pause
         /\ CloseStep(row, s).steps # <<>>
         /\ Len(CloseStep(row, s).steps) = Len(row.steps)
         /\ CloseStep(row, s).steps[Len(row.steps)] = s
         /\ \A i \in 1..Len(row.steps) - 1 :
              CloseStep(row, s).steps[i] = row.steps[i]
<1>1. /\ row.steps \in Seq(StepStatus)
      /\ Len(row.steps) \in 1..Len(row.steps)
  BY DEF Rows
<1> DEFINE closed == [row.steps EXCEPT ![Len(row.steps)] = s]
<1>2. closed \in Seq(StepStatus) /\ Len(closed) = Len(row.steps)
  BY <1>1, ExceptSeq
<1>3. /\ closed[Len(row.steps)] = s
      /\ \A i \in 1..Len(row.steps) - 1 : closed[i] = row.steps[i]
  BY <1>1
<1>4. closed # <<>>
  BY <1>1, <1>2
<1>5. CloseStep(row, s) = [row EXCEPT !.steps = closed]
  BY DEF CloseStep
<1> HIDE DEF closed
<1>6. /\ CloseStep(row, s) \in Rows
      /\ CloseStep(row, s).status = row.status
      /\ CloseStep(row, s).plans = row.plans
      /\ CloseStep(row, s).closed = row.closed
      /\ CloseStep(row, s).pause = row.pause
      /\ CloseStep(row, s).steps = closed
  BY <1>2, <1>5 DEF Rows
<1> QED
  BY <1>1, <1>2, <1>3, <1>4, <1>6

(* Granting a replan only counts it.                                       *)
LEMMA GrantRow ==
  ASSUME NEW row \in Rows
  PROVE  /\ Grant(row) \in Rows
         /\ Grant(row).status = row.status
         /\ Grant(row).plans = row.plans
<1>1. row.grants + 1 \in Nat
  BY DEF Rows
<1> DEFINE more == row.grants + 1
<1>2. Grant(row) = [row EXCEPT !.grants = more]
  BY DEF Grant
<1>3. more \in Nat
  BY <1>1
<1> HIDE DEF more
<1> QED
  BY <1>2, <1>3 DEF Rows

(* A pass starts with at most the number of plans beyond the first.        *)
LEMMA ReplansOnEntryNat ==
  ASSUME NEW row \in Rows
  PROVE  ReplansOnEntry(row) \in Nat
  BY DEF Rows, ReplansOnEntry

(* The budget of a further attempt stays within the cap.                   *)
LEMMA UpgradedBudgetRange ==
  ASSUME NEW value \in Nat, NEW used \in Nat
  PROVE  UpgradedBudget(value, used) \in 0..ReplanCap
<1> DEFINE product == value * (used + 3)
<1>1. product \in Nat
  OBVIOUS
<1> HIDE DEF product
<1>2. product \div 2 \in Nat
  BY <1>1
<1>3. UpgradedBudget(value, used) =
        IF product \div 2 > ReplanCap THEN ReplanCap
        ELSE IF product \div 2 < 1 THEN 1 ELSE product \div 2
  BY DEF UpgradedBudget, product
<1> QED
  BY <1>2, <1>3

-----------------------------------------------------------------------------
(* Types.                                                                  *)

(* What the types need to be inductive: a plan in hand where one is to be  *)
(* accepted, a step row where one is to be closed.                         *)
TypeInv ==
  /\ TypeOK
  /\ pc = "proposed" => proposal \in Plans
  /\ pc \in {"stepping", "executing"} => session.plans # <<>>
  /\ pc = "executing" => session.steps # <<>>

(* The driver's local state after it has left.                             *)
LEMMA LeavingTypes ==
  ASSUME TypeInv, DriverLeaves, durable' \in Rows, session' \in Rows,
         scheduled' \in BOOLEAN
  PROVE  TypeInv'
<1>1. "none" \in Causes
  BY DEF Causes
<1> QED
  BY <1>1 DEF TypeInv, TypeOK, DriverLeaves

(* The driver's local state at the beginning of a pass.                    *)
LEMMA BeginningTypes ==
  ASSUME TypeInv, NEW row \in Rows, NEW taskBudget \in 0..ReplanCap,
         NEW used \in 0..MaxAutoRecoveries,
         BeginPass(row, taskBudget, used),
         durable' \in Rows, session' \in Rows, scheduled' \in BOOLEAN,
         driver' \in {"worker", "resume", "recover"}
  PROVE  TypeInv'
<1>1. "none" \in Causes /\ ReplansOnEntry(row) \in Nat
  BY ReplansOnEntryNat DEF Causes
<1> QED
  BY <1>1 DEF TypeInv, TypeOK, BeginPass

(* Initially nothing is in hand.                                           *)
LEMMA TypeInit == Init => TypeInv
<1> SUFFICES ASSUME Init PROVE TypeInv
  OBVIOUS
<1>1. QueuedRow \in Rows
  BY DEF QueuedRow, Rows, RunStatus, PauseClass
<1>2. "none" \in Causes
  BY DEF Causes
<1> QED
  BY <1>1, <1>2 DEF Init, TypeInv, TypeOK

(* Every step keeps the types.                                             *)
LEMMA TypeStep == TypeInv /\ [Next]_vars => TypeInv'
<1> SUFFICES ASSUME TypeInv, [Next]_vars PROVE TypeInv'
  OBVIOUS
<1> USE DEF TypeInv, TypeOK
<1>a. /\ {"queued", "running", "waiting_user", "succeeded", "failed"}
           \subseteq RunStatus
      /\ {"planned", "succeeded", "failed", "skipped"} \subseteq StepStatus
      /\ {"none", "model_decision", "source_block", "hard_stop"}
           \subseteq PauseClass
  BY DEF RunStatus, StepStatus, PauseClass
<1>1. CASE WorkerTakesRun
  BY <1>1 DEF WorkerTakesRun, loop
<1>2. CASE RunStarted
  <2>1. Finish(session, "running") \in Rows
    BY <1>a, FinishRow
  <2> QED
    BY <1>2, <2>1, BeginningTypes DEF RunStarted
<1>3. CASE ResumeRun
  <2>1. Finish(durable, "running") \in Rows
    BY <1>a, FinishRow
  <2> QED
    BY <1>3, <2>1, BeginningTypes DEF ResumeRun
<1>4. CASE RecoverRun
  BY <1>4, BeginningTypes DEF RecoverRun
<1>5. CASE PlannerTurn
  BY <1>5 DEF PlannerTurn, control, loop
<1>6. ASSUME NEW p \in Plans, PlannerProposes(p) PROVE TypeInv'
  BY <1>6 DEF PlannerProposes
<1>7. ASSUME NEW p \in Plans, PlannerFallsBack(p) PROVE TypeInv'
  BY <1>7 DEF PlannerFallsBack, rows
<1>8. ASSUME NEW class \in PlannerPauses, PlannerAsksUser(class) PROVE TypeInv'
  <2>1. Pause(session, class) \in Rows
    BY <1>a, PauseRow DEF PlannerPauses
  <2>2. "agent" \in Causes
    BY DEF Causes
  <2> QED
    BY <1>8, <2>1, <2>2 DEF PlannerAsksUser, loop
<1>9. CASE PlannerFails
  <2>1. Finish(session, "failed") \in Rows
    BY <1>a, FinishRow
  <2> QED
    BY <1>9, <2>1 DEF PlannerFails, loop
<1>10. CASE GuardPauses
  <2>1. Finish(session, "waiting_user") \in Rows
    BY <1>a, FinishRow
  <2>2. "guard" \in Causes
    BY DEF Causes
  <2> QED
    BY <1>10, <2>1, <2>2 DEF GuardPauses
<1>11. CASE AcceptPlan
  <2> DEFINE row == [session EXCEPT !.plans = Append(session.plans, proposal),
                                    !.steps = <<>>]
  <2>1. proposal \in Plans
    BY <1>11 DEF AcceptPlan
  <2>2. session.plans \in Seq(Plans)
    BY DEF Rows
  <2>3. /\ Append(session.plans, proposal) \in Seq(Plans)
        /\ Append(session.plans, proposal) # <<>>
    BY <2>1, <2>2, AppendProperties
  <2>4. <<>> \in Seq(StepStatus)
    OBVIOUS
  <2>5. row \in Rows /\ row.plans # <<>>
    BY <2>3, <2>4 DEF Rows
  <2> HIDE DEF row
  <2>6. session' = row /\ durable' = row
    BY <1>11 DEF AcceptPlan, row
  <2> QED
    BY <1>11, <2>5, <2>6 DEF AcceptPlan
<1>12. CASE BeginStep
  <2> DEFINE row == [session EXCEPT !.steps = Append(session.steps, "planned")]
  <2>1. session.steps \in Seq(StepStatus)
    BY DEF Rows
  <2>2. /\ Append(session.steps, "planned") \in Seq(StepStatus)
        /\ Append(session.steps, "planned") # <<>>
    BY <1>a, <2>1, AppendProperties
  <2>3. /\ row \in Rows
        /\ row.steps # <<>>
        /\ row.plans = session.plans
    BY <2>2 DEF Rows
  <2> HIDE DEF row
  <2>4. session' = row /\ durable' = row
    BY <1>12 DEF BeginStep, row
  <2> QED
    BY <1>12, <2>3, <2>4 DEF BeginStep, loop
<1>13. CASE StepSucceeds
  <2>1. /\ CloseStep(session, "succeeded") \in Rows
        /\ CloseStep(session, "succeeded").plans = session.plans
    BY <1>a, <1>13, CloseStepRow DEF StepSucceeds
  <2> QED
    BY <1>13, <2>1 DEF StepSucceeds, loop
<1>14. CASE StepProvesZeroMatch
  <2>1. CloseStep(session, "succeeded") \in Rows
    BY <1>a, <1>14, CloseStepRow DEF StepProvesZeroMatch
  <2>2. [CloseStep(session, "succeeded") EXCEPT
           !.status = "succeeded", !.closed = "zero_match"] \in Rows
    BY <1>a, <2>1 DEF Rows
  <2> QED
    BY <1>14, <2>2 DEF StepProvesZeroMatch, loop
<1>15. ASSUME NEW reason \in ReplanReason, StepReplans(reason) PROVE TypeInv'
  <2>1. Grant(CloseStep(session, "skipped")) \in Rows
    BY <1>a, <1>15, CloseStepRow, GrantRow DEF StepReplans
  <2>2. LatestPlan(session) \in Plans
    BY <1>15 DEF StepReplans, LatestPlan, Rows
  <2> QED
    BY <1>15, <2>1, <2>2 DEF StepReplans
<1>16. ASSUME NEW reason \in ReplanReason, ReplanBudgetExhausted(reason)
       PROVE  TypeInv'
  <2>1. CloseStep(session, "skipped") \in Rows
    BY <1>a, <1>16, CloseStepRow DEF ReplanBudgetExhausted
  <2>2. Pause(CloseStep(session, "skipped"), "hard_stop") \in Rows
    BY <1>a, <2>1, PauseRow
  <2>3. "agent" \in Causes
    BY DEF Causes
  <2> QED
    BY <1>16, <2>2, <2>3 DEF ReplanBudgetExhausted
<1>17. ASSUME NEW class \in StepPauses, StepPausesRun(class) PROVE TypeInv'
  <2>1. CloseStep(session, "failed") \in Rows
    BY <1>a, <1>17, CloseStepRow DEF StepPausesRun
  <2>2. class \in PauseClass
    BY DEF StepPauses, PauseClass
  <2>3. Pause(CloseStep(session, "failed"), class) \in Rows
    BY <2>1, <2>2, PauseRow
  <2>4. "agent" \in Causes
    BY DEF Causes
  <2> QED
    BY <1>17, <2>3, <2>4 DEF StepPausesRun, loop
<1>18. CASE StepFailsRun
  <2>1. CloseStep(session, "failed") \in Rows
    BY <1>a, <1>18, CloseStepRow DEF StepFailsRun
  <2>2. Finish(CloseStep(session, "failed"), "failed") \in Rows
    BY <1>a, <2>1, FinishRow
  <2> QED
    BY <1>18, <2>2 DEF StepFailsRun, loop
<1>19. CASE FinishRun
  <2>1. [session EXCEPT !.status = "succeeded", !.closed = "all_steps"] \in Rows
    BY <1>a DEF Rows
  <2> QED
    BY <1>19, <2>1 DEF FinishRun, loop
<1>20. CASE AutoRecover
  <2>1. Finish(session, "running") \in Rows
    BY <1>a, FinishRow
  <2>2. budget \in Nat /\ attempts \in Nat
    OBVIOUS
  <2>3. UpgradedBudget(budget, attempts) \in 0..ReplanCap
    BY <2>2, UpgradedBudgetRange
  <2>4. attempts + 1 \in 0..MaxAutoRecoveries
    BY <1>20, <2>2 DEF AutoRecover, MayAutoRecover
  <2> QED
    BY <1>20, <2>1, <2>3, <2>4, BeginningTypes DEF AutoRecover
<1>21. CASE DriverCommits
  BY <1>21, LeavingTypes DEF DriverCommits
<1>22. CASE WorkerRaises
  <2>1. Finish(durable, "failed") \in Rows
    BY <1>a, FinishRow
  <2> QED
    BY <1>22, <2>1, LeavingTypes DEF WorkerRaises
<1>23. CASE RequestRaises
  BY <1>23, LeavingTypes DEF RequestRaises
<1>24. CASE Crash
  BY <1>24, LeavingTypes DEF Crash
<1>25. CASE UNCHANGED vars
  BY <1>25 DEF vars, rows, control, loop
<1> QED
  BY <1>1, <1>2, <1>3, <1>4, <1>5, <1>6, <1>7, <1>8, <1>9, <1>10, <1>11, <1>12,
     <1>13, <1>14, <1>15, <1>16, <1>17, <1>18, <1>19, <1>20, <1>21, <1>22, <1>23,
     <1>24, <1>25
  DEF Next, Driver, Planner, Step, Human, Failure

(* The variables of a run keep their types, whatever is planned, paused,   *)
(* recovered or lost.                                                      *)
THEOREM TypeCorrect == Spec => []TypeOK
<1>1. Spec => []TypeInv
  BY TypeInit, TypeStep, PTL DEF Spec
<1>2. TypeInv => TypeOK
  BY DEF TypeInv
<1> QED
  BY <1>1, <1>2, PTL

-----------------------------------------------------------------------------
(* What the driver's position says of the committed and the pending rows.  *)

ControlInv ==
  /\ pc = "idle" => session = durable
  /\ pc = "starting" =>
       driver = "worker" /\ session = durable /\ durable.status = "queued"
  /\ pc \in {"planning", "proposed", "stepping", "executing"} =>
       session.status = "running"
  /\ pc = "returned" =>
       session.status \in {"waiting_user", "succeeded", "failed"}
  /\ pc \in {"planning", "proposed", "returned"} =>
       durable.status \in {"running", "waiting_user"}
  /\ pc \in {"stepping", "executing"} => durable.status = "running"
  /\ pc = "returned" /\ session.status = "succeeded" =>
       durable.status = "running"
  /\ CommittedPauseIsQuiet

(* Only an accepted plan is new to the rows.                               *)
LEMMA PlansStep ==
  TypeInv /\ [Next]_vars =>
    \/ AcceptPlan
    \/ /\ session'.plans \in {session.plans, durable.plans}
       /\ durable'.plans \in {session.plans, durable.plans}
<1> SUFFICES ASSUME TypeInv, [Next]_vars, ~ AcceptPlan
             PROVE  /\ session'.plans \in {session.plans, durable.plans}
                    /\ durable'.plans \in {session.plans, durable.plans}
  OBVIOUS
<1> USE DEF TypeInv
<1>a. session \in Rows /\ durable \in Rows
  BY DEF TypeOK
<1>b. \A s \in RunStatus : /\ Finish(session, s).plans = session.plans
                           /\ Finish(durable, s).plans = durable.plans
  BY <1>a, FinishRow
<1>c. {"running", "waiting_user", "failed"} \subseteq RunStatus
  BY DEF RunStatus
<1>d. {"succeeded", "failed", "skipped"} \subseteq StepStatus
  BY DEF StepStatus
<1>e. pc = "executing" =>
        \A s \in StepStatus : /\ CloseStep(session, s) \in Rows
                              /\ CloseStep(session, s).plans = session.plans
  BY <1>a, CloseStepRow
<1>1. CASE WorkerTakesRun \/ RunStarted \/ ResumeRun \/ RecoverRun
  BY <1>1, <1>b, <1>c DEF WorkerTakesRun, RunStarted, ResumeRun, RecoverRun
<1>2. CASE Planner
  <2>1. CASE PlannerTurn
    BY <2>1 DEF PlannerTurn
  <2>2. ASSUME NEW p \in Plans, PlannerProposes(p) \/ PlannerFallsBack(p)
        PROVE  /\ session'.plans = session.plans
               /\ durable'.plans \in {session.plans, durable.plans}
    BY <2>2 DEF PlannerProposes, PlannerFallsBack, rows
  <2>3. ASSUME NEW class \in PlannerPauses, PlannerAsksUser(class)
        PROVE  session'.plans = session.plans /\ durable' = durable
    <3>1. class \in PauseClass
      BY DEF PlannerPauses, PauseClass
    <3> QED
      BY <2>3, <3>1, <1>a, PauseRow DEF PlannerAsksUser
  <2>4. CASE PlannerFails
    BY <2>4, <1>b, <1>c DEF PlannerFails
  <2> QED
    BY <1>2, <2>1, <2>2, <2>3, <2>4 DEF Planner
<1>3. CASE GuardPauses
  BY <1>3, <1>b, <1>c DEF GuardPauses
<1>4. CASE Step
  <2>1. CASE BeginStep
    BY <2>1, <1>a DEF BeginStep, Rows
  <2>2. CASE StepSucceeds
    BY <2>2, <1>d, <1>e DEF StepSucceeds
  <2>3. CASE StepProvesZeroMatch
    <3>1. /\ CloseStep(session, "succeeded") \in Rows
          /\ CloseStep(session, "succeeded").plans = session.plans
      BY <2>3, <1>d, <1>e DEF StepProvesZeroMatch
    <3> QED
      BY <2>3, <3>1 DEF StepProvesZeroMatch, Rows
  <2>4. ASSUME NEW reason \in ReplanReason,
               StepReplans(reason) \/ ReplanBudgetExhausted(reason)
        PROVE  session'.plans = session.plans /\ durable' = durable
    <3>1. /\ CloseStep(session, "skipped") \in Rows
          /\ CloseStep(session, "skipped").plans = session.plans
      BY <2>4, <1>d, <1>e DEF StepReplans, ReplanBudgetExhausted
    <3>2. /\ Pause(CloseStep(session, "skipped"), "hard_stop").plans
               = session.plans
          /\ Grant(CloseStep(session, "skipped")).plans = session.plans
      BY <3>1, PauseRow, GrantRow DEF PauseClass
    <3> QED
      BY <2>4, <3>1, <3>2 DEF StepReplans, ReplanBudgetExhausted
  <2>5. ASSUME NEW class \in StepPauses, StepPausesRun(class)
        PROVE  session'.plans = session.plans /\ durable' = durable
    <3>1. /\ CloseStep(session, "failed") \in Rows
          /\ CloseStep(session, "failed").plans = session.plans
      BY <2>5, <1>d, <1>e DEF StepPausesRun
    <3>2. class \in PauseClass
      BY DEF StepPauses, PauseClass
    <3> QED
      BY <2>5, <3>1, <3>2, PauseRow DEF StepPausesRun
  <2>6. CASE StepFailsRun
    <3>1. /\ CloseStep(session, "failed") \in Rows
          /\ CloseStep(session, "failed").plans = session.plans
      BY <2>6, <1>d, <1>e DEF StepFailsRun
    <3> QED
      BY <2>6, <3>1, <1>c, FinishRow DEF StepFailsRun
  <2> QED
    BY <1>4, <2>1, <2>2, <2>3, <2>4, <2>5, <2>6 DEF Step
<1>5. CASE FinishRun
  BY <1>5, <1>a DEF FinishRun, Rows
<1>6. CASE AutoRecover
  BY <1>6, <1>b, <1>c DEF AutoRecover
<1>7. CASE DriverCommits \/ RequestRaises \/ Crash
  BY <1>7 DEF DriverCommits, RequestRaises, Crash
<1>8. CASE WorkerRaises
  BY <1>8, <1>b, <1>c DEF WorkerRaises
<1>9. CASE UNCHANGED vars
  BY <1>9 DEF vars, rows
<1> QED
  BY <1>1, <1>2, <1>3, <1>4, <1>5, <1>6, <1>7, <1>8, <1>9
  DEF Next, Driver, Human, Failure

LEMMA ControlInit == Init => ControlInv
  BY DEF Init, ControlInv, CommittedPauseIsQuiet, QueuedRow

(* The position of the driver keeps telling which statuses are possible.   *)
LEMMA ControlStep == TypeInv /\ ControlInv /\ [Next]_vars => ControlInv'
<1> SUFFICES ASSUME TypeInv, ControlInv, [Next]_vars PROVE ControlInv'
  OBVIOUS
<1> USE DEF ControlInv, CommittedPauseIsQuiet
<1>a. session \in Rows /\ durable \in Rows
  BY DEF TypeInv, TypeOK
<1>b. \A s \in RunStatus : /\ Finish(session, s).status = s
                           /\ Finish(session, s).plans = session.plans
                           /\ Finish(durable, s).status = s
                           /\ Finish(durable, s).plans = durable.plans
  BY <1>a, FinishRow
<1>c. {"running", "waiting_user", "failed"} \subseteq RunStatus
  BY DEF RunStatus
<1>d. {"succeeded", "failed", "skipped"} \subseteq StepStatus
  BY DEF StepStatus
<1>e. pc = "executing" =>
        \A s \in StepStatus : /\ CloseStep(session, s) \in Rows
                              /\ CloseStep(session, s).status = session.status
  BY <1>a, CloseStepRow DEF TypeInv
<1>1. CASE WorkerTakesRun
  BY <1>1 DEF WorkerTakesRun
<1>2. CASE RunStarted
  BY <1>2, <1>b, <1>c DEF RunStarted, BeginPass
<1>3. CASE ResumeRun
  BY <1>3, <1>b, <1>c DEF ResumeRun, BeginPass
<1>4. CASE RecoverRun
  BY <1>4 DEF RecoverRun, BeginPass
<1>5. CASE PlannerTurn
  BY <1>5 DEF PlannerTurn, control
<1>6. ASSUME NEW p \in Plans, PlannerProposes(p) PROVE ControlInv'
  BY <1>6 DEF PlannerProposes
<1>7. ASSUME NEW p \in Plans, PlannerFallsBack(p) PROVE ControlInv'
  BY <1>7 DEF PlannerFallsBack, rows
<1>8. ASSUME NEW class \in PlannerPauses, PlannerAsksUser(class)
      PROVE  ControlInv'
  <2>1. class \in PauseClass
    BY DEF PlannerPauses, PauseClass
  <2>2. /\ Pause(session, class).status = "waiting_user"
        /\ Pause(session, class).plans = session.plans
    BY <2>1, <1>a, PauseRow
  <2> QED
    BY <1>8, <2>2 DEF PlannerAsksUser
<1>9. CASE PlannerFails
  BY <1>9, <1>b, <1>c DEF PlannerFails
<1>10. CASE GuardPauses
  BY <1>10, <1>b, <1>c DEF GuardPauses
<1>11. CASE AcceptPlan
  <2>1. session'.status = session.status
    BY <1>11, <1>a DEF AcceptPlan, Rows
  <2> QED
    BY <1>11, <2>1 DEF AcceptPlan
<1>12. CASE BeginStep
  <2>1. session'.status = session.status
    BY <1>12, <1>a DEF BeginStep, Rows
  <2> QED
    BY <1>12, <2>1 DEF BeginStep
<1>13. CASE StepSucceeds
  BY <1>13, <1>d, <1>e DEF StepSucceeds
<1>14. CASE StepProvesZeroMatch
  <2>1. CloseStep(session, "succeeded") \in Rows
    BY <1>14, <1>d, <1>e DEF StepProvesZeroMatch
  <2>2. session'.status = "succeeded"
    BY <1>14, <2>1 DEF StepProvesZeroMatch, Rows
  <2> QED
    BY <1>14, <2>2 DEF StepProvesZeroMatch
<1>15. ASSUME NEW reason \in ReplanReason, StepReplans(reason)
       PROVE  ControlInv'
  <2>1. Grant(CloseStep(session, "skipped")).status = session.status
    BY <1>15, <1>d, <1>e, GrantRow DEF StepReplans
  <2> QED
    BY <1>15, <2>1 DEF StepReplans
<1>16. ASSUME NEW reason \in ReplanReason, ReplanBudgetExhausted(reason)
       PROVE  ControlInv'
  <2>1. CloseStep(session, "skipped") \in Rows
    BY <1>16, <1>d, <1>e DEF ReplanBudgetExhausted
  <2>2. Pause(CloseStep(session, "skipped"), "hard_stop").status
          = "waiting_user"
    BY <2>1, PauseRow DEF PauseClass
  <2> QED
    BY <1>16, <2>2 DEF ReplanBudgetExhausted
<1>17. ASSUME NEW class \in StepPauses, StepPausesRun(class) PROVE ControlInv'
  <2>1. CloseStep(session, "failed") \in Rows
    BY <1>17, <1>d, <1>e DEF StepPausesRun
  <2>2. class \in PauseClass
    BY DEF StepPauses, PauseClass
  <2>3. Pause(CloseStep(session, "failed"), class).status = "waiting_user"
    BY <2>1, <2>2, PauseRow
  <2> QED
    BY <1>17, <2>3 DEF StepPausesRun
<1>18. CASE StepFailsRun
  <2>1. CloseStep(session, "failed") \in Rows
    BY <1>18, <1>d, <1>e DEF StepFailsRun
  <2>2. Finish(CloseStep(session, "failed"), "failed").status = "failed"
    BY <2>1, <1>c, FinishRow
  <2> QED
    BY <1>18, <2>2 DEF StepFailsRun
<1>19. CASE FinishRun
  <2>1. session'.status = "succeeded"
    BY <1>19, <1>a DEF FinishRun, Rows
  <2> QED
    BY <1>19, <2>1 DEF FinishRun
<1>20. CASE AutoRecover
  BY <1>20, <1>b, <1>c DEF AutoRecover, BeginPass
<1>21. CASE DriverCommits
  BY <1>21 DEF DriverCommits, DriverLeaves
<1>22. CASE WorkerRaises
  BY <1>22, <1>b, <1>c DEF WorkerRaises, DriverLeaves
<1>23. CASE RequestRaises
  BY <1>23 DEF RequestRaises, DriverLeaves
<1>24. CASE Crash
  BY <1>24 DEF Crash, DriverLeaves
<1>25. CASE UNCHANGED vars
  BY <1>25 DEF vars, rows, control
<1> QED
  BY <1>1, <1>2, <1>3, <1>4, <1>5, <1>6, <1>7, <1>8, <1>9, <1>10, <1>11, <1>12,
     <1>13, <1>14, <1>15, <1>16, <1>17, <1>18, <1>19, <1>20, <1>21, <1>22, <1>23,
     <1>24, <1>25
  DEF Next, Driver, Planner, Step, Human, Failure

LEMMA ControlAlways == Spec => [](TypeInv /\ ControlInv)
  BY TypeInit, TypeStep, ControlInit, ControlStep, PTL DEF Spec

(* Nobody works behind a committed pause except the resume that answers it *)
(* and has committed nothing: automatic recovery happens before the pause  *)
(* is ever visible.                                                        *)
THEOREM CommittedPauseQuiet == Spec => []CommittedPauseIsQuiet
<1>1. ControlInv => CommittedPauseIsQuiet
  BY DEF ControlInv
<1> QED
  BY <1>1, ControlAlways, PTL

-----------------------------------------------------------------------------
(* The duplicate guard.                                                    *)

DuplicateInv == AtMostTwice(session.plans) /\ AtMostTwice(durable.plans)

(* Accepting a plan that was accepted at most once before.                 *)
LEMMA AppendAtMostTwice ==
  ASSUME NEW plans \in Seq(Plans), NEW p \in Plans,
         AtMostTwice(plans), ~ AcceptedTwice(plans, p)
  PROVE  AtMostTwice(Append(plans, p))
<1> DEFINE longer == Append(plans, p)
<1>1. /\ Len(plans) \in Nat
      /\ DOMAIN plans = 1..Len(plans)
      /\ DOMAIN longer = 1..Len(plans) + 1
      /\ \A i \in 1..Len(plans) : longer[i] = plans[i]
      /\ longer[Len(plans) + 1] = p
  BY AppendProperties
<1> SUFFICES ASSUME NEW i \in DOMAIN longer, NEW j \in DOMAIN longer,
                    NEW k \in DOMAIN longer, i < j, j < k,
                    longer[i] = longer[j], longer[j] = longer[k]
             PROVE  FALSE
  BY DEF AtMostTwice
<1> HIDE DEF longer
<1>2. i \in 1..Len(plans) /\ j \in 1..Len(plans)
  BY <1>1
<1>3. CASE k = Len(plans) + 1
  BY <1>1, <1>2, <1>3 DEF AcceptedTwice
<1>4. CASE k # Len(plans) + 1
  <2>1. k \in 1..Len(plans)
    BY <1>1, <1>4
  <2> QED
    BY <1>1, <1>2, <2>1 DEF AtMostTwice
<1> QED
  BY <1>3, <1>4

LEMMA DuplicateStep ==
  TypeInv /\ DuplicateInv /\ [Next]_vars => DuplicateInv'
<1> SUFFICES ASSUME TypeInv, DuplicateInv, [Next]_vars PROVE DuplicateInv'
  OBVIOUS
<1>1. CASE AcceptPlan
  <2>1. session \in Rows /\ session.plans \in Seq(Plans) /\ proposal \in Plans
    BY <1>1 DEF TypeInv, TypeOK, AcceptPlan, Rows
  <2>2. ~ AcceptedTwice(session.plans, proposal)
    BY <1>1 DEF AcceptPlan, DuplicatePlan
  <2>3. AtMostTwice(Append(session.plans, proposal))
    BY <2>1, <2>2, AppendAtMostTwice DEF DuplicateInv
  <2>4. /\ session'.plans = Append(session.plans, proposal)
        /\ durable' = session'
    BY <1>1, <2>1 DEF AcceptPlan, Rows
  <2> QED
    BY <2>3, <2>4 DEF DuplicateInv
<1>2. CASE ~ AcceptPlan
  <2>1. /\ session'.plans \in {session.plans, durable.plans}
        /\ durable'.plans \in {session.plans, durable.plans}
    BY <1>2, PlansStep
  <2> QED
    BY <2>1 DEF DuplicateInv
<1> QED
  BY <1>1, <1>2

(* No plan is accepted a third time, over all passes of a run, however     *)
(* many there are and whatever interrupts them.                            *)
THEOREM PlanNeverThrice == Spec => []NoPlanAcceptedThrice
<1>1. Init => DuplicateInv
  BY DEF Init, QueuedRow, DuplicateInv, AtMostTwice
<1>2. Spec => [](TypeInv /\ DuplicateInv)
  BY <1>1, TypeInit, TypeStep, DuplicateStep, PTL DEF Spec
<1>3. DuplicateInv => NoPlanAcceptedThrice
  BY DEF DuplicateInv, NoPlanAcceptedThrice
<1> QED
  BY <1>2, <1>3, PTL

-----------------------------------------------------------------------------
(* The number of plans.                                                    *)

(* A pass starts with the plans of the earlier passes already counted as   *)
(* replans, so that it can add to them one plan for free and one for every *)
(* replan its budget grants.                                               *)
BoundInv ==
  /\ passes = 0 => session.plans = <<>> /\ durable.plans = <<>>
  /\ Len(session.plans) <= ReplanCap + passes
  /\ Len(durable.plans) <= ReplanCap + passes
  /\ pc \in {"planning", "proposed"} =>
       /\ passes >= 1
       /\ Len(session.plans) <= replans + 1
       /\ passes = 1 => Len(session.plans) <= replans
       /\ Len(session.plans) + 1 <= ReplanCap + passes
  /\ pc \in {"stepping", "executing"} =>
       /\ passes >= 1
       /\ Len(session.plans) <= replans + 2
       /\ passes = 1 => Len(session.plans) <= replans + 1

LEMMA BoundInit == Init => BoundInv
  BY DEF Init, BoundInv, QueuedRow

(* A pass that begins over a row counts the plans it finds.                *)
LEMMA BoundOnEntry ==
  ASSUME TypeInv, BoundInv, NEW row \in {session, durable},
         NEW taskBudget, NEW used, BeginPass(row, taskBudget, used),
         session'.plans = row.plans,
         durable'.plans \in {session.plans, durable.plans}
  PROVE  BoundInv'
<1>1. /\ session.plans \in Seq(Plans) /\ durable.plans \in Seq(Plans)
      /\ passes \in Nat /\ passes' = passes + 1
      /\ pc' = "planning" /\ replans' = ReplansOnEntry(row)
  BY DEF TypeInv, TypeOK, Rows, BeginPass
<1>2. /\ row.plans \in Seq(Plans)
      /\ Len(row.plans) <= ReplanCap + passes
      /\ passes = 0 => row.plans = <<>>
  BY <1>1 DEF BoundInv
<1>3. /\ replans' \in Nat
      /\ Len(row.plans) <= replans' + 1
      /\ row.plans = <<>> => replans' = 0 /\ Len(row.plans) = 0
  BY <1>1, <1>2 DEF ReplansOnEntry
<1>4. /\ durable'.plans \in Seq(Plans)
      /\ Len(durable'.plans) <= ReplanCap + passes
  BY <1>1 DEF BoundInv
<1>5. PICK found \in Nat : Len(row.plans) = found
  BY <1>2
<1>6. PICK stored \in Nat : Len(durable'.plans) = stored
  BY <1>4
<1>7. /\ found <= ReplanCap + passes' /\ stored <= ReplanCap + passes'
      /\ found + 1 <= ReplanCap + passes'
      /\ passes' >= 1 /\ passes' # 0
  BY <1>1, <1>2, <1>4, <1>5, <1>6, BudgetAssumption
<1>8. found <= replans' + 1 /\ (passes' = 1 => found <= replans')
  <2>1. passes' = 1 => passes = 0
    BY <1>1
  <2> QED
    BY <2>1, <1>2, <1>3, <1>5
<1> QED
  BY <1>1, <1>5, <1>6, <1>7, <1>8 DEF BoundInv

LEMMA BoundStep == TypeInv /\ BoundInv /\ [Next]_vars => BoundInv'
<1> SUFFICES ASSUME TypeInv, BoundInv, [Next]_vars PROVE BoundInv'
  OBVIOUS
<1>a. /\ session \in Rows /\ durable \in Rows
      /\ session.plans \in Seq(Plans) /\ durable.plans \in Seq(Plans)
      /\ passes \in Nat /\ replans \in Nat /\ budget \in 0..ReplanCap
  BY DEF TypeInv, TypeOK, Rows
<1>b. "running" \in RunStatus
  BY DEF RunStatus
<1>1. CASE AcceptPlan
  <2>1. proposal \in Plans /\ pc = "proposed" /\ pc' = "stepping"
    BY <1>1 DEF TypeInv, AcceptPlan
  <2>2. /\ session'.plans = Append(session.plans, proposal)
        /\ durable' = session'
        /\ passes' = passes /\ replans' = replans
    BY <1>1, <1>a DEF AcceptPlan, Rows
  <2>3. Len(session'.plans) = Len(session.plans) + 1
    BY <1>a, <2>1, <2>2, AppendProperties
  <2> QED
    BY <1>a, <2>1, <2>2, <2>3 DEF BoundInv
<1>2. CASE RunStarted
  <2>1. session'.plans = session.plans /\ durable' = session'
    BY <1>2, <1>a, <1>b, FinishRow DEF RunStarted
  <2> QED
    BY <1>2, <2>1, BoundOnEntry DEF RunStarted
<1>3. CASE ResumeRun
  <2>1. session'.plans = durable.plans
    BY <1>3, <1>a, <1>b, FinishRow DEF ResumeRun
  <2> QED
    BY <1>3, <2>1, BoundOnEntry DEF ResumeRun
<1>4. CASE RecoverRun
  BY <1>4, BoundOnEntry DEF RecoverRun
<1>5. CASE AutoRecover
  <2>1. session'.plans = session.plans
    BY <1>5, <1>a, <1>b, FinishRow DEF AutoRecover
  <2> QED
    BY <1>5, <2>1, BoundOnEntry DEF AutoRecover
<1>6. ASSUME NEW reason \in ReplanReason, StepReplans(reason) PROVE BoundInv'
  <2>1. /\ session'.plans = session.plans /\ durable' = durable
    BY <1>6, <1>a, CloseStepRow, GrantRow DEF StepReplans, TypeInv, StepStatus
  <2>2. /\ pc = "executing" /\ pc' = "planning"
        /\ replans' = replans + 1 /\ replans + 1 <= budget
        /\ passes' = passes
    BY <1>6 DEF StepReplans
  <2> QED
    BY <1>a, <2>1, <2>2 DEF BoundInv
<1>7. ASSUME ~ AcceptPlan, passes' = passes,
             \/ pc' \in {"idle", "starting", "returned"}
             \/ /\ replans' = replans
                /\ session'.plans = session.plans
                /\ pc' \in {"planning", "proposed"} =>
                     pc \in {"planning", "proposed"}
                /\ pc' \in {"stepping", "executing"} =>
                     pc \in {"stepping", "executing"}
      PROVE  BoundInv'
  <2>1. /\ session'.plans \in {session.plans, durable.plans}
        /\ durable'.plans \in {session.plans, durable.plans}
    BY <1>7, PlansStep
  <2> QED
    BY <1>7, <2>1 DEF BoundInv
<1>8. CASE WorkerTakesRun \/ FinishRun
  <2>1. ~ AcceptPlan
    BY <1>8 DEF WorkerTakesRun, FinishRun, AcceptPlan
  <2> QED
    BY <1>8, <1>7, <2>1 DEF WorkerTakesRun, FinishRun
<1>9. CASE Planner
  <2>1. ~ AcceptPlan
    BY <1>9 DEF Planner, PlannerTurn, PlannerProposes, PlannerFallsBack,
                PlannerAsksUser, PlannerFails, AcceptPlan
  <2> QED
    BY <1>9, <1>7, <2>1
    DEF Planner, PlannerTurn, PlannerProposes, PlannerFallsBack,
        PlannerAsksUser, PlannerFails, rows, control, loop
<1>10. CASE GuardPauses
  BY <1>10, <1>7 DEF GuardPauses, AcceptPlan
<1>11. CASE BeginStep \/ StepSucceeds
  <2>1. session'.plans = session.plans
    <3>1. CASE BeginStep
      BY <3>1, <1>a DEF BeginStep, Rows
    <3>2. CASE StepSucceeds
      BY <3>2, <1>a, CloseStepRow DEF StepSucceeds, TypeInv, StepStatus
    <3> QED
      BY <1>11, <3>1, <3>2
  <2>2. ~ AcceptPlan
    BY <1>11 DEF BeginStep, StepSucceeds, AcceptPlan
  <2> QED
    BY <1>11, <1>7, <2>1, <2>2 DEF BeginStep, StepSucceeds, loop
<1>12. CASE \/ StepProvesZeroMatch \/ StepFailsRun
            \/ \E reason \in ReplanReason : ReplanBudgetExhausted(reason)
            \/ \E class \in StepPauses : StepPausesRun(class)
  <2>1. pc = "executing" /\ pc' = "returned" /\ passes' = passes
    BY <1>12 DEF StepProvesZeroMatch, StepFailsRun, ReplanBudgetExhausted,
                 StepPausesRun
  <2> QED
    BY <1>7, <2>1 DEF AcceptPlan
<1>13. CASE DriverCommits \/ WorkerRaises \/ RequestRaises \/ Crash
  BY <1>13, <1>7 DEF DriverCommits, WorkerRaises, RequestRaises, Crash,
                     DriverLeaves, AcceptPlan
<1>14. CASE UNCHANGED vars
  BY <1>14 DEF vars, rows, control, loop, BoundInv
<1> QED
  BY <1>1, <1>2, <1>3, <1>4, <1>5, <1>6, <1>8, <1>9, <1>10, <1>11, <1>12, <1>13,
     <1>14
  DEF Next, Driver, Step, Human, Failure

(* Spent replans stay spent: however often the run is interrupted, each    *)
(* pass adds at most one plan to what the largest replan budget allows.    *)
THEOREM PlansBounded == Spec => []PlansBoundedByPasses
<1>1. Spec => [](TypeInv /\ BoundInv)
  BY TypeInit, TypeStep, BoundInit, BoundStep, PTL DEF Spec
<1>2. BoundInv => PlansBoundedByPasses
  BY DEF BoundInv, PlansBoundedByPasses
<1> QED
  BY <1>1, <1>2, PTL

-----------------------------------------------------------------------------
(* Success.                                                                *)

(* While a plan is executed every closed step succeeded: a step that does  *)
(* not succeed leaves the plan.                                            *)
CoverInv ==
  /\ Covered(session) /\ Covered(durable)
  /\ pc \in {"stepping", "executing"} =>
       /\ session.plans # <<>>
       /\ Len(session.steps) <= StepCount[LatestPlan(session)]
  /\ pc = "stepping" =>
       \A i \in 1..Len(session.steps) : session.steps[i] = "succeeded"
  /\ pc = "executing" =>
       /\ session.steps # <<>>
       /\ \A i \in 1..Len(session.steps) - 1 : session.steps[i] = "succeeded"

LEMMA CoverInit == Init => CoverInv
  BY DEF Init, QueuedRow, CoverInv, Covered

(* Steps that leave both rows as they are, or throw the pending one away,  *)
(* or end in a status other than succeeded outside the execution of a plan.*)
LEMMA CoverKept ==
  ASSUME CoverInv,
         session' \in {session, durable} \/ session'.status # "succeeded",
         durable' \in {session, durable} \/ durable'.status # "succeeded",
         pc' \notin {"stepping", "executing"}
  PROVE  CoverInv'
  BY DEF CoverInv, Covered

LEMMA CoverStep ==
  TypeInv /\ ControlInv /\ CoverInv /\ [Next]_vars => CoverInv'
<1> SUFFICES ASSUME TypeInv, ControlInv, CoverInv, [Next]_vars
             PROVE  CoverInv'
  OBVIOUS
<1>a. /\ session \in Rows /\ durable \in Rows
      /\ session.plans \in Seq(Plans) /\ session.steps \in Seq(StepStatus)
  BY DEF TypeInv, TypeOK, Rows
<1>b. /\ \A s \in RunStatus : /\ Finish(session, s).status = s
                              /\ Finish(durable, s).status = s
      /\ {"running", "waiting_user", "failed"} \subseteq RunStatus
  BY <1>a, FinishRow DEF RunStatus
<1>c. {"succeeded", "failed", "skipped"} \subseteq StepStatus
  BY DEF StepStatus
<1>d. TypeInv' /\ ControlInv'
  BY TypeStep, ControlStep
<1>1. CASE WorkerTakesRun \/ RunStarted \/ ResumeRun \/ RecoverRun
  BY <1>1, <1>b, CoverKept
  DEF WorkerTakesRun, RunStarted, ResumeRun, RecoverRun, BeginPass
<1>2. CASE Planner
  <2>1. CASE PlannerTurn
    BY <2>1, CoverKept DEF PlannerTurn, control
  <2>2. ASSUME NEW p \in Plans, PlannerProposes(p) \/ PlannerFallsBack(p)
        PROVE  CoverInv'
    BY <2>2, CoverKept DEF PlannerProposes, PlannerFallsBack, rows
  <2>3. ASSUME NEW class \in PlannerPauses, PlannerAsksUser(class)
        PROVE  CoverInv'
    <3>1. session'.status = "waiting_user"
      BY <2>3, <1>a, PauseRow DEF PlannerAsksUser, PlannerPauses, PauseClass
    <3> QED
      BY <2>3, <3>1, CoverKept DEF PlannerAsksUser
  <2>4. CASE PlannerFails
    BY <2>4, <1>b, CoverKept DEF PlannerFails
  <2> QED
    BY <1>2, <2>1, <2>2, <2>3, <2>4 DEF Planner
<1>3. CASE GuardPauses
  BY <1>3, <1>b, CoverKept DEF GuardPauses
<1>4. CASE AcceptPlan
  <2>1. /\ session'.plans # <<>> /\ session'.steps = <<>>
        /\ session'.status = "running"
        /\ session'.plans \in Seq(Plans)
        /\ durable' = session' /\ pc' = "stepping"
    BY <1>4, <1>a, <1>d DEF AcceptPlan, ControlInv, TypeInv, TypeOK, Rows
  <2>2. StepCount[LatestPlan(session')] \in Nat
    BY <2>1 DEF LatestPlan
  <2> QED
    BY <2>1, <2>2 DEF CoverInv, Covered, LatestPlan
<1>5. CASE BeginStep
  <2>1. /\ session'.steps = Append(session.steps, "planned")
        /\ session'.plans = session.plans
        /\ session'.status = session.status
        /\ durable' = session' /\ pc = "stepping" /\ pc' = "executing"
        /\ Len(session.steps) < StepCount[LatestPlan(session)]
    BY <1>5, <1>a DEF BeginStep, Rows
  <2>2. session.plans # <<>> /\ session.status = "running"
    BY <2>1 DEF CoverInv, ControlInv
  <2>3. StepCount[LatestPlan(session)] \in Nat
    BY <2>2, <1>a DEF LatestPlan
  <2>4. /\ Len(session'.steps) = Len(session.steps) + 1
        /\ \A i \in 1..Len(session.steps) : session'.steps[i] = session.steps[i]
        /\ session'.steps # <<>>
    <3>1. "planned" \in StepStatus
      BY DEF StepStatus
    <3>2. Append(session.steps, "planned") # <<>>
      BY <3>1, <1>a, AppendProperties
    <3> QED
      BY <3>1, <3>2, <2>1, <1>a, AppendProperties
  <2>5. LatestPlan(session') = LatestPlan(session)
    BY <2>1 DEF LatestPlan
  <2>6. Len(session.steps) \in Nat
    BY <1>a
  <2> QED
    BY <2>1, <2>2, <2>3, <2>4, <2>5, <2>6 DEF CoverInv, Covered, LatestPlan
<1>6. CASE StepSucceeds
  <2>1. pc = "executing" /\ session' = CloseStep(session, "succeeded")
    BY <1>6 DEF StepSucceeds
  <2>2. /\ session'.status = "running"
        /\ session'.plans = session.plans
        /\ Len(session'.steps) = Len(session.steps)
        /\ session'.steps[Len(session.steps)] = "succeeded"
        /\ \A i \in 1..Len(session.steps) - 1 :
             session'.steps[i] = session.steps[i]
    BY <2>1, <1>a, <1>c, CloseStepRow DEF ControlInv, CoverInv
  <2>3. \A i \in 1..Len(session'.steps) : session'.steps[i] = "succeeded"
    <3> SUFFICES ASSUME NEW i \in 1..Len(session'.steps)
                 PROVE  session'.steps[i] = "succeeded"
      OBVIOUS
    <3>1. CASE i = Len(session.steps)
      BY <3>1, <2>2
    <3>2. CASE i # Len(session.steps)
      <4>1. i \in 1..Len(session.steps) - 1
        BY <3>2, <2>2, <1>a
      <4> QED
        BY <4>1, <2>1, <2>2 DEF CoverInv
    <3> QED
      BY <3>1, <3>2
  <2> QED
    BY <1>6, <2>1, <2>2, <2>3 DEF StepSucceeds, CoverInv, Covered, LatestPlan
<1>7. CASE StepProvesZeroMatch
  <2> DEFINE row == CloseStep(session, "succeeded")
  <2>1. pc = "executing" /\ session.steps # <<>> /\ session.plans # <<>>
    BY <1>7 DEF StepProvesZeroMatch, CoverInv
  <2>2. /\ row \in Rows
        /\ row.plans = session.plans
        /\ row.steps # <<>>
        /\ Len(row.steps) = Len(session.steps)
        /\ row.steps[Len(session.steps)] = "succeeded"
        /\ \A i \in 1..Len(session.steps) - 1 : row.steps[i] = session.steps[i]
    BY <2>1, <1>a, <1>c, CloseStepRow
  <2>3. /\ session' = [row EXCEPT !.status = "succeeded",
                                  !.closed = "zero_match"]
        /\ durable' = durable /\ pc' = "returned"
    BY <1>7 DEF StepProvesZeroMatch
  <2> HIDE DEF row
  <2>4. /\ session'.plans = session.plans
        /\ session'.steps = row.steps
        /\ session'.closed = "zero_match"
    BY <2>2, <2>3 DEF Rows
  <2>5. row.steps \in Seq(StepStatus)
    BY <2>2 DEF Rows
  <2>6. \A i \in DOMAIN row.steps : row.steps[i] = "succeeded"
    <3> SUFFICES ASSUME NEW i \in DOMAIN row.steps
                 PROVE  row.steps[i] = "succeeded"
      OBVIOUS
    <3>0. i \in 1..Len(session.steps)
      BY <2>2, <2>5
    <3>1. CASE i = Len(session.steps)
      BY <3>1, <2>2
    <3>2. CASE i # Len(session.steps)
      <4>1. i \in 1..Len(session.steps) - 1
        BY <3>0, <3>2, <1>a
      <4> QED
        BY <4>1, <2>1, <2>2 DEF CoverInv
    <3> QED
      BY <3>1, <3>2
  <2> QED
    BY <2>1, <2>2, <2>3, <2>4, <2>6 DEF CoverInv, Covered
<1>8. ASSUME NEW reason \in ReplanReason,
             StepReplans(reason) \/ ReplanBudgetExhausted(reason)
      PROVE  CoverInv'
  <2>1. /\ durable' = durable
        /\ pc' \in {"planning", "returned"}
        /\ pc' = "returned" =>
             session' = Pause(CloseStep(session, "skipped"), "hard_stop")
    BY <1>8 DEF StepReplans, ReplanBudgetExhausted
  <2>2. CloseStep(session, "skipped") \in Rows
    BY <1>8, <1>a, <1>c, CloseStepRow
    DEF StepReplans, ReplanBudgetExhausted, CoverInv
  <2>3. session'.status # "succeeded"
    BY <2>1, <2>2, <1>d, PauseRow DEF ControlInv, PauseClass
  <2> QED
    BY <2>1, <2>3, CoverKept
<1>9. ASSUME NEW class \in StepPauses, StepPausesRun(class) PROVE CoverInv'
  <2>1. CloseStep(session, "failed") \in Rows /\ class \in PauseClass
    BY <1>9, <1>a, <1>c, CloseStepRow
    DEF StepPausesRun, CoverInv, StepPauses, PauseClass
  <2>2. session'.status = "waiting_user"
    BY <1>9, <2>1, PauseRow DEF StepPausesRun
  <2> QED
    BY <1>9, <2>2, CoverKept DEF StepPausesRun
<1>10. CASE StepFailsRun
  <2>1. CloseStep(session, "failed") \in Rows
    BY <1>10, <1>a, <1>c, CloseStepRow DEF StepFailsRun, CoverInv
  <2>2. session'.status = "failed"
    BY <1>10, <2>1, <1>b, FinishRow DEF StepFailsRun
  <2> QED
    BY <1>10, <2>2, CoverKept DEF StepFailsRun
<1>11. CASE FinishRun
  <2>1. /\ session'.plans = session.plans
        /\ session'.steps = session.steps
        /\ durable' = durable /\ pc = "stepping" /\ pc' = "returned"
        /\ Len(session.steps) = StepCount[LatestPlan(session)]
    BY <1>11, <1>a DEF FinishRun, Rows
  <2>2. session.plans # <<>>
    BY <2>1 DEF CoverInv
  <2>3. StepCount[LatestPlan(session)] \in Nat \ {0}
    BY <2>2, <1>a DEF LatestPlan
  <2>4. session.steps # <<>> /\ DOMAIN session.steps = 1..Len(session.steps)
    BY <2>1, <2>3, <1>a
  <2> QED
    BY <2>1, <2>2, <2>4 DEF CoverInv, Covered, LatestPlan
<1>12. CASE AutoRecover
  BY <1>12, <1>b, CoverKept DEF AutoRecover, BeginPass
<1>13. CASE DriverCommits \/ RequestRaises \/ Crash
  BY <1>13, CoverKept DEF DriverCommits, RequestRaises, Crash, DriverLeaves
<1>14. CASE WorkerRaises
  BY <1>14, <1>b, CoverKept DEF WorkerRaises, DriverLeaves
<1>15. CASE UNCHANGED vars
  BY <1>15 DEF vars, rows, control, CoverInv, Covered, LatestPlan
<1> QED
  BY <1>1, <1>2, <1>3, <1>4, <1>5, <1>6, <1>7, <1>8, <1>9, <1>10, <1>11, <1>12,
     <1>13, <1>14, <1>15
  DEF Next, Driver, Step, Human, Failure

(* A run that is committed as succeeded has a plan, and its step rows are  *)
(* complete and succeeded, or end with a proof that nothing matches.       *)
THEOREM SucceededCovered == Spec => []SucceededRunIsCovered
<1>1. Spec => [](TypeInv /\ ControlInv /\ CoverInv)
  BY TypeInit, TypeStep, ControlInit, ControlStep, CoverInit, CoverStep, PTL
  DEF Spec
<1>2. CoverInv => SucceededRunIsCovered
  BY DEF CoverInv, SucceededRunIsCovered
<1> QED
  BY <1>1, <1>2, PTL

-----------------------------------------------------------------------------
(* The lifecycle of the committed status.                                  *)

(* Every step of a driver is, for a reader of the committed row, a move of *)
(* the table of domain/agent_runtime.py, the abort of a run that never     *)
(* started, or nothing.                                                    *)
LEMMA LifecycleStep ==
  TypeInv /\ ControlInv /\ [Next]_vars =>
    [Lifecycle!Next]_(durable.status)
<1> SUFFICES ASSUME TypeInv, ControlInv, [Next]_vars,
                    durable'.status # durable.status
             PROVE  \/ /\ durable.status = "queued"
                       /\ durable'.status \in {"running", "failed"}
                    \/ /\ durable.status = "running"
                       /\ durable'.status \in
                            {"waiting_user", "succeeded", "failed"}
                    \/ /\ durable.status = "waiting_user"
                       /\ durable'.status \in {"running", "failed"}
  BY DEF Lifecycle!Next, Lifecycle!Transition, Lifecycle!AbortBeforeStart,
         Lifecycle!AllowedRunTransitions
<1> USE DEF ControlInv, CommittedPauseIsQuiet
<1>a. session \in Rows /\ durable \in Rows
  BY DEF TypeInv, TypeOK
<1>b. /\ Finish(session, "running").status = "running"
      /\ Finish(durable, "failed").status = "failed"
  BY <1>a, FinishRow DEF RunStatus
<1>1. CASE RunStarted
  BY <1>1, <1>b DEF RunStarted
<1>2. CASE PlannerTurn \/ \E p \in Plans : PlannerProposes(p)
  BY <1>2 DEF PlannerTurn, PlannerProposes
<1>3. CASE AcceptPlan
  <2>1. durable'.status = "running"
    BY <1>3, <1>a DEF AcceptPlan, Rows
  <2> QED
    BY <1>3, <2>1 DEF AcceptPlan
<1>4. CASE BeginStep
  <2>1. durable'.status = "running"
    BY <1>4, <1>a DEF BeginStep, Rows
  <2> QED
    BY <1>4, <2>1 DEF BeginStep
<1>5. CASE DriverCommits
  BY <1>5 DEF DriverCommits
<1>6. CASE WorkerRaises
  <2>1. /\ pc # "idle" /\ driver = "worker"
        /\ durable'.status = "failed"
    BY <1>6, <1>b DEF WorkerRaises
  <2>2. durable.status \in {"queued", "running"}
    BY <2>1 DEF TypeInv, TypeOK
  <2> QED
    BY <2>1, <2>2
<1>7. CASE \/ WorkerTakesRun \/ ResumeRun \/ RecoverRun \/ RequestRaises
           \/ Crash \/ AutoRecover \/ FinishRun \/ GuardPauses
           \/ PlannerFails \/ \E p \in Plans : PlannerFallsBack(p)
           \/ \E class \in PlannerPauses : PlannerAsksUser(class)
  BY <1>7 DEF WorkerTakesRun, ResumeRun, RecoverRun, RequestRaises, Crash,
              AutoRecover, FinishRun, GuardPauses, PlannerFails,
              PlannerFallsBack, PlannerAsksUser, rows
<1>8. CASE \/ StepSucceeds \/ StepProvesZeroMatch \/ StepFailsRun
           \/ \E reason \in ReplanReason :
                StepReplans(reason) \/ ReplanBudgetExhausted(reason)
           \/ \E class \in StepPauses : StepPausesRun(class)
  BY <1>8 DEF StepSucceeds, StepProvesZeroMatch, StepFailsRun, StepReplans,
              ReplanBudgetExhausted, StepPausesRun
<1>9. CASE UNCHANGED vars
  BY <1>9 DEF vars, rows
<1> QED
  BY <1>1, <1>2, <1>3, <1>4, <1>5, <1>6, <1>7, <1>8, <1>9
  DEF Next, Driver, Planner, Step, Human, Failure

(* The run as its readers see it implements the published lifecycle; in    *)
(* particular a succeeded or failed run never moves again.                 *)
THEOREM LifecycleRefined == Spec => LifecycleImplemented
<1>1. Init => Lifecycle!Init
  BY DEF Init, QueuedRow, Lifecycle!Init
<1> QED
  BY <1>1, ControlAlways, LifecycleStep, PTL
  DEF Spec, LifecycleImplemented, Lifecycle!Spec

-----------------------------------------------------------------------------
(* A pass comes to an end.                                                 *)

(* A driver is within a pass.                                              *)
InPass == pc \in {"planning", "proposed", "stepping", "executing", "returned"}

(* What is left of it, the most significant first: automatic recoveries,   *)
(* replans, stations before the pass returns, and moves of the plan that   *)
(* is being executed.  A pass over more plans than its budget allows has   *)
(* no replan left.                                                         *)
AttemptsLeft == MaxAutoRecoveries - attempts

ReplansLeft == IF replans <= budget THEN budget + 1 - replans ELSE 0

StationsLeft ==
  CASE pc = "planning" /\ durable # session -> 5
    [] pc = "planning" /\ durable = session -> 4
    [] pc = "proposed" -> 3
    [] pc \in {"stepping", "executing"} -> 2
    [] OTHER -> 1

MovesLeft ==
  CASE pc = "stepping" ->
         2 * (StepCount[LatestPlan(session)] - Len(session.steps))
    [] pc = "executing" ->
         2 * (StepCount[LatestPlan(session)] - Len(session.steps)) + 1
    [] OTHER -> 0

LeftIsFinite ==
  InPass => /\ AttemptsLeft \in Nat /\ ReplansLeft \in Nat
            /\ StationsLeft \in Nat /\ MovesLeft \in Nat

LessLeft ==
  \/ AttemptsLeft' < AttemptsLeft
  \/ /\ AttemptsLeft' = AttemptsLeft
     /\ \/ ReplansLeft' < ReplansLeft
        \/ /\ ReplansLeft' = ReplansLeft
           /\ \/ StationsLeft' < StationsLeft
              \/ StationsLeft' = StationsLeft /\ MovesLeft' < MovesLeft

(* Whatever a driver does within a pass leaves less of it, or ends it.     *)
PassDescends == [][InPass /\ pc' # "idle" => LessLeft]_vars

LEMMA LeftNat == TypeInv /\ CoverInv => LeftIsFinite
<1> SUFFICES ASSUME TypeInv, CoverInv, InPass
             PROVE  /\ AttemptsLeft \in Nat /\ ReplansLeft \in Nat
                    /\ StationsLeft \in Nat /\ MovesLeft \in Nat
  BY DEF LeftIsFinite
<1>1. AttemptsLeft \in Nat
  BY DEF TypeInv, TypeOK, AttemptsLeft
<1>2. ReplansLeft \in Nat
  BY DEF TypeInv, TypeOK, ReplansLeft
<1>3. StationsLeft \in Nat
  BY DEF StationsLeft
<1>4. MovesLeft \in Nat
  <2>1. CASE pc \in {"stepping", "executing"}
    <3>1. session.plans # <<>> /\ session.plans \in Seq(Plans) /\ session.steps \in Seq(StepStatus)
      BY <2>1 DEF TypeInv, TypeOK, Rows
    <3>2. LatestPlan(session) \in Plans
      BY <3>1 DEF LatestPlan
    <3>3. /\ StepCount[LatestPlan(session)] \in Nat /\ Len(session.steps) \in Nat
          /\ Len(session.steps) <= StepCount[LatestPlan(session)]
      BY <2>1, <3>1, <3>2 DEF CoverInv
    <3> DEFINE left == StepCount[LatestPlan(session)] - Len(session.steps)
    <3>4. left \in Nat
      BY <3>3
    <3>5. MovesLeft = 2 * left \/ MovesLeft = 2 * left + 1
      BY <2>1 DEF MovesLeft
    <3> HIDE DEF left
    <3> QED
      BY <3>4, <3>5
  <2>2. CASE pc \notin {"stepping", "executing"}
    BY <2>2 DEF MovesLeft
  <2> QED
    BY <2>1, <2>2
<1> QED
  BY <1>1, <1>2, <1>3, <1>4

(* Within a pass the budgets stand still, and one station follows another. *)
LEMMA StationDescends ==
  ASSUME StationsLeft' < StationsLeft,
         UNCHANGED <<attempts, budget, replans>>
  PROVE  LessLeft
<1>1. AttemptsLeft' = AttemptsLeft
  BY DEF AttemptsLeft
<1>2. ReplansLeft' = ReplansLeft
  BY DEF ReplansLeft
<1> QED
  BY <1>1, <1>2 DEF LessLeft

(* A plan is executed one move after the other.                            *)
LEMMA MoveDescends ==
  ASSUME MovesLeft' < MovesLeft,
         pc \in {"stepping", "executing"}, pc' \in {"stepping", "executing"},
         UNCHANGED <<attempts, budget, replans>>
  PROVE  LessLeft
<1>1. AttemptsLeft' = AttemptsLeft
  BY DEF AttemptsLeft
<1>2. ReplansLeft' = ReplansLeft
  BY DEF ReplansLeft
<1>3. StationsLeft' = StationsLeft
  BY DEF StationsLeft
<1> QED
  BY <1>1, <1>2, <1>3 DEF LessLeft

(* Each step of a pass.  The planner's turn saves what was pending; once   *)
(* nothing is, it changes nothing that is modelled here.                   *)
LEMMA PassStep ==
  TypeInv /\ CoverInv /\ Next /\ InPass /\ pc' # "idle" =>
    LessLeft \/ UNCHANGED vars
<1> SUFFICES ASSUME TypeInv, CoverInv, Next, InPass, pc' # "idle"
             PROVE  LessLeft \/ UNCHANGED vars
  OBVIOUS
<1>1. CASE WorkerTakesRun \/ RunStarted \/ Human
  BY <1>1 DEF WorkerTakesRun, RunStarted, Human, ResumeRun, RecoverRun, InPass
<1>2. CASE PlannerTurn
  <2>1. CASE durable = session
    BY <1>2, <2>1 DEF PlannerTurn, vars, rows
  <2>2. CASE durable # session
    <3>1. /\ pc = "planning" /\ pc' = "planning" /\ durable' = session'
          /\ UNCHANGED <<attempts, budget, replans>>
      BY <1>2 DEF PlannerTurn, control, loop
    <3>2. StationsLeft' < StationsLeft
      BY <2>2, <3>1 DEF StationsLeft
    <3> QED
      BY <3>1, <3>2, StationDescends
  <2> QED
    BY <2>1, <2>2
<1>3. CASE \/ \E p \in Plans : PlannerProposes(p) \/ PlannerFallsBack(p)
           \/ \E class \in PlannerPauses : PlannerAsksUser(class)
           \/ PlannerFails
  <2>1. /\ pc = "planning" /\ pc' \in {"proposed", "returned"}
        /\ UNCHANGED <<attempts, budget, replans>>
    BY <1>3 DEF PlannerProposes, PlannerFallsBack, PlannerAsksUser, PlannerFails, loop
  <2>2. StationsLeft' < StationsLeft
    BY <2>1 DEF StationsLeft
  <2> QED
    BY <2>1, <2>2, StationDescends
<1>4. CASE GuardPauses \/ AcceptPlan
  <2>1. /\ pc = "proposed" /\ pc' \in {"returned", "stepping"}
        /\ UNCHANGED <<attempts, budget, replans>>
    BY <1>4 DEF GuardPauses, AcceptPlan
  <2>2. StationsLeft' < StationsLeft
    BY <2>1 DEF StationsLeft
  <2> QED
    BY <2>1, <2>2, StationDescends
<1>5. CASE BeginStep
  <2>1. /\ pc = "stepping" /\ pc' = "executing"
        /\ UNCHANGED <<attempts, budget, replans>>
    BY <1>5 DEF BeginStep, loop
  <2>2. session \in Rows /\ session.plans # <<>>
    BY <2>1 DEF TypeInv, TypeOK
  <2>3. session' = [session EXCEPT !.steps = Append(session.steps, "planned")]
    BY <1>5 DEF BeginStep
  <2>4. session.steps \in Seq(StepStatus) /\ session.plans \in Seq(Plans) /\ "planned" \in StepStatus
    BY <2>2 DEF Rows, StepStatus
  <2>5. Len(Append(session.steps, "planned")) = Len(session.steps) + 1 /\ Len(session.steps) \in Nat
    BY <2>4, AppendProperties
  <2>6. /\ session'.steps = Append(session.steps, "planned")
        /\ session'.plans = session.plans
    BY <2>2, <2>3 DEF Rows
  <2>7. LatestPlan(session)' = LatestPlan(session)
    BY <2>6 DEF LatestPlan
  <2>8. StepCount[LatestPlan(session)] \in Nat
    BY <2>2, <2>4 DEF LatestPlan
  <2> DEFINE n == StepCount[LatestPlan(session)]
             k == Len(session.steps)
  <2>9. MovesLeft = 2 * (n - k) /\ MovesLeft' = 2 * (n - (k + 1)) + 1
    BY <2>1, <2>5, <2>6, <2>7 DEF MovesLeft
  <2>10. n \in Nat /\ k \in Nat
    BY <2>5, <2>8
  <2> HIDE DEF n, k
  <2>11. MovesLeft' < MovesLeft
    BY <2>9, <2>10
  <2> QED
    BY <2>1, <2>11, MoveDescends
<1>6. CASE StepSucceeds
  <2>1. /\ pc = "executing" /\ pc' = "stepping"
        /\ session' = CloseStep(session, "succeeded")
        /\ UNCHANGED <<attempts, budget, replans>>
    BY <1>6 DEF StepSucceeds, loop
  <2>2. session \in Rows /\ session.steps # <<>> /\ session.plans # <<>>
    BY <2>1 DEF TypeInv, TypeOK
  <2>3. /\ session'.plans = session.plans
        /\ Len(session'.steps) = Len(session.steps)
    BY <2>1, <2>2, CloseStepRow DEF StepStatus
  <2>4. LatestPlan(session)' = LatestPlan(session)
    BY <2>3 DEF LatestPlan
  <2>5. StepCount[LatestPlan(session)] \in Nat /\ Len(session.steps) \in Nat
    BY <2>2 DEF LatestPlan, Rows
  <2> DEFINE n == StepCount[LatestPlan(session)]
             k == Len(session.steps)
  <2>6. MovesLeft = 2 * (n - k) + 1 /\ MovesLeft' = 2 * (n - k)
    BY <2>1, <2>3, <2>4 DEF MovesLeft
  <2>7. n \in Nat /\ k \in Nat
    BY <2>5
  <2> HIDE DEF n, k
  <2>8. MovesLeft' < MovesLeft
    BY <2>6, <2>7
  <2> QED
    BY <2>1, <2>8, MoveDescends
<1>7. CASE StepProvesZeroMatch \/ StepFailsRun \/ FinishRun
           \/ \E class \in StepPauses : StepPausesRun(class)
  <2>1. /\ pc \in {"stepping", "executing"} /\ pc' = "returned"
        /\ UNCHANGED <<attempts, budget, replans>>
    BY <1>7 DEF StepProvesZeroMatch, StepFailsRun, FinishRun, StepPausesRun, loop
  <2>2. StationsLeft' < StationsLeft
    BY <2>1 DEF StationsLeft
  <2> QED
    BY <2>1, <2>2, StationDescends
<1>8. CASE \E reason \in ReplanReason : StepReplans(reason)
  <2>1. /\ replans + 1 <= budget /\ replans' = replans + 1
        /\ UNCHANGED <<attempts, budget>>
    BY <1>8 DEF StepReplans
  <2>2. replans \in Nat /\ budget \in Nat
    BY DEF TypeInv, TypeOK
  <2>3. ReplansLeft' < ReplansLeft /\ AttemptsLeft' = AttemptsLeft
    BY <2>1, <2>2 DEF ReplansLeft, AttemptsLeft
  <2> QED
    BY <2>3 DEF LessLeft
<1>9. CASE \E reason \in ReplanReason : ReplanBudgetExhausted(reason)
  <2>1. /\ pc = "executing" /\ pc' = "returned"
        /\ replans + 1 > budget /\ replans' = replans + 1
        /\ UNCHANGED <<attempts, budget>>
    BY <1>9 DEF ReplanBudgetExhausted
  <2>2. replans \in Nat /\ budget \in Nat
    BY DEF TypeInv, TypeOK
  <2>3. AttemptsLeft' = AttemptsLeft
    BY <2>1 DEF AttemptsLeft
  <2>4. ReplansLeft' < ReplansLeft \/ ReplansLeft' = ReplansLeft
    BY <2>1, <2>2 DEF ReplansLeft
  <2>5. StationsLeft' < StationsLeft
    BY <2>1 DEF StationsLeft
  <2> QED
    BY <2>3, <2>4, <2>5 DEF LessLeft
<1>10. CASE AutoRecover
  <2>1. attempts' = attempts + 1
    BY <1>10 DEF AutoRecover, BeginPass
  <2>2. AttemptsLeft' < AttemptsLeft
    BY <2>1 DEF TypeInv, TypeOK, AttemptsLeft
  <2> QED
    BY <2>2 DEF LessLeft
<1>11. CASE DriverCommits \/ Failure
  BY <1>11 DEF DriverCommits, Failure, WorkerRaises, RequestRaises, Crash, DriverLeaves
<1> QED
  BY <1>1, <1>2, <1>3, <1>4, <1>5, <1>6, <1>7, <1>8, <1>9, <1>10, <1>11
  DEF Next, Driver, Planner, Step

(* What DriverTerminates needs of the code: a pass cannot go on for ever,  *)
(* for every step of its driver that does not end it leaves less of it.    *)
THEOREM PassesDescend == Spec => []LeftIsFinite /\ PassDescends
<1>1. Spec => [](TypeInv /\ ControlInv /\ CoverInv)
  BY TypeInit, TypeStep, ControlInit, ControlStep, CoverInit, CoverStep, PTL
  DEF Spec
<1>2. TypeInv /\ ControlInv /\ CoverInv => LeftIsFinite
  BY LeftNat
<1>3. TypeInv /\ ControlInv /\ CoverInv /\ [Next]_vars =>
        [InPass /\ pc' # "idle" => LessLeft]_vars
  BY PassStep
<1> QED
  BY <1>1, <1>2, <1>3, PTL DEF Spec, PassDescends

=============================================================================
