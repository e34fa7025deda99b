------------------------- MODULE RunExecutionProofs -------------------------
(***************************************************************************)
(* The safety properties of StepRun, for every replan budget and whatever  *)
(* the invocations of the executor bring to light, and of RunDrivers, for  *)
(* any number of requests.  The invariant of StepRun is the conjunction of *)
(*   TypeOK;                                                               *)
(*   GateInv: the verdict is that of the evidence the step still has;      *)
(*   CountInv: the invocations are the retries, and the retries after the  *)
(*     first were paid for with observations;                              *)
(*   OutcomeInv: what the outcome says about the evidence and the budgets. *)
(* Besides, StepRun is the chain of checks of _run_step in the order of    *)
(* the code, and a step has a bounded number of moves.                     *)
(***************************************************************************)
EXTENDS StepRun, RunDrivers, TLAPS


GateInv ==
  pc = "judged" =>
    \/ verdict = "FAIL"
    \/ verdict = Decision(WithStored(evidence))

CountInv ==
  /\ pc = "invoking" => invocations = retries
  /\ pc \in {"returned", "judged"} => invocations = retries + 1
  /\ invocations <= retries + 1
  /\ lastRetry = NoFingerprint => retries = 0
  /\ lastRetry # NoFingerprint =>
       lastRetry <= observations /\ retries <= lastRetry + 1

OutcomeInv == SucceededStepIsBacked /\ ConversionsAreAllowed

StepInv == TypeOK /\ GateInv /\ CountInv /\ OutcomeInv

USE StepAssumption

-----------------------------------------------------------------------------
(* The pages persisted for the step can only help its contract.            *)
LEMMA StoredHelps ==
  ASSUME NEW ev, ContractMet(ev)
  PROVE  ContractMet(WithStored(ev))
BY DEF ContractMet, WithStored

(* The outcomes by which a step closes are outcomes.                       *)
LEMMA OutcomesNamed ==
  /\ {Open, Accepted, Rescued, ZeroMatch, Failed} \subseteq Outcomes
  /\ \A reason \in ReplanReason : Replan(reason) \in Outcomes
  /\ \A class \in PauseClass : Paused(class) \in Outcomes
BY DEF Outcomes

(* Closing a step keeps everything but the claims about its outcome.       *)
LEMMA ClosingKeeps ==
  ASSUME StepInv, NEW how \in Outcomes, Close(how)
  PROVE  TypeOK' /\ GateInv' /\ CountInv'
<1>1. TypeOK'
  BY DEF StepInv, TypeOK, Close, gate
<1>2. GateInv'
  BY DEF GateInv, Close
<1>3. CountInv'
  BY DEF StepInv, TypeOK, CountInv, Close, gate
<1> QED
  BY <1>1, <1>2, <1>3

(* A success is backed when the contract or the routing list is there.     *)
LEMMA ClosingBacked ==
  ASSUME StepInv, NEW how \in {Accepted, Rescued, ZeroMatch}, Close(how),
         task.contract =>
           ContractMet(WithStored(evidence)) \/ RoutingContractMet(evidence)
  PROVE  StepInv'
<1>1. how \in Outcomes
  BY OutcomesNamed
<1>2. task' = task /\ evidence' = evidence /\ outcome' = how
  BY DEF Close
<1>3. SucceededStepIsBacked'
  BY <1>2 DEF SucceededStepIsBacked, ContractMet, WithStored,
    RoutingContractMet
<1>4. how.kind # "replan"
  BY DEF Accepted, Rescued, ZeroMatch
<1>5. ConversionsAreAllowed'
  BY <1>2, <1>4 DEF ConversionsAreAllowed
<1> QED
  BY <1>1, <1>3, <1>5, ClosingKeeps DEF StepInv, OutcomeInv

(* A replan for a reason the task still allows.                            *)
LEMMA ClosingReplans ==
  ASSUME StepInv, NEW reason \in ReplanReason, Close(Replan(reason)),
         reason \in ConversionReasons => MayConvert(reason)
  PROVE  StepInv'
<1>1. Replan(reason) \in Outcomes
  BY OutcomesNamed
<1>2. task' = task /\ outcome' = Replan(reason)
  BY DEF Close
<1>3. SucceededStepIsBacked'
  BY <1>2 DEF SucceededStepIsBacked, Replan
<1>4. ConversionsAreAllowed'
  BY <1>2 DEF ConversionsAreAllowed, Replan, MayConvert
<1> QED
  BY <1>1, <1>3, <1>4, ClosingKeeps DEF StepInv, OutcomeInv

(* Pauses and failures claim nothing.                                      *)
LEMMA ClosingStops ==
  ASSUME StepInv, NEW how \in {Failed} \cup {Paused(c) : c \in PauseClass},
         Close(how)
  PROVE  StepInv'
<1>1. how \in Outcomes
  BY OutcomesNamed
<1>2. outcome'.kind \in {"failed", "paused"}
  BY DEF Close, Failed, Paused
<1>3. OutcomeInv'
  BY <1>2 DEF OutcomeInv, SucceededStepIsBacked, ConversionsAreAllowed
<1> QED
  BY <1>1, <1>3, ClosingKeeps DEF StepInv

-----------------------------------------------------------------------------
(* A verdict of the gate, read back.                                       *)
LEMMA PassMeansPassed ==
  ASSUME StepInv, Judged("PASS")
  PROVE  GatePassed(WithStored(evidence))
BY DEF StepInv, GateInv, Judged, Decision

LEMMA RetryMeansNothingYet ==
  ASSUME StepInv, Judged("RETRY_EXECUTOR")
  PROVE  /\ ~ ContractMet(WithStored(evidence))
         /\ "blocked" \notin WithStored(evidence)
<1> DEFINE ev == WithStored(evidence)
<1>1. Decision(ev) = "RETRY_EXECUTOR"
  BY DEF StepInv, GateInv, Judged
<1>2. /\ ~ GatePassed(ev)
      /\ ~ HasBlockedEvidence(ev)
      /\ ~ (ContractMet(ev) /\ ~ SummaryPresent)
  BY <1>1 DEF Decision
<1>3. ~ ContractMet(ev)
  BY <1>2 DEF GatePassed, Blocked
<1> QED
  BY <1>2, <1>3 DEF HasBlockedEvidence

(* Initially nothing was invoked.                                          *)
LEMMA StepInit == Init => StepInv
<1> SUFFICES ASSUME Init PROVE StepInv
  OBVIOUS
<1>1. TypeOK
  BY OutcomesNamed DEF Init, TypeOK
<1>2. GateInv /\ CountInv
  BY DEF Init, GateInv, CountInv
<1>3. OutcomeInv
  BY DEF Init, OutcomeInv, SucceededStepIsBacked, ConversionsAreAllowed, Open
<1> QED
  BY <1>1, <1>2, <1>3 DEF StepInv

-----------------------------------------------------------------------------
(* The executor.                                                           *)
LEMMA ExecuteKeeps ==
  ASSUME StepInv, Execute
  PROVE  StepInv'
<1>1. ASSUME NEW fresh \in FreshFacts, NEW observed \in BOOLEAN,
             NEW recovered \in BOOLEAN,
             pc = "invoking", ExecutorReturns(fresh, observed, recovered)
      PROVE  StepInv'
  <2>1. result' \in Results \cup {NoResult}
    <3> PICK r \in ExecutorResults :
               result' = Repaired(r, recovered, evidence')
      BY <1>1 DEF ExecutorReturns
    <3>1. r \in Results
      BY DEF ExecutorResults
    <3>2. [r EXCEPT !.status = "succeeded", !.error = "none",
                    !.summary = IF r.summary = "missing" THEN "text" ELSE @]
            \in Results
      BY <3>1 DEF Results
    <3> QED
      BY <3>1, <3>2 DEF Repaired
  <2>2. fresh \subseteq Facts
    OBVIOUS
  <2>3. TypeOK'
    BY <1>1, <2>1, <2>2 DEF StepInv, TypeOK, ExecutorReturns, Observe, gate
  <2>4. GateInv'
    BY <1>1 DEF ExecutorReturns, GateInv
  <2>5. CountInv'
    BY <1>1 DEF StepInv, TypeOK, CountInv, ExecutorReturns, Observe, gate
  <2> QED
    <3>1. outcome.kind = outcome'.kind /\ outcome' = outcome /\ task' = task
      BY <1>1 DEF ExecutorReturns
    <3>2. evidence \subseteq evidence'
      BY <1>1 DEF ExecutorReturns, Observe
    <3>3. SucceededStepIsBacked'
      BY <3>1, <3>2 DEF StepInv, OutcomeInv, SucceededStepIsBacked,
        ContractMet, WithStored, RoutingContractMet
    <3>4. ConversionsAreAllowed'
      BY <3>1 DEF StepInv, OutcomeInv, ConversionsAreAllowed
    <3> QED
      BY <2>3, <2>4, <2>5, <3>3, <3>4 DEF StepInv, OutcomeInv
<1>2. ASSUME NEW how \in Outcomes, ExecutorRaises(how) PROVE StepInv'
  BY <1>2, ClosingStops DEF ExecutorRaises, PauseClass
<1> QED
  BY <1>1, <1>2 DEF Execute

(* The checks before the gate.                                             *)
LEMMA RouteKeeps ==
  ASSUME StepInv, Route
  PROVE  StepInv'
<1>1. CASE ProveZeroMatch
  <2>1. task.contract => ContractMet(evidence)
    BY <1>1 DEF ProveZeroMatch, ZeroMatchProven, ContractMet
  <2> QED
    BY <1>1, <2>1, StoredHelps, ClosingBacked DEF ProveZeroMatch
<1>2. CASE ReplanScopeConflict
  BY <1>2, ClosingReplans
    DEF ReplanScopeConflict, ReplanReason, ConversionReasons
<1>3. CASE RescueRouting
  BY <1>3, ClosingBacked DEF RescueRouting
<1>4. CASE ReplanRoleMismatch
  BY <1>4, ClosingReplans
    DEF ReplanRoleMismatch, ReplanReason, ConversionReasons
<1>5. CASE RescueHandOff
  BY <1>5, StoredHelps, ClosingBacked DEF RescueHandOff
<1>6. CASE ReplanUnparseable
  BY <1>6, ClosingReplans
    DEF ReplanUnparseable, UnparseableUnmet, ReplanReason, ConversionReasons
<1>7. ASSUME NEW class \in PauseClass, PauseHandOff(class) PROVE StepInv'
  BY <1>7, ClosingStops DEF PauseHandOff
<1>8. CASE PauseWallClock
  BY <1>8, ClosingStops DEF PauseWallClock, PauseClass
<1>9. CASE RescueUnparseable
  BY <1>9, StoredHelps, ClosingBacked
    DEF RescueUnparseable, DeliveredUnparseable
<1>10. CASE FailStep
  BY <1>10, ClosingStops DEF FailStep
<1>11. CASE AcceptUnverified
  <2>1. task.contract => ContractMet(evidence)
    BY <1>11 DEF AcceptUnverified, GateRejected, GatePassed
  <2> QED
    BY <1>11, <2>1, StoredHelps, ClosingBacked DEF AcceptUnverified
<1>12. CASE ReplanRejected
  BY <1>12, ClosingReplans
    DEF ReplanRejected, MayRebuild, ReplanReason, ConversionReasons
<1>13. CASE PauseRejected
  BY <1>13, ClosingStops DEF PauseRejected, PauseClass
<1> QED
  BY <1>1, <1>2, <1>3, <1>4, <1>5, <1>6, <1>7, <1>8, <1>9, <1>10, <1>11,
     <1>12, <1>13 DEF Route

(* The gate gives its verdict.                                             *)
LEMMA EvaluateKeeps ==
  ASSUME StepInv, NEW expired \in BOOLEAN, EvaluateGate(expired)
  PROVE  StepInv'
<1>1. Decision(WithStored(evidence)) \in {"PASS", "RETRY_EXECUTOR", "NEED_USER"}
  BY DEF Decision
<1>2. /\ verdict' \in {"FAIL", Decision(WithStored(evidence))}
      /\ pc = "returned" /\ pc' = "judged"
      /\ UNCHANGED <<task, evidence, observations, result, retries, lastRetry,
                     invocations, outcome>>
  BY DEF EvaluateGate, AtCompletion, AtRouting
<1>3. TypeOK'
  BY <1>1, <1>2 DEF StepInv, TypeOK
<1>4. Decision(WithStored(evidence))' = Decision(WithStored(evidence))
  BY <1>2 DEF Decision, WithStored, GatePassed, SummaryPresent, ContractMet,
    Blocked, HasBlockedEvidence
<1>5. GateInv'
  BY <1>2, <1>4 DEF GateInv
<1>6. CountInv'
  BY <1>2 DEF StepInv, CountInv
<1>7. OutcomeInv'
  BY <1>2 DEF StepInv, OutcomeInv, SucceededStepIsBacked,
    ConversionsAreAllowed, ContractMet, WithStored, RoutingContractMet
<1> QED
  BY <1>3, <1>5, <1>6, <1>7 DEF StepInv

(* A retry: the only way back to the executor.                             *)
LEMMA RetryKeeps ==
  ASSUME StepInv, Retry
  PROVE  StepInv'
<1>1. /\ pc = "judged" /\ pc' = "invoking"
      /\ lastRetry # observations /\ retries + 1 <= MaxReplans
      /\ lastRetry' = observations /\ retries' = retries + 1
      /\ verdict' = "none"
      /\ UNCHANGED <<task, evidence, observations, result, invocations,
                     outcome>>
  BY DEF Retry, Judged, NoProgress, MayRetry
<1>2. TypeOK'
  BY <1>1 DEF StepInv, TypeOK
<1>3. GateInv'
  BY <1>1 DEF GateInv
<1>4. invocations = retries + 1
  BY <1>1 DEF StepInv, CountInv
<1>5. CountInv'
  BY <1>1, <1>4 DEF StepInv, TypeOK, CountInv
<1>6. OutcomeInv'
  BY <1>1 DEF StepInv, OutcomeInv, SucceededStepIsBacked,
    ConversionsAreAllowed, ContractMet, WithStored, RoutingContractMet
<1> QED
  BY <1>2, <1>3, <1>5, <1>6 DEF StepInv

(* What follows the verdict.                                               *)
LEMMA JudgeKeeps ==
  ASSUME StepInv, Judge
  PROVE  StepInv'
<1>1. ASSUME NEW expired \in BOOLEAN, EvaluateGate(expired) PROVE StepInv'
  BY <1>1, EvaluateKeeps
<1>2. CASE RescueExpired
  BY <1>2, StoredHelps, ClosingBacked DEF RescueExpired
<1>3. CASE PauseExpired
  BY <1>3, ClosingStops DEF PauseExpired, PauseClass
<1>4. CASE AcceptVerified
  <2>1. task.contract => ContractMet(evidence)
    BY <1>4 DEF AcceptVerified, GatePassed
  <2> QED
    BY <1>4, <2>1, StoredHelps, ClosingBacked DEF AcceptVerified
<1>5. CASE RescueStored
  <2>1. task.contract => ContractMet(WithStored(evidence))
    BY <1>5, PassMeansPassed DEF RescueStored, GatePassed
  <2> QED
    BY <1>5, <2>1, ClosingBacked DEF RescueStored
<1>6. CASE ReplanNeedUser
  BY <1>6, ClosingReplans
    DEF ReplanNeedUser, ReplanReason, ConversionReasons
<1>7. ASSUME NEW class \in PauseClass, PauseNeedUser(class) PROVE StepInv'
  BY <1>7, ClosingStops DEF PauseNeedUser
<1>8. CASE PauseStalled
  BY <1>8, ClosingStops DEF PauseStalled, PauseClass
<1>9. CASE ReplanUnknownTool
  BY <1>9, ClosingReplans
    DEF ReplanUnknownTool, ReplanReason, ConversionReasons
<1>10. CASE Retry
  BY <1>10, RetryKeeps
<1>11. CASE PauseExhausted
  BY <1>11, ClosingStops DEF PauseExhausted, PauseClass
<1> QED
  BY <1>1, <1>2, <1>3, <1>4, <1>5, <1>6, <1>7, <1>8, <1>9, <1>10, <1>11
    DEF Judge

(* A step that changes nothing.                                            *)
LEMMA StutterKeeps ==
  ASSUME StepInv, UNCHANGED vars
  PROVE  StepInv'
<1>1. TypeOK' /\ CountInv'
  BY DEF StepInv, TypeOK, CountInv, vars, gate
<1>2. GateInv'
  BY DEF StepInv, GateInv, Decision, WithStored, GatePassed, SummaryPresent,
    ContractMet, Blocked, HasBlockedEvidence, vars, gate
<1>3. OutcomeInv'
  BY DEF StepInv, OutcomeInv, SucceededStepIsBacked, ConversionsAreAllowed,
    ContractMet, WithStored, RoutingContractMet, vars, gate
<1> QED
  BY <1>1, <1>2, <1>3 DEF StepInv

LEMMA StepNext == StepInv /\ [Next]_vars => StepInv'
BY ExecuteKeeps, RouteKeeps, JudgeKeeps, StutterKeeps DEF Next

LEMMA StepInvariant == Spec => []StepInv
<1> QED
  BY StepInit, StepNext, PTL DEF Spec

-----------------------------------------------------------------------------
(* The variables of a step keep their types, and no more retries are asked *)
(* for than the task's replan budget (_run_step, runtime.py 1735).         *)
THEOREM StepTypeCorrect == Spec => []TypeOK
<1>1. StepInv => TypeOK
  BY DEF StepInv
<1> QED
  BY <1>1, StepInvariant, PTL

(* Whatever branch closes a step as succeeded, a declared contract is met  *)
(* by tool-backed evidence, or the routing list the step owed is there.    *)
THEOREM SuccessIsBacked == Spec => []SucceededStepIsBacked
<1>1. StepInv => SucceededStepIsBacked
  BY DEF StepInv, OutcomeInv
<1> QED
  BY <1>1, StepInvariant, PTL

(* No branch converts into a replan without budget or twice: the condition *)
(* PevRun puts on the replans a step may ask for.                          *)
THEOREM ConversionsAllowed == Spec => []ConversionsAreAllowed
<1>1. StepInv => ConversionsAreAllowed
  BY DEF StepInv, OutcomeInv
<1> QED
  BY <1>1, StepInvariant, PTL

(* The executor is invoked at most MaxReplans + 1 times in a step, and at  *)
(* most twice without a new observation (runtime.py 1638-1660).            *)
THEOREM InvocationsEarned == Spec => []InvocationsAreEarned
<1>1. StepInv => InvocationsAreEarned
  <2> SUFFICES ASSUME StepInv PROVE InvocationsAreEarned
    OBVIOUS
  <2>1. invocations <= MaxReplans + 1
    BY DEF StepInv, TypeOK, CountInv
  <2>2. invocations <= observations + 2
    BY DEF StepInv, TypeOK, CountInv
  <2> QED
    BY <2>1, <2>2 DEF InvocationsAreEarned
<1> QED
  BY <1>1, StepInvariant, PTL

(* A retry verdict leaves no usable and no blocked evidence: two branches  *)
(* of the retry path (runtime.py 1671-1711, 1772-1792) are unreachable.    *)
THEOREM RetryIsUnmet == Spec => []RetryMeansUnmet
<1>1. StepInv => RetryMeansUnmet
  <2> SUFFICES ASSUME StepInv, Judged("RETRY_EXECUTOR")
               PROVE  /\ ~ (ContractMet(evidence) /\ ~ Blocked(evidence))
                      /\ "blocked" \notin evidence
    BY DEF RetryMeansUnmet, Judged
  <2>1. ~ ContractMet(evidence)
    BY RetryMeansNothingYet, StoredHelps
  <2>2. "blocked" \notin evidence
    BY RetryMeansNothingYet DEF WithStored
  <2> QED
    BY <2>1, <2>2
<1> QED
  BY <1>1, StepInvariant, PTL

(* The executor is never invoked again around an access control.           *)
THEOREM BlockedNeverRetried == Spec => BlockedIsNeverRetried
<1>1. StepInv /\ [Next]_vars =>
        [pc = "judged" /\ pc' = "invoking" => "blocked" \notin evidence]_vars
  <2> SUFFICES ASSUME StepInv, Next, pc = "judged", pc' = "invoking"
               PROVE  "blocked" \notin evidence
    OBVIOUS
  <2>1. ~ Execute
    BY DEF Execute
  <2>2. ~ Route
    BY DEF Route, ProveZeroMatch, ReplanScopeConflict, RescueRouting,
      ReplanRoleMismatch, RescueHandOff, ReplanUnparseable, PauseHandOff,
      PauseWallClock, RescueUnparseable, FailStep, AcceptUnverified,
      ReplanRejected, PauseRejected, AtHandOff, AtFailure, AtCompletion,
      AtRouting
  <2>3. Judge => Retry
    BY DEF Judge, EvaluateGate, RescueExpired, PauseExpired, AcceptVerified,
      RescueStored, ReplanNeedUser, PauseNeedUser, PauseStalled,
      ReplanUnknownTool, PauseExhausted, Close
  <2>4. Judged("RETRY_EXECUTOR")
    BY <2>1, <2>2, <2>3 DEF Next, Retry
  <2> QED
    BY <2>4, RetryMeansNothingYet DEF WithStored
<1> QED
  BY <1>1, StepInvariant, PTL DEF Spec, BlockedIsNeverRetried

-----------------------------------------------------------------------------
(* The checks in the order of the code.                                    *)

(* What _run_step makes of what the executor returned, and of the verdict  *)
(* of the gate, check by check, the branches included that StepRun leaves  *)
(* out; only those for verdicts the gate never gives are missing.  The     *)
(* empty set stands for going on: to the gate, or to the executor again.   *)
Pauses == {Paused(class) : class \in ObservedPauses}

HandOff ==
  IF RoutingContractMet(evidence) THEN {Rescued}
  ELSE IF "role_mismatch" \in evidence /\ task.replans < MaxReplans
       THEN {Replan("dependency_unavailable")}
  ELSE IF Delivered THEN {Rescued}
  ELSE IF /\ result.error = "invalid_terminal" /\ ~ Blocked(evidence)
          /\ MayConvert("retry_contract_exhausted")
       THEN {Replan("retry_contract_exhausted")}
  ELSE Pauses

Unverified ==
  IF ~ GateRejected THEN {Accepted}
  ELSE IF ~ Blocked(evidence) /\ MayConvert("retry_contract_exhausted")
       THEN {Replan("retry_contract_exhausted")}
  ELSE {Paused("model_decision")}

AfterReturn ==
  IF ZeroMatchProven THEN {ZeroMatch}
  ELSE IF "forbidden" \in evidence THEN {Replan("tool_scope_conflict")}
  ELSE IF result.status = "needs_user" THEN HandOff
  ELSE IF result.error = "wall_clock"
       THEN IF RoutingContractMet(evidence) THEN {Rescued}
            ELSE {Paused("model_decision")}
  ELSE IF /\ result.status = "failed" /\ result.error = "invalid_terminal"
          /\ Delivered
       THEN {Rescued}
  ELSE IF result.status = "succeeded" /\ RoutingContractMet(evidence)
       THEN {Rescued}
  ELSE IF result.status # "succeeded" THEN {Failed}
  ELSE IF ~ task.verify THEN Unverified
  ELSE {}

AfterPass ==
  IF GatePassed(evidence) THEN {Accepted}
  ELSE IF GatePassed(WithStored(evidence)) THEN {Rescued}
  ELSE Pauses \cup {Paused("hard_stop"), Paused("source_block")}

AfterRetry ==
  IF lastRetry = observations THEN {Paused("model_decision")}
  ELSE IF Blocked(evidence) THEN Pauses
  ELSE IF evidence \cap {"forbidden", "unknown_tool"} # {}
       THEN {Replan("tool_scope_conflict")}
  ELSE IF retries + 1 <= MaxReplans THEN {}
  ELSE IF Delivered /\ MayConvert("retry_contract_exhausted")
       THEN {Replan("retry_contract_exhausted")}
  ELSE {Paused("model_decision")}

(* The summary of a verified zero match says that nothing matches, so it   *)
(* is not blank; whether it says so is left open.                          *)
AfterNeedUser ==
  IF RoutingContractMet(evidence) THEN {Rescued}
  ELSE IF Delivered /\ MayConvert("need_user_contract")
       THEN {Replan("need_user_contract")}
  ELSE IF Delivered /\ SummaryPresent THEN Pauses \cup {Rescued}
  ELSE Pauses

AfterVerdict ==
  CASE verdict = "FAIL" -> IF Delivered THEN {Rescued} ELSE {Paused("model_decision")}
    [] verdict = "PASS" -> AfterPass
    [] verdict = "RETRY_EXECUTOR" -> AfterRetry
    [] OTHER -> AfterNeedUser

AskGate ==
  /\ \E expired \in BOOLEAN :
       verdict' = IF expired THEN "FAIL" ELSE Decision(WithStored(evidence))
  /\ pc' = "judged"
  /\ UNCHANGED <<task, evidence, observations, result, retries, lastRetry,
                 invocations, outcome>>

AskAgain ==
  /\ lastRetry' = observations
  /\ retries' = retries + 1
  /\ verdict' = "none"
  /\ pc' = "invoking"
  /\ UNCHANGED <<task, evidence, observations, result, invocations, outcome>>

CheckReturn ==
  /\ pc = "returned"
  /\ IF AfterReturn = {} THEN AskGate ELSE \E how \in AfterReturn : Close(how)

CheckVerdict ==
  /\ pc = "judged"
  /\ IF AfterVerdict = {} THEN AskAgain ELSE \E how \in AfterVerdict : Close(how)

NextInOrder == Execute \/ CheckReturn \/ CheckVerdict

StepInOrder == Init /\ [][NextInOrder]_vars

(* What makes the branches that StepRun leaves out unreachable: only a     *)
(* failure ends in the wall clock, and what is judged passed the checks    *)
(* before the gate.                                                        *)
OrderInv ==
  /\ pc = "returned" /\ result.error = "wall_clock" => result.status = "failed"
  /\ pc = "judged" =>
       /\ result.status = "succeeded"
       /\ task.verify
       /\ ~ RoutingContractMet(evidence)
       /\ "forbidden" \notin evidence


LEMMA OrderInit == Init => OrderInv
  BY DEF Init, OrderInv

LEMMA OrderNext == StepInv /\ OrderInv /\ [Next]_vars => OrderInv'
<1> SUFFICES ASSUME StepInv, OrderInv, [Next]_vars PROVE OrderInv'
  OBVIOUS
<1>1. ASSUME NEW how, Close(how) PROVE OrderInv'
  BY <1>1 DEF Close, OrderInv
<1>2. CASE Execute
  <2>1. ASSUME NEW fresh \in FreshFacts, NEW observed \in BOOLEAN,
               NEW recovered \in BOOLEAN,
               ExecutorReturns(fresh, observed, recovered)
        PROVE  OrderInv'
    <3>1. PICK r \in ExecutorResults : result' = Repaired(r, recovered, evidence')
      BY <2>1 DEF ExecutorReturns
    <3>2. r.error = "wall_clock" => r.status = "failed"
      BY DEF ExecutorResults, Results
    <3>3. result' = r \/ result'.error = "none"
      BY <3>1 DEF Repaired, ExecutorResults, Results
    <3> QED
      BY <2>1, <3>2, <3>3 DEF ExecutorReturns, OrderInv
  <2>2. ASSUME NEW how \in Outcomes, ExecutorRaises(how) PROVE OrderInv'
    BY <1>1, <2>2 DEF ExecutorRaises
  <2> QED
    BY <1>2, <2>1, <2>2 DEF Execute
<1>3. CASE Route
  BY <1>1, <1>3 DEF Route, ProveZeroMatch, ReplanScopeConflict, RescueRouting,
    ReplanRoleMismatch, RescueHandOff, ReplanUnparseable, PauseHandOff,
    PauseWallClock, RescueUnparseable, FailStep, AcceptUnverified,
    ReplanRejected, PauseRejected
<1>4. ASSUME NEW expired \in BOOLEAN, EvaluateGate(expired) PROVE OrderInv'
  <2>1. /\ AtCompletion /\ task.verify /\ pc' = "judged"
        /\ UNCHANGED <<task, evidence, result>>
    BY <1>4 DEF EvaluateGate
  <2>2. /\ result.status = "succeeded" /\ ~ RoutingContractMet(evidence)
        /\ "forbidden" \notin evidence
    BY <2>1 DEF AtCompletion, AtRouting, ScopeForbidden
  <2>3. ~ RoutingContractMet(evidence)'
    BY <2>1, <2>2 DEF RoutingContractMet
  <2> QED
    BY <2>1, <2>2, <2>3 DEF OrderInv
<1>5. CASE Retry
  BY <1>5 DEF Retry, OrderInv
<1>6. CASE UNCHANGED vars
  BY <1>6 DEF vars, OrderInv, RoutingContractMet
<1> QED
  BY <1>1, <1>2, <1>3, <1>4, <1>5, <1>6 DEF Next, Judge, RescueExpired,
    PauseExpired, AcceptVerified, RescueStored, ReplanNeedUser, PauseNeedUser,
    PauseStalled, ReplanUnknownTool, PauseExhausted

(* The checks for a hand-off, and for a step that is not verified.         *)
LEMMA PausesObserved ==
  /\ Pauses # {}
  /\ ObservedPauses \subseteq PauseClass
  BY DEF Pauses, ObservedPauses, PauseClass

LEMMA PausesClose ==
  (\E how \in Pauses : Close(how))
    <=> \E class \in PauseClass : class \in ObservedPauses /\ Close(Paused(class))
<1>1. ASSUME NEW how \in Pauses, Close(how)
      PROVE  \E class \in PauseClass : class \in ObservedPauses /\ Close(Paused(class))
  <2>1. PICK class \in ObservedPauses : how = Paused(class)
    BY DEF Pauses
  <2> QED
    BY <1>1, <2>1, PausesObserved
<1>2. ASSUME NEW class \in PauseClass, class \in ObservedPauses, Close(Paused(class))
      PROVE  \E how \in Pauses : Close(how)
  BY <1>2 DEF Pauses
<1> QED
  BY <1>1, <1>2

(* At a hand-off the five checks of the model are the chain of the code.   *)
LEMMA HandOffInOrder ==
  ASSUME AtRouting, result.status = "needs_user"
  PROVE  /\ HandOff # {}
         /\ (RescueRouting \/ ReplanRoleMismatch \/ RescueHandOff
             \/ ReplanUnparseable \/ \E class \in PauseClass : PauseHandOff(class))
            <=> \E how \in HandOff : Close(how)
<1> USE DEF RescueRouting, ReplanRoleMismatch, RescueHandOff, ReplanUnparseable,
    PauseHandOff, AtHandOff, HandOff, MustRediscover, UnparseableUnmet, Delivered
<1>1. CASE RoutingContractMet(evidence)
  BY <1>1
<1>2. CASE ~ RoutingContractMet(evidence) /\ MustRediscover
  BY <1>2
<1>3. CASE ~ RoutingContractMet(evidence) /\ ~ MustRediscover /\ Delivered
  BY <1>3
<1>4. CASE /\ ~ RoutingContractMet(evidence) /\ ~ MustRediscover
           /\ ~ Delivered /\ UnparseableUnmet
  <2>1. ~ ContractMet(evidence)
    BY <1>4
  <2>2. HandOff = {Replan("retry_contract_exhausted")}
    BY <1>4
  <2> QED
    BY <1>4, <2>1, <2>2
<1>5. CASE /\ ~ RoutingContractMet(evidence) /\ ~ MustRediscover
           /\ ~ Delivered /\ ~ UnparseableUnmet
  <2>1. ~ ContractMet(evidence)
    BY <1>5 DEF Blocked
  <2>2. HandOff = Pauses
    BY <1>5
  <2> QED
    BY <1>5, <2>1, <2>2, PausesClose, PausesObserved
<1> QED
  BY <1>1, <1>2, <1>3, <1>4, <1>5

(* What the executor returned is checked in the order of the code: where   *)
(* the chain ends in an outcome the step closes with it, and where it goes *)
(* on the gate is asked.                                                   *)
LEMMA ReturnInOrder ==
  ASSUME StepInv, OrderInv, pc = "returned"
  PROVE  Route \/ (\E expired \in BOOLEAN : EvaluateGate(expired)) <=> CheckReturn
<1> DEFINE Asked == \E expired \in BOOLEAN : EvaluateGate(expired)
<1>a. /\ result.status \in {"succeeded", "needs_user", "failed"}
      /\ task.verify \in BOOLEAN
  BY DEF StepInv, TypeOK, Results, NoResult, Tasks
<1>b. result.error = "wall_clock" => result.status = "failed"
  BY DEF OrderInv
<1>c. Asked <=> AtCompletion /\ task.verify /\ AskGate
  BY DEF EvaluateGate, AskGate
<1>1. CASE ZeroMatchProven
  <2>1. AfterReturn = {ZeroMatch}
    BY <1>1 DEF AfterReturn
  <2>2. Route <=> ProveZeroMatch
    BY <1>1 DEF Route, ReplanScopeConflict, RescueRouting, ReplanRoleMismatch,
      RescueHandOff, ReplanUnparseable, PauseHandOff, PauseWallClock,
      RescueUnparseable, FailStep, AcceptUnverified, ReplanRejected,
      PauseRejected, AtHandOff, AtFailure, AtCompletion, AtRouting
  <2>3. ~ AtCompletion
    BY <1>1 DEF AtCompletion, AtRouting
  <2> QED
    BY <1>1, <1>c, <2>1, <2>2, <2>3 DEF ProveZeroMatch, CheckReturn
<1>2. CASE ~ ZeroMatchProven /\ ScopeForbidden
  <2>1. AfterReturn = {Replan("tool_scope_conflict")}
    BY <1>2 DEF AfterReturn, ScopeForbidden
  <2>2. Route <=> ReplanScopeConflict
    BY <1>2 DEF Route, ProveZeroMatch, RescueRouting, ReplanRoleMismatch,
      RescueHandOff, ReplanUnparseable, PauseHandOff, PauseWallClock,
      RescueUnparseable, FailStep, AcceptUnverified, ReplanRejected,
      PauseRejected, AtHandOff, AtFailure, AtCompletion, AtRouting
  <2>3. ~ AtCompletion
    BY <1>2 DEF AtCompletion, AtRouting
  <2> QED
    BY <1>2, <1>c, <2>1, <2>2, <2>3 DEF ReplanScopeConflict, CheckReturn
<1>3. CASE AtRouting /\ result.status = "needs_user"
  <2>1. AfterReturn = HandOff
    BY <1>3 DEF AtRouting, ScopeForbidden, AfterReturn
  <2>2. Route <=> \/ RescueRouting \/ ReplanRoleMismatch \/ RescueHandOff
                  \/ ReplanUnparseable
                  \/ \E class \in PauseClass : PauseHandOff(class)
    BY <1>3 DEF Route, ProveZeroMatch, ReplanScopeConflict, PauseWallClock,
      RescueUnparseable, FailStep, AcceptUnverified, ReplanRejected,
      PauseRejected, AtFailure, AtCompletion, AtRouting
  <2>3. ~ AtCompletion
    BY <1>3 DEF AtCompletion
  <2> QED
    BY <1>3, <1>c, <2>1, <2>2, <2>3, HandOffInOrder DEF CheckReturn
<1>4. CASE AtRouting /\ result.status = "failed"
  <2>1. Route <=> \/ RescueRouting \/ PauseWallClock \/ RescueUnparseable \/ FailStep
    BY <1>4 DEF Route, ProveZeroMatch, ReplanScopeConflict, ReplanRoleMismatch,
      RescueHandOff, ReplanUnparseable, PauseHandOff, AcceptUnverified,
      ReplanRejected, PauseRejected, AtHandOff, AtCompletion, AtRouting
  <2>2. ~ AtCompletion
    BY <1>4 DEF AtCompletion
  <2>3. ~ ZeroMatchProven /\ "forbidden" \notin evidence
    BY <1>4 DEF AtRouting, ScopeForbidden
  <2>4. CASE result.error = "wall_clock"
    <3>1. AfterReturn = IF RoutingContractMet(evidence) THEN {Rescued}
                        ELSE {Paused("model_decision")}
      BY <1>4, <2>3, <2>4 DEF AfterReturn
    <3>2. Route <=> Close(IF RoutingContractMet(evidence) THEN Rescued
                          ELSE Paused("model_decision"))
      BY <1>4, <2>1, <2>4 DEF RescueRouting, PauseWallClock, RescueUnparseable,
        DeliveredUnparseable, FailStep, AtFailure
    <3> QED
      BY <1>c, <2>2, <3>1, <3>2 DEF CheckReturn
  <2>5. CASE result.error # "wall_clock"
    <3>1. DeliveredUnparseable <=> result.error = "invalid_terminal" /\ Delivered
      BY DEF DeliveredUnparseable, Delivered
    <3>2. AfterReturn = IF DeliveredUnparseable THEN {Rescued} ELSE {Failed}
      BY <1>4, <2>3, <2>5, <3>1 DEF AfterReturn
    <3>3. Route <=> Close(IF DeliveredUnparseable THEN Rescued ELSE Failed)
      BY <1>4, <2>1, <2>5 DEF RescueRouting, PauseWallClock, RescueUnparseable,
        FailStep, AtFailure
    <3> QED
      BY <1>c, <2>2, <3>2, <3>3 DEF CheckReturn
  <2> QED
    BY <2>4, <2>5
<1>5. CASE AtRouting /\ result.status = "succeeded"
  <2>1. Route <=> \/ RescueRouting \/ AcceptUnverified \/ ReplanRejected
                  \/ PauseRejected
    BY <1>5 DEF Route, ProveZeroMatch, ReplanScopeConflict, ReplanRoleMismatch,
      RescueHandOff, ReplanUnparseable, PauseHandOff, PauseWallClock,
      RescueUnparseable, FailStep, AtHandOff, AtFailure, AtRouting
  <2>2. ~ ZeroMatchProven /\ "forbidden" \notin evidence /\ result.error # "wall_clock"
    BY <1>5, <1>b DEF AtRouting, ScopeForbidden
  <2>3. CASE RoutingContractMet(evidence)
    <3>1. AfterReturn = {Rescued}
      BY <1>5, <2>2, <2>3 DEF AfterReturn
    <3>2. ~ AtCompletion
      BY <2>3 DEF AtCompletion
    <3>3. Route <=> Close(Rescued)
      BY <1>5, <2>1, <2>3, <3>2 DEF RescueRouting, AcceptUnverified,
        ReplanRejected, PauseRejected
    <3> QED
      BY <1>c, <3>1, <3>2, <3>3 DEF CheckReturn
  <2>4. CASE ~ RoutingContractMet(evidence) /\ ~ task.verify
    <3>1. AfterReturn = Unverified
      BY <1>5, <2>2, <2>4 DEF AfterReturn
    <3>2. Unverified = {IF ~ GateRejected THEN Accepted
                        ELSE IF MayRebuild THEN Replan("retry_contract_exhausted")
                        ELSE Paused("model_decision")}
      BY DEF Unverified, MayRebuild
    <3>3. AtCompletion
      BY <1>5, <2>4 DEF AtCompletion
    <3>4. Route <=> Close(IF ~ GateRejected THEN Accepted
                          ELSE IF MayRebuild THEN Replan("retry_contract_exhausted")
                          ELSE Paused("model_decision"))
      BY <2>1, <2>4, <3>3 DEF RescueRouting, AcceptUnverified, ReplanRejected,
        PauseRejected
    <3> QED
      BY <1>c, <2>4, <3>1, <3>2, <3>4 DEF CheckReturn
  <2>5. CASE ~ RoutingContractMet(evidence) /\ task.verify
    <3>1. AfterReturn = {}
      BY <1>5, <2>2, <2>5 DEF AfterReturn
    <3>2. AtCompletion
      BY <1>5, <2>5 DEF AtCompletion
    <3>3. ~ Route
      BY <2>1, <2>5 DEF RescueRouting, AcceptUnverified, ReplanRejected,
        PauseRejected
    <3> QED
      BY <1>c, <2>5, <3>1, <3>2, <3>3 DEF CheckReturn
  <2> QED
    BY <1>a, <2>3, <2>4, <2>5
<1> QED
  BY <1>a, <1>1, <1>2, <1>3, <1>4, <1>5 DEF AtRouting

(* What the gate said is acted on in the order of the code: the branches   *)
(* that StepRun leaves out cannot be reached.                              *)
LEMMA VerdictInOrder ==
  ASSUME StepInv, OrderInv, pc = "judged"
  PROVE  Judge <=> CheckVerdict
<1>a. verdict \in {"FAIL", "PASS", "RETRY_EXECUTOR", "NEED_USER"}
  BY DEF StepInv, TypeOK, GateInv, Decision
<1>b. ~ RoutingContractMet(evidence) /\ "forbidden" \notin evidence
  BY DEF OrderInv
<1>c. ~ \E expired \in BOOLEAN : EvaluateGate(expired)
  BY DEF EvaluateGate, AtCompletion, AtRouting
<1> USE DEF Judged
<1>1. CASE verdict = "FAIL"
  <2>1. AfterVerdict = {IF Delivered THEN Rescued ELSE Paused("model_decision")}
    BY <1>1 DEF AfterVerdict
  <2>2. Judge <=> RescueExpired \/ PauseExpired
    BY <1>1, <1>c DEF Judge, AcceptVerified, RescueStored, ReplanNeedUser,
      PauseNeedUser, PauseStalled, ReplanUnknownTool, Retry, PauseExhausted
  <2>3. Judge <=> Close(IF Delivered THEN Rescued ELSE Paused("model_decision"))
    BY <1>1, <2>2 DEF RescueExpired, PauseExpired, Delivered
  <2> QED
    BY <2>1, <2>3 DEF CheckVerdict
<1>2. CASE verdict = "PASS"
  <2>1. GatePassed(WithStored(evidence))
    BY <1>2, PassMeansPassed
  <2>2. AfterVerdict = {IF GatePassed(evidence) THEN Accepted ELSE Rescued}
    BY <1>2, <2>1 DEF AfterVerdict, AfterPass
  <2>3. Judge <=> AcceptVerified \/ RescueStored
    BY <1>2, <1>c DEF Judge, RescueExpired, PauseExpired, ReplanNeedUser,
      PauseNeedUser, PauseStalled, ReplanUnknownTool, Retry, PauseExhausted
  <2>4. Judge <=> Close(IF GatePassed(evidence) THEN Accepted ELSE Rescued)
    BY <1>2, <2>3 DEF AcceptVerified, RescueStored
  <2> QED
    BY <2>2, <2>4 DEF CheckVerdict
<1>3. CASE verdict = "RETRY_EXECUTOR"
  <2>1. ~ ContractMet(evidence) /\ ~ Blocked(evidence) /\ ~ Delivered
    <3>1. ~ ContractMet(evidence)
      BY <1>3, RetryMeansNothingYet, StoredHelps
    <3>2. "blocked" \notin evidence
      BY <1>3, RetryMeansNothingYet DEF WithStored
    <3> QED
      BY <3>1, <3>2 DEF Blocked, HasBlockedEvidence, Delivered
  <2>2. evidence \cap {"forbidden", "unknown_tool"} # {} <=> "unknown_tool" \in evidence
    BY <1>b
  <2>3. AfterVerdict =
          IF NoProgress THEN {Paused("model_decision")}
          ELSE IF "unknown_tool" \in evidence THEN {Replan("tool_scope_conflict")}
          ELSE IF MayRetry THEN {} ELSE {Paused("model_decision")}
    BY <1>3, <2>1, <2>2 DEF AfterVerdict, AfterRetry, NoProgress, MayRetry
  <2>4. Judge <=> PauseStalled \/ ReplanUnknownTool \/ Retry \/ PauseExhausted
    BY <1>3, <1>c DEF Judge, RescueExpired, PauseExpired, AcceptVerified,
      RescueStored, ReplanNeedUser, PauseNeedUser
  <2>5. Judge <=> IF ~ NoProgress /\ "unknown_tool" \notin evidence /\ MayRetry
                  THEN AskAgain
                  ELSE Close(IF ~ NoProgress /\ "unknown_tool" \in evidence
                             THEN Replan("tool_scope_conflict")
                             ELSE Paused("model_decision"))
    BY <1>3, <2>4 DEF PauseStalled, ReplanUnknownTool, Retry, PauseExhausted,
      AskAgain
  <2> QED
    BY <2>3, <2>5 DEF CheckVerdict
<1>4. CASE verdict = "NEED_USER"
  <2>1. ~ (Delivered /\ SummaryPresent)
    <3> SUFFICES ASSUME Delivered, SummaryPresent PROVE FALSE
      OBVIOUS
    <3> DEFINE ev == WithStored(evidence)
    <3>1. Decision(ev) = "NEED_USER"
      BY <1>4 DEF StepInv, GateInv
    <3>2. ContractMet(ev)
      BY StoredHelps DEF Delivered
    <3>3. GatePassed(ev)
      BY <3>2 DEF GatePassed, Blocked
    <3> QED
      BY <3>1, <3>3 DEF Decision
  <2>2. AfterVerdict = IF Delivered /\ MayConvert("need_user_contract")
                       THEN {Replan("need_user_contract")} ELSE Pauses
    BY <1>4, <1>b, <2>1 DEF AfterVerdict, AfterNeedUser
  <2>3. Judge <=> \/ ReplanNeedUser
                  \/ \E class \in PauseClass : PauseNeedUser(class)
    BY <1>4, <1>c DEF Judge, RescueExpired, PauseExpired, AcceptVerified,
      RescueStored, PauseStalled, ReplanUnknownTool, Retry, PauseExhausted
  <2>5. CASE Delivered /\ MayConvert("need_user_contract")
    <3>1. Judge <=> Close(Replan("need_user_contract"))
      BY <1>4, <2>3, <2>5 DEF ReplanNeedUser, PauseNeedUser
    <3> QED
      BY <2>2, <2>5, <3>1 DEF CheckVerdict
  <2>6. CASE ~ (Delivered /\ MayConvert("need_user_contract"))
    <3>1. Judge <=> \E class \in PauseClass :
                      class \in ObservedPauses /\ Close(Paused(class))
      BY <1>4, <2>3, <2>6 DEF ReplanNeedUser, PauseNeedUser
    <3> QED
      BY <2>2, <2>6, <3>1, PausesClose, PausesObserved DEF CheckVerdict
  <2> QED
    BY <2>5, <2>6
<1> QED
  BY <1>a, <1>1, <1>2, <1>3, <1>4

(* In a reachable state the two next-state relations are one.              *)
LEMMA NextIsInOrder ==
  ASSUME StepInv, OrderInv
  PROVE  Next <=> NextInOrder
<1>1. pc \in {"invoking", "returned", "judged", "closed"}
  BY DEF StepInv, TypeOK
<1>2. Route => pc = "returned"
  BY DEF Route, ProveZeroMatch, ReplanScopeConflict, RescueRouting,
    ReplanRoleMismatch, RescueHandOff, ReplanUnparseable, PauseHandOff,
    PauseWallClock, RescueUnparseable, FailStep, AcceptUnverified,
    ReplanRejected, PauseRejected, AtHandOff, AtFailure, AtCompletion,
    AtRouting
<1>3. ASSUME NEW expired \in BOOLEAN, EvaluateGate(expired) PROVE pc = "returned"
  BY <1>3 DEF EvaluateGate, AtCompletion, AtRouting
<1>4. Judge => \/ pc = "judged"
               \/ \E expired \in BOOLEAN : EvaluateGate(expired)
  BY DEF Judge, RescueExpired, PauseExpired, AcceptVerified, RescueStored,
    ReplanNeedUser, PauseNeedUser, PauseStalled, ReplanUnknownTool, Retry,
    PauseExhausted, Judged
<1>5. (\E expired \in BOOLEAN : EvaluateGate(expired)) => Judge
  BY DEF Judge
<1>6. Execute => pc = "invoking"
  BY DEF Execute
<1>7. (CheckReturn => pc = "returned") /\ (CheckVerdict => pc = "judged")
  BY DEF CheckReturn, CheckVerdict
<1>8. CASE pc = "returned"
  BY <1>2, <1>3, <1>4, <1>5, <1>6, <1>7, <1>8, ReturnInOrder DEF Next, NextInOrder
<1>9. CASE pc = "judged"
  BY <1>2, <1>3, <1>4, <1>5, <1>6, <1>7, <1>9, VerdictInOrder DEF Next, NextInOrder
<1>10. CASE pc \in {"invoking", "closed"}
  BY <1>2, <1>3, <1>4, <1>6, <1>7, <1>10 DEF Next, NextInOrder
<1> QED
  BY <1>1, <1>8, <1>9, <1>10

(* The actions of StepRun, each with a guard of its own, are the chain of  *)
(* checks of _run_step: no order of theirs is lost, none of them overlap   *)
(* unseen, some check applies whenever one is due, and the branches left   *)
(* out are unreachable.                                                    *)
THEOREM ChecksInOrder == Spec <=> StepInOrder
<1>1. Init => StepInv /\ OrderInv
  BY StepInit, OrderInit
<1>2. StepInv /\ OrderInv /\ [Next]_vars => (StepInv /\ OrderInv)'
  BY StepNext, OrderNext
<1>3. StepInv /\ OrderInv => ([Next]_vars <=> [NextInOrder]_vars)
  BY NextIsInOrder
<1> QED
  BY <1>1, <1>2, <1>3, PTL DEF Spec, StepInOrder

(* How many moves a step has left: three of each invocation still allowed. *)
StepMoves ==
  3 * (MaxReplans - retries) +
    (CASE pc = "invoking" -> 3 [] pc = "returned" -> 2
       [] pc = "judged" -> 1 [] OTHER -> 0)

(* Each move of a step uses up at least one of them, so a step has at most *)
(* three moves for every invocation the replan budget pays for: with the   *)
(* totality of the checks, what StepEnds needs of the code.                *)
THEOREM StepDescends ==
  Spec => [](StepMoves \in 0..3 * (MaxReplans + 1)) /\ [][StepMoves' < StepMoves]_vars
<1>1. StepInv => StepMoves \in 0..3 * (MaxReplans + 1)
  BY DEF StepInv, TypeOK, StepMoves
<1>2. StepInv /\ [Next]_vars => [StepMoves' < StepMoves]_vars
  <2> SUFFICES ASSUME StepInv, Next PROVE StepMoves' < StepMoves
    OBVIOUS
  <2>a. retries \in Nat /\ pc \in {"invoking", "returned", "judged", "closed"}
    BY DEF StepInv, TypeOK
  <2>1. ASSUME NEW how, pc # "closed", Close(how) PROVE StepMoves' < StepMoves
    <3>1. pc' = "closed" /\ retries' = retries
      BY <2>1 DEF Close
    <3> QED
      BY <2>1, <2>a, <3>1 DEF StepMoves
  <2>2. CASE Execute
    <3>1. ASSUME NEW fresh \in FreshFacts, NEW observed \in BOOLEAN,
                 NEW recovered \in BOOLEAN,
                 ExecutorReturns(fresh, observed, recovered)
          PROVE  StepMoves' < StepMoves
      <4>1. pc = "invoking" /\ pc' = "returned" /\ retries' = retries
        BY <2>2, <3>1 DEF Execute, ExecutorReturns, gate
      <4> QED
        BY <2>a, <4>1 DEF StepMoves
    <3>2. ASSUME NEW how \in Outcomes, ExecutorRaises(how)
          PROVE  StepMoves' < StepMoves
      BY <2>1, <2>2, <3>2 DEF Execute, ExecutorRaises
    <3> QED
      BY <2>2, <3>1, <3>2 DEF Execute
  <2>3. CASE Route
    BY <2>1, <2>3 DEF Route, ProveZeroMatch, ReplanScopeConflict, RescueRouting,
      ReplanRoleMismatch, RescueHandOff, ReplanUnparseable, PauseHandOff,
      PauseWallClock, RescueUnparseable, FailStep, AcceptUnverified,
      ReplanRejected, PauseRejected, AtHandOff, AtFailure, AtCompletion,
      AtRouting
  <2>4. ASSUME NEW expired \in BOOLEAN, EvaluateGate(expired)
        PROVE  StepMoves' < StepMoves
    <3>1. pc = "returned" /\ pc' = "judged" /\ retries' = retries
      BY <2>4 DEF EvaluateGate, AtCompletion, AtRouting
    <3> QED
      BY <2>a, <3>1 DEF StepMoves
  <2>5. CASE Retry
    <3>1. pc = "judged" /\ pc' = "invoking" /\ retries' = retries + 1
      BY <2>5 DEF Retry, Judged
    <3> QED
      BY <2>a, <3>1 DEF StepMoves
  <2> QED
    BY <2>1, <2>2, <2>3, <2>4, <2>5 DEF Next, Judge, RescueExpired,
      PauseExpired, AcceptVerified, RescueStored, ReplanNeedUser, PauseNeedUser,
      PauseStalled, ReplanUnknownTool, PauseExhausted, Judged
<1> QED
  BY <1>1, <1>2, StepInvariant, PTL DEF Spec

-----------------------------------------------------------------------------
(* RunDrivers: what the row lock guarantees among the drivers of one run.  *)

USE DriversAssumption, BoundsAssumption DEF DriversAssumption, BoundsAssumption

(* A driver about to commit has written a status, an answer is pending and *)
(* made by a request, the worker has not begun while it is scheduled, and  *)
(* what the worker rolled back before it closes the run includes its lock. *)
DriversInv ==
  /\ DriversTypeOK
  /\ PendingStatusIsLocked
  /\ LockIsNeverLeaked
  /\ answering \subseteq Requests
  /\ \A d \in answering : pending[d] # "none"
  /\ answering # {} => status = "waiting_user"
  /\ \A d \in Drivers : at[d] = "returned" => pending[d] # "none"
  /\ at[Worker] = "closing" => lock # Worker
  /\ scheduled => at[Worker] = "new"

LEMMA DriversBegin == DriversInit => DriversInv
  BY DEF DriversInit, DriversInv, DriversTypeOK, PendingStatusIsLocked, LockIsNeverLeaked,
         RunStatus, Drivers

(* Every step of a driver, a failure and a crash keep the invariant.       *)
LEMMA DriversStep == DriversInv /\ [DriversNext]_driversVars => DriversInv'
<1> SUFFICES ASSUME DriversInv, [DriversNext]_driversVars PROVE DriversInv'
  OBVIOUS
<1> USE DEF DriversInv, PendingStatusIsLocked, LockIsNeverLeaked, Live, rows,
            local
<1>a. /\ Worker \in Drivers /\ Requests \subseteq Drivers
      /\ Nobody \notin Drivers /\ Worker \notin Requests
      /\ Drivers = Requests \cup {Worker}
  BY DEF Drivers
<1>1. CASE WorkerTakesRun
  <2>1. /\ scheduled /\ scheduled' = FALSE
        /\ Goto(Worker, "starting") \/ Goto(Worker, "done")
        /\ UNCHANGED <<rows, lock, pending, local, answering>>
    BY <1>1 DEF WorkerTakesRun
  <2>2. lock # Worker
    BY <2>1, <1>a
  <2>3. DriversTypeOK'
    BY <2>1, <1>a DEF Goto, DriversTypeOK
  <2> QED
    BY <2>1, <2>2, <2>3, <1>a DEF Goto, DriversTypeOK
<1>2. CASE RunStarted
  BY <1>2, <1>a DEF RunStarted, Goto, CanWrite, DriversTypeOK, RunStatus
<1>3. ASSUME NEW d \in Requests, RecoverRun(d) PROVE DriversInv'
  BY <1>3, <1>a DEF RecoverRun, Goto, DriversTypeOK
<1>4. ASSUME NEW d \in Requests, ResumeRun(d) PROVE DriversInv'
  BY <1>4, <1>a DEF ResumeRun, Goto, DriversTypeOK
<1>5. ASSUME NEW d \in Requests, RequestRejected(d) PROVE DriversInv'
  BY <1>5, <1>a DEF RequestRejected, Goto, DriversTypeOK
<1>6. ASSUME NEW d \in Requests, RequestRollsBack(d) PROVE DriversInv'
  BY <1>6, <1>a DEF RequestRollsBack, Rollback, Goto, DriversTypeOK
<1>7. ASSUME NEW d \in Drivers, ReadCounters(d) PROVE DriversInv'
  BY <1>7, <1>a DEF ReadCounters, Goto, DriversTypeOK
<1>8. ASSUME NEW d \in Drivers, PlannerDecides(d) PROVE DriversInv'
  <2>1. CASE TurnRefused(d, "planner")
    BY <2>1, <1>8, <1>a DEF PlannerDecides, TurnRefused, Goto, DriversTypeOK
  <2>2. CASE TurnCommitted(d, "planner") /\ Goto(d, "decided")
    BY <2>2, <1>8, <1>a
    DEF PlannerDecides, TurnCommitted, Commit, CanWrite, Goto, DriversTypeOK, Roles,
        RunStatus
  <2> QED
    BY <2>1, <2>2, <1>8 DEF PlannerDecides
<1>9. ASSUME NEW d \in Drivers, PlanCommitted(d) PROVE DriversInv'
  BY <1>9, <1>a DEF PlanCommitted, Commit, CanWrite, Goto, DriversTypeOK, RunStatus
<1>10. ASSUME NEW d \in Drivers, PlanRefused(d) PROVE DriversInv'
  BY <1>10, <1>a DEF PlanRefused, Goto, DriversTypeOK
<1>11. ASSUME NEW d \in Drivers, ExecutorDecides(d) PROVE DriversInv'
  <2>1. CASE TurnRefused(d, "executor")
    BY <2>1, <1>11, <1>a DEF ExecutorDecides, TurnRefused, Goto, DriversTypeOK
  <2>2. CASE TurnCommitted(d, "executor") /\ UNCHANGED at
    BY <2>2, <1>11, <1>a
    DEF ExecutorDecides, TurnCommitted, Commit, CanWrite, DriversTypeOK, Roles,
        RunStatus
  <2> QED
    BY <2>1, <2>2, <1>11 DEF ExecutorDecides
<1>12. ASSUME NEW d \in Drivers, StepReplans(d) PROVE DriversInv'
  BY <1>12, <1>a DEF StepReplans, Goto, DriversTypeOK
<1>13. ASSUME NEW d \in Drivers,
              NEW ending \in {"waiting_user", "succeeded", "failed"},
              FinishRun(d, ending)
       PROVE  DriversInv'
  BY <1>13, <1>a DEF FinishRun, CanWrite, Goto, DriversTypeOK
<1>14. ASSUME NEW d \in Drivers, AutoRecover(d) PROVE DriversInv'
  BY <1>14, <1>a DEF AutoRecover, Goto, DriversTypeOK
<1>15. ASSUME NEW d \in Drivers, DriverCommits(d) PROVE DriversInv'
  BY <1>15, <1>a DEF DriverCommits, Commit, Goto, DriversTypeOK, RunStatus
<1>16. ASSUME NEW d \in Drivers, Raises(d) PROVE DriversInv'
  BY <1>16, <1>a DEF Raises, Goto, DriversTypeOK
<1>17. CASE WorkerRollsBack
  BY <1>17, <1>a DEF WorkerRollsBack, Rollback, Goto, DriversTypeOK
<1>18. CASE WorkerClosesRun
  BY <1>18, <1>a DEF WorkerClosesRun, CanWrite, Goto, DriversTypeOK, RunStatus
<1>19. CASE WorkerCloseFails
  BY <1>19, <1>a DEF WorkerCloseFails, Goto, DriversTypeOK
<1>20. CASE Crash
  BY <1>20, <1>a DEF Crash, DriversTypeOK
<1>21. CASE UNCHANGED driversVars
  BY <1>21 DEF driversVars, DriversTypeOK
<1> QED
  BY <1>1, <1>2, <1>3, <1>4, <1>5, <1>6, <1>7, <1>8, <1>9, <1>10, <1>11,
     <1>12, <1>13, <1>14, <1>15, <1>16, <1>17, <1>18, <1>19, <1>20, <1>21
  DEF DriversNext, Enter, Pass

LEMMA DriversAlways == DriversSpec => []DriversInv
  BY DriversBegin, DriversStep, PTL DEF DriversSpec

(* Committed rows, the lock and every driver's memory keep their types.    *)
THEOREM DriversTypeCorrect == DriversSpec => []DriversTypeOK
<1>1. DriversInv => DriversTypeOK
  BY DEF DriversInv
<1> QED
  BY <1>1, DriversAlways, PTL

(* A status that is written and not committed holds the row, for any number*)
(* of requests: no two drivers write the run's status in one another's     *)
(* transactions.                                                           *)
THEOREM PendingLocked == DriversSpec => []PendingStatusIsLocked
<1>1. DriversInv => PendingStatusIsLocked
  BY DEF DriversInv
<1> QED
  BY <1>1, DriversAlways, PTL

(* A pause is answered by one resume at a time, and stays committed as a   *)
(* pause until that resume commits or is rolled back.                      *)
THEOREM ResumeExclusive == DriversSpec => []ResumeIsExclusive
<1>1. DriversInv => ResumeIsExclusive
  BY DEF DriversInv, ResumeIsExclusive, PendingStatusIsLocked, Drivers
<1> QED
  BY <1>1, DriversAlways, PTL

(* Whatever is raised, rolled back or killed, the row is not left locked.  *)
THEOREM LockNotLeaked == DriversSpec => []LockIsNeverLeaked
<1>1. DriversInv => LockIsNeverLeaked
  BY DEF DriversInv
<1> QED
  BY <1>1, DriversAlways, PTL

=============================================================================
