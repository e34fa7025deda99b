------------------------------ MODULE StepRun ------------------------------
(***************************************************************************)
(* One planned step: _run_step of services/agent_runtime/runtime.py with   *)
(* the deterministic gate of completion_gate.py.  The executor is invoked, *)
(* what its tools observed is added to the evidence of the step, and a     *)
(* chain of checks whose order matters either closes the step (accepted,   *)
(* rescued, replanned, paused, failed) or invokes the executor once more.  *)
(* PevRun takes the outcome of a step as a choice; here it is computed.    *)
(*                                                                         *)
(* Evidence is kept as the set of facts the checks ask about; it only grows*)
(* while the step runs.  Branches that the deterministic gate cannot reach *)
(* any more are left out, see RetryMeansUnmet.                             *)
(***************************************************************************)
EXTENDS Naturals

CONSTANTS
  MaxReplans,     \* task.budget.max_replans
  FreshFacts,     \* what one executor invocation may bring to light
  NoFingerprint   \* no retry has been asked for yet


VARIABLES
  task,         \* what the caller fixed: the step's contract, the budgets
  pc,           \* where _run_step is
  evidence,     \* facts in the observations and artifacts gathered so far
  observations, \* how many tool observations: the progress fingerprint
  result,       \* what the last executor invocation returned
  verdict,      \* decision of the completion gate
  retries,      \* retries asked for by the gate
  lastRetry,    \* progress fingerprint of the previous retry
  invocations,  \* history: calls of executor.run
  outcome       \* how the step ended

gate == <<verdict, retries, lastRetry>>
vars == <<task, pc, evidence, observations, result, gate, invocations, outcome>>

-----------------------------------------------------------------------------
ConversionReasons == {"retry_contract_exhausted", "need_user_contract"}

Tasks ==
  [contract  : BOOLEAN,  \* every skill of the step declares a contract
   verify    : BOOLEAN,  \* _requires_verification
   routing   : BOOLEAN,  \* _is_intermediate_routing_step
   discovery : BOOLEAN,  \* pure discovery plan for an existence question
   replans   : 0..MaxReplans,
   used      : SUBSET ConversionReasons]

Facts ==
  {"deliverable",  \* observations or artifacts that satisfy the contract
   "stored",       \* a complete page among the step's rows only
   "routing",      \* a usable list of public URLs
   "zero_scan",    \* complete scan of an official source, nothing matches
   "blocked",      \* has_blocked_evidence: login, captcha, adapter errors..
   "external",     \* an error code that _is_external_terminal_code knows
   "forbidden",    \* tool_skill_forbidden
   "unknown_tool",
   "role_mismatch"}

ASSUME StepAssumption ==
  /\ MaxReplans \in Nat
  /\ FreshFacts \subseteq SUBSET Facts
  /\ NoFingerprint \notin Nat

Results ==
  [status  : {"succeeded", "needs_user", "failed"},
   error   : {"none", "wall_clock", "invalid_terminal", "other"},
   summary : {"missing", "blank", "text"}]

(* What the executor may return: an error code goes with a failure, and an *)
(* unparseable terminal answer also with a question; a success has a       *)
(* summary, though it may consist of blanks.                               *)
ExecutorResults ==
  {r \in Results :
     /\ r.status = "succeeded" => r.error = "none" /\ r.summary # "missing"
     /\ r.status = "needs_user" => r.error \in {"none", "invalid_terminal"}
     /\ r.status = "failed" => r.error # "none"}

NoResult == [status |-> "failed", error |-> "none", summary |-> "missing"]

ReplanReason ==
  ConversionReasons \cup {"tool_scope_conflict", "dependency_unavailable"}

PauseClass == {"source_block", "model_decision", "hard_stop"}

Open == [kind |-> "open", why |-> "none"]
Accepted == [kind |-> "succeeded", why |-> "gate"]
Rescued == [kind |-> "succeeded", why |-> "rescue"]
ZeroMatch == [kind |-> "zero_match", why |-> "rescue"]
Failed == [kind |-> "failed", why |-> "none"]
Replan(reason) == [kind |-> "replan", why |-> reason]
Paused(class) == [kind |-> "paused", why |-> class]

Outcomes ==
  {Open, Accepted, Rescued, ZeroMatch, Failed}
    \cup {Replan(reason) : reason \in ReplanReason}
    \cup {Paused(class) : class \in PauseClass}

-----------------------------------------------------------------------------
(* The deterministic contract (completion_evidence_diagnostics).           *)

(* contract_met: a zero scan is a deliverable of its discovery step. *)
ContractMet(ev) ==
  task.contract /\ ev \cap {"deliverable", "zero_scan"} # {}

(* Mutant: the error policy does not know the code. *)
NoBlockedEvidence(ev) == FALSE

HasBlockedEvidence(ev) == "blocked" \in ev

(* A blocked page beside a usable deliverable is partial coverage only. *)
Blocked(ev) == HasBlockedEvidence(ev) /\ ~ ContractMet(ev)

SummaryPresent == result.summary = "text"

GatePassed(ev) ==
  /\ SummaryPresent
  /\ task.contract => ContractMet(ev)
  /\ ~ Blocked(ev)

(* The gate also sees the pages persisted for the step. *)
WithStored(ev) == IF "stored" \in ev THEN ev \cup {"deliverable"} ELSE ev

RoutingContractMet(ev) == task.routing /\ "routing" \in ev

(* The observations are classified by the first code; external codes first *)
ObservedPauses ==
  IF "external" \in evidence THEN {"source_block"}
  ELSE IF observations = 0 THEN {"model_decision"}
  ELSE {"model_decision", "hard_stop"}

(* Mutant: the marker of an earlier conversion is not consulted. *)
MayConvertAgain(reason) == task.replans < MaxReplans

(* The contract-driven conversions: with budget left, once per run. *)
MayConvert(reason) ==
  /\ task.replans < MaxReplans
  /\ reason \notin task.used

-----------------------------------------------------------------------------
Init ==
  /\ task \in Tasks
  /\ pc = "invoking"
  /\ evidence = {}
  /\ observations = 0
  /\ result = NoResult
  /\ verdict = "none"
  /\ retries = 0
  /\ lastRetry = NoFingerprint
  /\ invocations = 0
  /\ outcome = Open

(* _run_step returns; its last result and verdict are gone. *)
Close(how) ==
  /\ outcome' = how
  /\ pc' = "closed"
  /\ result' = NoResult
  /\ verdict' = "none"
  /\ UNCHANGED <<task, evidence, observations, retries, lastRetry, invocations>>

-----------------------------------------------------------------------------
(* The executor and the runtime's own deterministic recoveries.            *)

(* A failed result whose contract the runtime's recovery completed; it gets*)
(* a summary if it has none.                                               *)
Repaired(r, recovered, ev) ==
  IF r.status = "failed" /\ recovered /\ ContractMet(ev) /\ ~ Blocked(ev)
  THEN [r EXCEPT !.status = "succeeded", !.error = "none",
                 !.summary = IF r.summary = "missing" THEN "text" ELSE @]
  ELSE r

(* fresh: what the new observations and the artifacts persisted from them  *)
(* say; without a new observation there is nothing new to say, except that *)
(* pages were stored for the step.                                         *)
Observe(fresh, observed) ==
  /\ fresh \subseteq {"stored"} \/ observed
  /\ "zero_scan" \in fresh => task.discovery
  /\ evidence' = evidence \cup fresh
  /\ observations' = observations + (IF observed THEN 1 ELSE 0)

ExecutorReturns(fresh, observed, recovered) ==
  /\ Observe(fresh, observed)
  /\ recovered => observed
  /\ \E r \in ExecutorResults : result' = Repaired(r, recovered, evidence')
  /\ invocations' = invocations + 1
  /\ pc' = "returned"
  /\ UNCHANGED <<task, gate, outcome>>

(* An invalid completion of the model pauses, another gateway error fails. *)
ExecutorRaises(how) ==
  /\ how \in {Paused("model_decision"), Failed}
  /\ Close(how)

-----------------------------------------------------------------------------
(* The checks before the gate, in the order of the code.                   *)

ZeroMatchProven ==
  task.discovery /\ "zero_scan" \in evidence /\ ~ Blocked(evidence)

ScopeForbidden == "forbidden" \in evidence

AtRouting ==
  /\ pc = "returned"
  /\ ~ ZeroMatchProven
  /\ ~ ScopeForbidden

ProveZeroMatch ==
  /\ pc = "returned"
  /\ ZeroMatchProven
  /\ Close(ZeroMatch)

ReplanScopeConflict ==
  /\ pc = "returned"
  /\ ~ ZeroMatchProven
  /\ ScopeForbidden
  /\ Close(Replan("tool_scope_conflict"))

(* A routing list is all an intermediate step owes: it is kept whether the *)
(* executor completed, asked the user or ran out of time.                  *)
RescueRouting ==
  /\ AtRouting
  /\ RoutingContractMet(evidence)
  /\ result.status # "failed" \/ result.error = "wall_clock"
  /\ Close(Rescued)

(* The executor asks for the user. *)
AtHandOff ==
  AtRouting /\ result.status = "needs_user" /\ ~ RoutingContractMet(evidence)

MustRediscover ==
  "role_mismatch" \in evidence /\ task.replans < MaxReplans

ReplanRoleMismatch ==
  /\ AtHandOff
  /\ MustRediscover
  /\ Close(Replan("dependency_unavailable"))

(* Mutant: an asking executor is believed to have delivered. *)
RescueHandOffUnchecked ==
  /\ AtHandOff
  /\ ~ MustRediscover
  /\ ~ Blocked(evidence)
  /\ Close(Rescued)

RescueHandOff ==
  /\ AtHandOff
  /\ ~ MustRediscover
  /\ ContractMet(evidence)
  /\ ~ Blocked(evidence)
  /\ Close(Rescued)

UnparseableUnmet ==
  /\ result.error = "invalid_terminal"
  /\ ~ Blocked(evidence)
  /\ MayConvert("retry_contract_exhausted")

ReplanUnparseable ==
  /\ AtHandOff
  /\ ~ MustRediscover
  /\ ~ ContractMet(evidence)
  /\ UnparseableUnmet
  /\ Close(Replan("retry_contract_exhausted"))

PauseHandOff(class) ==
  /\ AtHandOff
  /\ ~ MustRediscover
  /\ ~ ContractMet(evidence)
  /\ ~ UnparseableUnmet
  /\ class \in ObservedPauses
  /\ Close(Paused(class))

(* The executor failed. *)
AtFailure ==
  AtRouting /\ result.status = "failed"

PauseWallClock ==
  /\ AtFailure
  /\ result.error = "wall_clock"
  /\ ~ RoutingContractMet(evidence)
  /\ Close(Paused("model_decision"))

DeliveredUnparseable ==
  /\ result.error = "invalid_terminal"
  /\ ContractMet(evidence)
  /\ ~ Blocked(evidence)

RescueUnparseable ==
  /\ AtFailure
  /\ DeliveredUnparseable
  /\ Close(Rescued)

FailStep ==
  /\ AtFailure
  /\ result.error # "wall_clock"
  /\ ~ DeliveredUnparseable
  /\ Close(Failed)

-----------------------------------------------------------------------------
(* The executor completed and the step needs no verification.              *)

AtCompletion ==
  AtRouting /\ result.status = "succeeded" /\ ~ RoutingContractMet(evidence)

GateRejected == task.contract /\ ~ GatePassed(evidence)

AcceptUnverified ==
  /\ AtCompletion
  /\ ~ task.verify
  /\ ~ GateRejected
  /\ Close(Accepted)

MayRebuild ==
  ~ Blocked(evidence) /\ MayConvert("retry_contract_exhausted")

ReplanRejected ==
  /\ AtCompletion
  /\ ~ task.verify
  /\ GateRejected
  /\ MayRebuild
  /\ Close(Replan("retry_contract_exhausted"))

(* Built without the observations: the pause is never stamped as blocked. *)
PauseRejected ==
  /\ AtCompletion
  /\ ~ task.verify
  /\ GateRejected
  /\ ~ MayRebuild
  /\ Close(Paused("model_decision"))

-----------------------------------------------------------------------------
(* The completion gate.                                                    *)

(* Mutant: the summary is looked at before the evidence. *)
DecisionSummaryFirst(ev) ==
  IF GatePassed(ev) THEN "PASS"
  ELSE IF ContractMet(ev) /\ ~ SummaryPresent THEN "RETRY_EXECUTOR"
  ELSE IF HasBlockedEvidence(ev) THEN "NEED_USER"
  ELSE "RETRY_EXECUTOR"

Decision(ev) ==
  IF GatePassed(ev) THEN "PASS"
  ELSE IF HasBlockedEvidence(ev) THEN "NEED_USER"
  ELSE IF ContractMet(ev) /\ ~ SummaryPresent THEN "NEED_USER"
  ELSE "RETRY_EXECUTOR"

(* evaluate_completion_gate; the deadline may have passed. *)
EvaluateGate(expired) ==
  /\ AtCompletion
  /\ task.verify
  /\ verdict' = IF expired THEN "FAIL" ELSE Decision(WithStored(evidence))
  /\ pc' = "judged"
  /\ UNCHANGED <<task, evidence, observations, result, retries, lastRetry,
                 invocations, outcome>>

Judged(decision) == pc = "judged" /\ verdict = decision

RescueExpired ==
  /\ Judged("FAIL")
  /\ ContractMet(evidence)
  /\ ~ Blocked(evidence)
  /\ Close(Rescued)

PauseExpired ==
  /\ Judged("FAIL")
  /\ ~ ContractMet(evidence) \/ Blocked(evidence)
  /\ Close(Paused("model_decision"))

AcceptVerified ==
  /\ Judged("PASS")
  /\ GatePassed(evidence)
  /\ Close(Accepted)

(* The contract holds only together with the step's persisted pages. *)
RescueStored ==
  /\ Judged("PASS")
  /\ ~ GatePassed(evidence)
  /\ Close(Rescued)

Delivered == ContractMet(evidence) /\ ~ Blocked(evidence)

ReplanNeedUser ==
  /\ Judged("NEED_USER")
  /\ Delivered
  /\ MayConvert("need_user_contract")
  /\ Close(Replan("need_user_contract"))

PauseNeedUser(class) ==
  /\ Judged("NEED_USER")
  /\ ~ (Delivered /\ MayConvert("need_user_contract"))
  /\ class \in ObservedPauses
  /\ Close(Paused(class))

-----------------------------------------------------------------------------
(* The gate asks for a retry.                                              *)

(* The fingerprint lists the observations, and the list only grows. *)
NoProgress == lastRetry = observations

(* Mutant: the stall is noticed, and the loop goes round without a return. *)
PauseStalledSpins ==
  /\ Judged("RETRY_EXECUTOR")
  /\ NoProgress
  /\ UNCHANGED vars

PauseStalled ==
  /\ Judged("RETRY_EXECUTOR")
  /\ NoProgress
  /\ Close(Paused("model_decision"))

ReplanUnknownTool ==
  /\ Judged("RETRY_EXECUTOR")
  /\ ~ NoProgress
  /\ "unknown_tool" \in evidence
  /\ Close(Replan("tool_scope_conflict"))

(* Mutant: the counter is compared before it is incremented. *)
MayRetryOnceMore == retries <= MaxReplans

MayRetry == retries + 1 <= MaxReplans

(* Mutant: the fingerprint of the retry is not remembered. *)
RetryWithoutFingerprint ==
  /\ Judged("RETRY_EXECUTOR")
  /\ ~ NoProgress
  /\ "unknown_tool" \notin evidence
  /\ MayRetry
  /\ lastRetry' = lastRetry
  /\ retries' = retries + 1
  /\ verdict' = "none"
  /\ pc' = "invoking"
  /\ UNCHANGED <<task, evidence, observations, result, invocations, outcome>>

Retry ==
  /\ Judged("RETRY_EXECUTOR")
  /\ ~ NoProgress
  /\ "unknown_tool" \notin evidence
  /\ MayRetry
  /\ lastRetry' = observations
  /\ retries' = retries + 1
  /\ verdict' = "none"
  /\ pc' = "invoking"
  /\ UNCHANGED <<task, evidence, observations, result, invocations, outcome>>

PauseExhausted ==
  /\ Judged("RETRY_EXECUTOR")
  /\ ~ NoProgress
  /\ "unknown_tool" \notin evidence
  /\ ~ MayRetry
  /\ Close(Paused("model_decision"))

-----------------------------------------------------------------------------
Execute ==
  /\ pc = "invoking"
  /\ \/ \E fresh \in FreshFacts, observed, recovered \in BOOLEAN :
          ExecutorReturns(fresh, observed, recovered)
     \/ \E how \in Outcomes : ExecutorRaises(how)

Route ==
  \/ ProveZeroMatch
  \/ ReplanScopeConflict
  \/ RescueRouting
  \/ ReplanRoleMismatch
  \/ RescueHandOff
  \/ ReplanUnparseable
  \/ \E class \in PauseClass : PauseHandOff(class)
  \/ PauseWallClock
  \/ RescueUnparseable
  \/ FailStep
  \/ AcceptUnverified
  \/ ReplanRejected
  \/ PauseRejected

Judge ==
  \/ \E expired \in BOOLEAN : EvaluateGate(expired)
  \/ RescueExpired
  \/ PauseExpired
  \/ AcceptVerified
  \/ RescueStored
  \/ ReplanNeedUser
  \/ \E class \in PauseClass : PauseNeedUser(class)
  \/ PauseStalled
  \/ ReplanUnknownTool
  \/ Retry
  \/ PauseExhausted

Next == Execute \/ Route \/ Judge

Spec == Init /\ [][Next]_vars

(* The step is straight-line code around executor.run, which is bounded by *)
(* the turn, tool and model budgets and by the deadline.                   *)
FairSpec == Spec /\ WF_vars(Next)

-----------------------------------------------------------------------------
(* Every variable keeps its shape, and the gate asks for no more retries   *)
(* than the replan budget of the task.                                     *)
TypeOK ==
  /\ task \in Tasks
  /\ pc \in {"invoking", "returned", "judged", "closed"}
  /\ evidence \subseteq Facts
  /\ observations \in Nat
  /\ result \in Results \cup {NoResult}
  /\ verdict \in {"none", "PASS", "RETRY_EXECUTOR", "NEED_USER", "FAIL"}
  /\ retries \in 0..MaxReplans
  /\ lastRetry \in Nat \cup {NoFingerprint}
  /\ invocations \in Nat
  /\ outcome \in Outcomes

(* Whichever of the acceptances, rescues and repairs closes a step that    *)
(* declares a contract, tool-backed evidence meets the contract, or the    *)
(* step only owed a routing list and has it: a summary, a question or a    *)
(* timeout of the model never completes a step by itself (runtime.py       *)
(* 1182-1210, 1251-1310, 1383-1420, 1474-1526, 1549-1636).                 *)
SucceededStepIsBacked ==
  outcome.kind \in {"succeeded", "zero_match"} /\ task.contract =>
    ContractMet(WithStored(evidence)) \/ RoutingContractMet(evidence)

(* Four places convert a step into a replan because of its contract; none  *)
(* does so without budget or a second time in a run, which is what lets    *)
(* PevRun bound the replans of a run (replan_state.conversion_used).       *)
ConversionsAreAllowed ==
  outcome.kind = "replan" /\ outcome.why \in ConversionReasons =>
    task.replans < MaxReplans /\ outcome.why \notin task.used

(* The executor is invoked again only within the retry budget, and after   *)
(* the first retry only if the previous invocation observed something new. *)
InvocationsAreEarned ==
  /\ invocations <= MaxReplans + 1
  /\ invocations <= observations + 2

(* When the gate asks for a retry, nothing usable was delivered and no     *)
(* access control is in the way.  So the branches of the retry path that   *)
(* ask for a blocked or for a met contract (runtime.py 1671-1711 and       *)
(* 1772-1792) cannot be reached, and this model leaves them out.           *)
RetryMeansUnmet ==
  pc = "judged" /\ verdict = "RETRY_EXECUTOR" =>
    /\ ~ (ContractMet(evidence) /\ ~ Blocked(evidence))
    /\ "blocked" \notin evidence

(* The harness never invokes the executor again around an access control   *)
(* (completion_gate.py 65-71), whatever else the evidence contains.        *)
BlockedIsNeverRetried ==
  [][pc = "judged" /\ pc' = "invoking" => "blocked" \notin evidence]_vars

(* The chain of checks is total: a step that started ends in an outcome.   *)
StepEnds == <>(pc = "closed")

(* Documented, violated: an automatic recovery is never for blocked        *)
(* sources (runtime.py 470), so a pause over evidence that is blocked      *)
(* would have to say so.                                                   *)
BlockedPauseIsStamped ==
  outcome.kind = "paused" /\ Blocked(evidence) =>
    outcome.why # "model_decision"

(* Documented, violated: "this helper never auto-passes a blocked step"    *)
(* (_rescue_step_succeeded, runtime.py 3110-3111).                         *)
BlockedStepIsNotRescued == outcome = Rescued => ~ Blocked(evidence)

=============================================================================
