---------------------------- MODULE PlannerLoop ----------------------------
(***************************************************************************)
(* The planner of a run and the budgets it spends: PlannerAgent.run, the   *)
(* model gateway that it asks (LangChainModelGateway.decide and its local  *)
(* recoveries), ModelCallBudget, AgentTurnBudget and ToolCallBudget, and   *)
(* what is stored of them, from which the next pass over the run rebuilds  *)
(* them (_run_once).                                                       *)
(*                                                                         *)
(* One decision of the planner may take several requests to the provider:  *)
(* a structured one, and up to three that ask for plain JSON.  Only the    *)
(* decision is stored, as a turn, with the usage of its last request.      *)
(***************************************************************************)
EXTENDS Naturals, Sequences, FiniteSets

CONSTANTS
  MaxRequests,   \* requests to the provider
  MaxInput,      \* input tokens
  MaxTurns,      \* turns: decisions of the model
  MaxTools,      \* tool calls
  MaxFixes,      \* _MAX_INVALID_PLAN_RETRIES
  MaxAttempts,   \* attempts of _decide_with_local_json_retry
  MaxEstimate,   \* bound: tokens of one request, estimated or measured
  MaxSteps,      \* bound: steps of a proposed plan
  MaxPasses,     \* bound: passes over the run
  Goals          \* the tasks considered

ASSUME PlannerAssumption ==
  /\ {MaxRequests, MaxInput, MaxTurns, MaxTools, MaxAttempts, MaxEstimate,
      MaxPasses} \subseteq Nat \ {0}
  /\ {MaxFixes, MaxSteps} \subseteq Nat

Skills == {"discovery", "matching", "tailoring"}

\* A step has one skill, and may declare the artifact it leaves.
Steps == [skill : Skills, declares : BOOLEAN]
Plans == UNION {[1..n -> Steps] : n \in 0..MaxSteps}

\* What the goal asks for, what the run allows, and whether the goal is about
\* jobs that were already collected and are supplied as candidate URLs.
Tasks == [wants : SUBSET {"matching", "tailoring"}, allowed : (SUBSET Skills) \ {{}},
          collected : BOOLEAN]

ASSUME GoalsAssumption == Goals \subseteq Tasks

VARIABLES
  task,     \* the goal and its authority
  passes,   \* passes begun
  at,       \* where the pass is
  budget,   \* the budgets in memory
  loop,     \* the planner's loop: turn, corrections asked for
  call,     \* the decision under way: kind of request, attempt, last usage
  result,   \* outcome of the planner
  stored,   \* the turns of the run: how many, of which tool calls, tokens
  spent     \* requests sent in the run and in the pass, and those that the
            \* pass began with (history)

vars == <<task, passes, at, budget, loop, call, result, stored, spent>>

Kinds == {"structured", "unstructured", "retry"}
Outcomes == {"none", "planned", "needs_user", "failed"}

TypeOK ==
  /\ task \in Goals
  /\ passes \in 0..MaxPasses
  /\ at \in {"rest", "turn", "ask", "wait", "decided", "act"}
  /\ budget \in [requests : 0..MaxRequests, reserved : 0..MaxEstimate,
                 active : 0..MaxEstimate, input : Nat,
                 turns : Nat, tools : Nat]
  /\ loop \in [turn : 0..MaxTurns, nags : 0..1, fixes : 0..MaxFixes]
  /\ call \in [kind : Kinds, attempt : 0..MaxAttempts, usage : 0..MaxEstimate,
               action : {"none", "call_tool", "plan", "need_user"}]
  /\ result.status \in Outcomes /\ result.plan \in Seq(Steps)
  /\ stored \in [turns : Nat, tools : Nat, input : Nat]
  /\ spent \in [requests : Nat, pass : Nat, base : Nat]

Empty == [requests |-> 0, reserved |-> 0, active |-> 0, input |-> 0, turns |-> 0, tools |-> 0]
NoLoop == [turn |-> 0, nags |-> 0, fixes |-> 0]
NoCall == [kind |-> "structured", attempt |-> 0, usage |-> 0, action |-> "none"]
NoResult == [status |-> "none", plan |-> <<>>]

Init ==
  /\ task \in Goals
  /\ passes = 0 /\ at = "rest"
  /\ budget = Empty /\ loop = NoLoop /\ call = NoCall /\ result = NoResult
  /\ stored = [turns |-> 0, tools |-> 0, input |-> 0]
  /\ spent = [requests |-> 0, pass |-> 0, base |-> 0]

----------------------------------------------------------------------------
(* Plans.                                                                  *)

Positions(p, skill) == {i \in 1..Len(p) : p[i].skill = skill}
HasSkill(p, skill) == Positions(p, skill) # {}
Prefix(p, n) == SubSeq(p, 1, n)

\* validate_plan_authority and _validate_collected_goal_deliverables.
Authorised(t, p) ==
  /\ \A i \in 1..Len(p) : p[i].skill \in t.allowed
  /\ t.collected => \E i \in 1..Len(p) : p[i].skill # "discovery"

Unrequested(t, p, i) ==
  \/ p[i].skill = "tailoring" /\ "tailoring" \notin t.wants
  \/ /\ p[i].skill = "matching" /\ "matching" \notin t.wants
     /\ \E j \in 1..i - 1 : p[j].skill = "discovery"

\* A matching step nobody asked for takes all that follows with it; then
\* unrequested steps go from the end.
CutAt(t, p) == {i \in 2..Len(p) : p[i].skill = "matching" /\ Unrequested(t, p, i)}

Trim(t, p) ==
  LET cut == IF CutAt(t, p) = {} THEN p
             ELSE Prefix(p, (CHOOSE i \in CutAt(t, p) : \A j \in CutAt(t, p) : i <= j) - 1)
      keep == {i \in 1..Len(cut) : ~Unrequested(t, cut, i)}
  IN IF keep = {} THEN <<>> ELSE Prefix(cut, CHOOSE i \in keep : \A j \in keep : j <= i)

\* The resume is added if the goal asks for it and evidence will be there.
TailorStep == [skill |-> "tailoring", declares |-> TRUE]

Completed(t, p) ==
  IF /\ "tailoring" \in t.wants \cap t.allowed
     /\ ~HasSkill(p, "tailoring")
     /\ \E i \in 1..Len(p) : p[i].declares
  THEN Append(p, TailorStep)
  ELSE p

\* _build_seeded_career_fallback: none, or a plan of declared steps.
Fallback(t) ==
  LET step(skill) == IF skill \in t.wants \cap t.allowed
                     THEN <<[skill |-> skill, declares |-> TRUE]>> ELSE <<>>
      p == <<[skill |-> "discovery", declares |-> TRUE]>> \o step("matching") \o step("tailoring")
  IN IF "discovery" \in t.allowed /\ Authorised(t, p) THEN {p} ELSE {}

\* What the valid proposals of the model become.
Repaired ==
  [t \in Goals |-> {Completed(t, Trim(t, p)) :
                     p \in {q \in Plans : q # <<>> /\ Authorised(t, q)}}]

----------------------------------------------------------------------------
(* A pass begins and ends.                                                 *)

\* What is stored limits the pass: one request for each turn, the tokens of
\* its last usage.
Starts ==
  /\ at = "rest" /\ result.status \in {"none", "needs_user"}
  /\ passes < MaxPasses
  /\ passes' = passes + 1
  /\ budget' = [Empty EXCEPT !.requests = stored.turns, !.input = stored.input,
                             !.turns = stored.turns, !.tools = stored.tools]
  /\ spent' = [spent EXCEPT !.pass = 0, !.base = stored.turns]
  /\ at' = "turn" /\ loop' = NoLoop /\ call' = NoCall /\ result' = NoResult
  /\ UNCHANGED <<task, stored>>

Ends(status, plan) ==
  /\ result' = [status |-> status, plan |-> plan]
  /\ at' = "rest"
  /\ budget' = Empty /\ loop' = NoLoop /\ call' = NoCall

Fails == Ends("failed", <<>>)

\* The runtime tries the fallback when the model's answers stay invalid, as
\* the planner does for its plans.
FallsBack ==
  IF Fallback(task) = {} THEN Ends("needs_user", <<>>)
  ELSE \E p \in Fallback(task) : Ends("planned", p)

\* The process stops; what is in memory is lost.
Crashes ==
  /\ at # "rest"
  /\ at' = "rest" /\ budget' = Empty /\ loop' = NoLoop /\ call' = NoCall
  /\ UNCHANGED <<task, passes, result, stored, spent>>

----------------------------------------------------------------------------
(* The loop of the planner.                                                *)

\* The deadline, the turns of the loop or those of the run are used up.
Stops ==
  /\ at = "turn"
  /\ \/ Ends("needs_user", <<>>)      \* deadline: the runtime pauses
     \/ (loop.turn = MaxTurns \/ budget.turns >= MaxTurns) /\ Fails
  /\ UNCHANGED <<task, passes, stored, spent>>

TakesTurn ==
  /\ at = "turn"
  /\ loop.turn < MaxTurns /\ budget.turns < MaxTurns
  /\ budget' = [budget EXCEPT !.turns = @ + 1]
  /\ at' = "ask" /\ call' = NoCall
  /\ UNCHANGED <<task, passes, loop, result, stored, spent>>

Again(l) ==
  /\ loop' = [l EXCEPT !.turn = @ + 1]
  /\ at' = "turn" /\ call' = NoCall
  /\ UNCHANGED result

----------------------------------------------------------------------------
(* The gateway.                                                            *)

\* Mutant: only the requests are limited.
FitsRequests(e) == budget.requests < MaxRequests

Fits(e) ==
  /\ budget.requests < MaxRequests
  /\ budget.input + budget.reserved + e <= MaxInput

\* try_reserve, with an estimate of the prompt; a request is counted when it
\* is sent, whatever becomes of it.
Reserves ==
  /\ at = "ask"
  /\ \E e \in 1..MaxEstimate :
       \/ /\ Fits(e)
          /\ budget' = [budget EXCEPT !.requests = @ + 1, !.reserved = @ + e, !.active = e]
          /\ spent' = [spent EXCEPT !.requests = @ + 1, !.pass = @ + 1]
          /\ at' = "wait"
          /\ UNCHANGED <<loop, call, result>>
       \/ ~Fits(e) /\ Fails /\ UNCHANGED spent
  /\ UNCHANGED <<task, passes, stored>>

\* Mutant: a failed request gives nothing back.
Kept == [budget EXCEPT !.active = 0]

Released == [budget EXCEPT !.reserved = @ - budget.active, !.active = 0]

AsksAgain(kind, attempt) ==
  /\ at' = "ask"
  /\ call' = [call EXCEPT !.kind = kind, !.attempt = attempt]
  /\ UNCHANGED <<loop, result>>

\* The provider raises: cancel.  A provider without response_format is asked
\* once for plain JSON; any other error ends the run.
Raises ==
  /\ at = "wait"
  /\ \/ /\ call.kind = "structured"
        /\ budget' = Released
        /\ AsksAgain("unstructured", 0)
     \/ Fails
  /\ UNCHANGED <<task, passes, stored, spent>>

\* The provider answers, with or without usage: record counts the larger of
\* estimate and measure.  0 stands for no usage.
Charge(usage) == IF usage > budget.active THEN usage ELSE budget.active

WithinLimits(input) == input <= MaxInput

\* A valid answer, maybe after a repair of its fields.
Valid(usage) ==
  /\ at' = "decided"
  /\ call' = [call EXCEPT !.usage = usage]
  /\ UNCHANGED <<loop, result>>

\* Mutant: attempts are not counted.
CanRetryAlways == call.kind # "unstructured"

CanRetry == call.kind = "structured" \/ (call.kind = "retry" /\ call.attempt < MaxAttempts)

Answers ==
  /\ at = "wait"
  /\ \E usage \in 0..MaxEstimate :
       LET input == budget.input + Charge(usage) IN
       \/ ~WithinLimits(input) /\ Fails
       \/ /\ WithinLimits(input)
          /\ budget' = [Released EXCEPT !.input = input]
          /\ Valid(usage) \/ (CanRetry /\ AsksAgain("retry", call.attempt + 1))
       \/ WithinLimits(input) /\ ~CanRetry /\ FallsBack
  /\ UNCHANGED <<task, passes, stored, spent>>

----------------------------------------------------------------------------
(* Decisions.                                                              *)

\* The turn is committed with the usage of the last request alone.
Decides ==
  /\ at = "decided"
  /\ \E action \in {"call_tool", "plan", "need_user"} :
       /\ call' = [call EXCEPT !.action = action]
       /\ stored' = [turns |-> stored.turns + 1, input |-> stored.input + call.usage,
                     tools |-> stored.tools + (IF action = "call_tool" THEN 1 ELSE 0)]
  /\ at' = "act"
  /\ UNCHANGED <<task, passes, budget, loop, result, spent>>

\* Whatever the tool answers is an observation of the next turn.
CallsTool ==
  /\ at = "act" /\ call.action = "call_tool"
  /\ IF budget.tools >= MaxTools
     THEN Fails
     ELSE Again(loop) /\ budget' = [budget EXCEPT !.tools = @ + 1]
  /\ UNCHANGED <<task, passes, stored, spent>>

HasTurnLeft == loop.turn < MaxTurns - 1

\* A plan may also fail the validators of its structure and of its ports;
\* the model is told twice what to correct.
Rejects ==
  /\ at = "act" /\ call.action = "plan"
  /\ IF loop.fixes < MaxFixes /\ HasTurnLeft
     THEN Again([loop EXCEPT !.fixes = @ + 1]) /\ UNCHANGED budget
     ELSE FallsBack
  /\ UNCHANGED <<task, passes, stored, spent>>

\* Mutant: the plan is handed over as it was trimmed.
Unchecked(p) == TRUE

\* Building the result runs the validator of the plan again; the length of
\* its steps is not looked at.
Revalidated(p) == Authorised(task, p)

Accepts ==
  /\ at = "act" /\ call.action = "plan"
  /\ \E p \in Repaired[task] : IF Revalidated(p) THEN Ends("planned", p) ELSE FallsBack
  /\ UNCHANGED <<task, passes, stored, spent>>

\* The first question is turned down while there are tools and turns left.
AsksUser ==
  /\ at = "act" /\ call.action = "need_user"
  /\ IF loop.nags < 1 /\ HasTurnLeft
     THEN Again([loop EXCEPT !.nags = @ + 1]) /\ UNCHANGED budget
     ELSE Ends("needs_user", <<>>)
  /\ UNCHANGED <<task, passes, stored, spent>>

Next == Starts \/ Crashes \/ TakesTurn \/ Stops \/ Reserves \/ Raises \/ Answers
          \/ Decides \/ CallsTool \/ Rejects \/ Accepts \/ AsksUser

Spec == Init /\ [][Next]_vars

----------------------------------------------------------------------------
(* Properties.                                                             *)

\* Between requests nothing is reserved, and the requests of a pass are
\* those counted on its budget, the failed ones included (docstrings of
\* cancel and _invoke_physical).
RequestsAreCounted ==
  at # "rest" =>
    /\ budget.reserved = budget.active
    /\ budget.active # 0 <=> at = "wait"
    /\ budget.requests = spent.base + spent.pass

\* A request is sent only while the tokens charged so far leave room for its
\* estimate: of all the answers of a pass only the last may exceed the ceiling.
NoneBeyondCeiling ==
  [][spent'.requests > spent.requests => budget.input < MaxInput]_vars

\* A plan that is handed over stays in the run's authority, serves a goal on
\* collected jobs, contains the resume if the goal asks for it, it is allowed
\* and evidence is declared, and ends with nothing that nobody asked for.
PlansServeTheGoal ==
  result.status = "planned" =>
    LET p == result.plan IN
    /\ Authorised(task, p)
    /\ "tailoring" \in task.wants \cap task.allowed /\ (\E i \in 1..Len(p) : p[i].declares)
         => HasSkill(p, "tailoring")
    /\ p # <<>> => ~Unrequested(task, p, Len(p))

\* "Budget already consumed does not become available again by a restart"
\* (README.md): what the pass has left is what the run has not sent.
SpentStaysSpent == at # "rest" => spent.requests <= budget.requests

\* steps: Field(min_length=1) (ExecutionPlan).
PlansHaveSteps == result.status = "planned" => result.plan # <<>>
=============================================================================
