------------------------- MODULE PlannerLoopProofs -------------------------
(***************************************************************************)
(* Proofs about the planner, for any ceilings and any goals: requests are  *)
(* counted, none is sent once the tokens are spent, what a later pass over *)
(* the run starts with is within the ceiling, and a plan that is handed    *)
(* over serves the goal however it was trimmed, completed or made up.  The *)
(* planner of a pass comes to an end.                                      *)
(***************************************************************************)
EXTENDS PlannerLoop, SequenceTheorems, WellFoundedInduction, TLAPS

\* The types of what is counted.
CountersOK ==
  /\ at \in {"rest", "turn", "ask", "wait", "decided", "act"}
  /\ budget \in [requests : Nat, reserved : Nat, active : Nat, input : Nat,
                 turns : Nat, tools : Nat]
  /\ call \in [kind : Kinds, attempt : Nat, usage : Nat,
               action : {"none", "call_tool", "plan", "need_user"}]
  /\ stored \in [turns : Nat, tools : Nat, input : Nat]
  /\ spent \in [requests : Nat, pass : Nat, base : Nat]

\* Each stored turn took a request that is on the budget; the answer at hand is
\* one that no turn stands for yet.
TurnsTookRequests ==
  /\ stored.turns <= MaxRequests
  /\ at # "rest" =>
       /\ budget.requests <= MaxRequests
       /\ stored.turns <= budget.requests
       /\ at \in {"wait", "decided"} => stored.turns < budget.requests

IInv == CountersOK /\ RequestsAreCounted /\ TurnsTookRequests

\* A pass that begins has budgets of the type.
LEMMA EmptyOK == Empty \in [requests : Nat, reserved : Nat, active : Nat, input : Nat,
                            turns : Nat, tools : Nat]
  BY DEF Empty

\* So is the absence of a decision under way.
LEMMA NoCallOK == NoCall \in [kind : Kinds, attempt : Nat, usage : Nat,
                              action : {"none", "call_tool", "plan", "need_user"}]
  BY DEF NoCall, Kinds

\* A pass that ends leaves the invariant to what is stored.
LEMMA EndsKeeps ==
  ASSUME IInv, at' = "rest", budget' = Empty, call' = NoCall,
         stored' = stored, spent' = spent
  PROVE  IInv'
<1>1. CountersOK'
  BY EmptyOK, NoCallOK DEF IInv, CountersOK
<1> QED
  BY <1>1 DEF IInv, RequestsAreCounted, TurnsTookRequests

\* The fall-back of a goal on collected jobs ends the pass.
LEMMA FallsBackEnds ==
  ASSUME FallsBack
  PROVE  at' = "rest" /\ budget' = Empty /\ call' = NoCall
  BY DEF FallsBack, Ends

\* A turn of the loop begins again with nothing under way.
LEMMA AgainKeeps ==
  ASSUME IInv, at = "act", at' = "turn", call' = NoCall,
         NEW n \in Nat, budget' = budget \/ budget' = [budget EXCEPT !.tools = n],
         stored' = stored, spent' = spent
  PROVE  IInv'
<1>1. /\ budget'.requests = budget.requests /\ budget'.reserved = budget.reserved
      /\ budget'.active = budget.active
      /\ budget' \in [requests : Nat, reserved : Nat, active : Nat, input : Nat,
                      turns : Nat, tools : Nat]
  BY DEF IInv, CountersOK
<1>2. CountersOK'
  BY <1>1, NoCallOK DEF IInv, CountersOK
<1> QED
  BY <1>1, <1>2 DEF IInv, RequestsAreCounted, TurnsTookRequests

\* At the start no pass has begun and nothing is stored.
LEMMA InitIInv == Init => IInv
  BY EmptyOK, NoCallOK, PlannerAssumption
  DEF Init, IInv, CountersOK, RequestsAreCounted, TurnsTookRequests

\* Every action keeps the invariant.
LEMMA Preserved == IInv /\ [Next]_vars => IInv'
<1> SUFFICES ASSUME IInv, Next PROVE IInv'
  <2> CASE UNCHANGED vars
    BY DEF IInv, CountersOK, RequestsAreCounted, TurnsTookRequests, vars
  <2> QED
    OBVIOUS
<1>t. CountersOK /\ RequestsAreCounted /\ TurnsTookRequests
  BY DEF IInv
<1>1. CASE Starts
  <2>1. /\ budget' = [Empty EXCEPT !.requests = stored.turns, !.input = stored.input,
                                   !.turns = stored.turns, !.tools = stored.tools]
        /\ spent' = [spent EXCEPT !.pass = 0, !.base = stored.turns]
        /\ at' = "turn" /\ call' = NoCall /\ stored' = stored
    BY <1>1 DEF Starts
  <2>2. /\ budget' \in [requests : Nat, reserved : Nat, active : Nat, input : Nat,
                        turns : Nat, tools : Nat]
        /\ budget'.requests = stored.turns /\ budget'.reserved = 0 /\ budget'.active = 0
    BY <2>1, <1>t DEF CountersOK, Empty
  <2>3. spent' \in [requests : Nat, pass : Nat, base : Nat]
        /\ spent'.pass = 0 /\ spent'.base = stored.turns
    BY <2>1, <1>t DEF CountersOK
  <2>4. CountersOK'
    BY <2>1, <2>2, <2>3, <1>t, NoCallOK DEF CountersOK
  <2> QED
    BY <2>1, <2>2, <2>3, <2>4, <1>t
    DEF IInv, CountersOK, RequestsAreCounted, TurnsTookRequests
<1>2. CASE Crashes
  BY <1>2, EndsKeeps DEF Crashes
<1>3. CASE TakesTurn
  <2>1. /\ at = "turn" /\ at' = "ask" /\ call' = NoCall /\ stored' = stored /\ spent' = spent
        /\ budget' = [budget EXCEPT !.turns = @ + 1]
    BY <1>3 DEF TakesTurn
  <2>2. /\ budget'.requests = budget.requests /\ budget'.reserved = budget.reserved
        /\ budget'.active = budget.active
        /\ budget' \in [requests : Nat, reserved : Nat, active : Nat, input : Nat,
                        turns : Nat, tools : Nat]
    BY <2>1, <1>t DEF CountersOK
  <2>3. CountersOK'
    BY <2>1, <2>2, <1>t, NoCallOK DEF CountersOK
  <2> QED
    BY <2>1, <2>2, <2>3, <1>t DEF IInv, RequestsAreCounted, TurnsTookRequests
<1>4. CASE Stops
  BY <1>4, EndsKeeps DEF Stops, Fails, Ends
<1>5. CASE Reserves
  <2>1. CASE at' = "rest"
    BY <1>5, <2>1, EndsKeeps DEF Reserves, Fails, Ends
  <2>2. CASE at' # "rest"
    <3>1. PICK e \in 1..MaxEstimate :
            /\ at = "ask" /\ Fits(e) /\ at' = "wait" /\ call' = call /\ stored' = stored
            /\ budget' = [budget EXCEPT !.requests = @ + 1, !.reserved = @ + e, !.active = e]
            /\ spent' = [spent EXCEPT !.requests = @ + 1, !.pass = @ + 1]
      BY <1>5, <2>2 DEF Reserves, Fails, Ends
    <3>2. e \in Nat /\ e # 0 /\ MaxRequests \in Nat
      BY PlannerAssumption
    <3>3. /\ budget'.requests = budget.requests + 1 /\ budget'.active = e
          /\ budget'.reserved = budget.reserved + e
          /\ budget' \in [requests : Nat, reserved : Nat, active : Nat, input : Nat,
                          turns : Nat, tools : Nat]
      <4>1. budget' = [requests |-> budget.requests + 1, reserved |-> budget.reserved + e,
                       active |-> e, input |-> budget.input, turns |-> budget.turns,
                       tools |-> budget.tools]
        BY <3>1, <1>t DEF CountersOK
      <4> QED
        BY <4>1, <3>2, <1>t DEF CountersOK
    <3>4. /\ spent' \in [requests : Nat, pass : Nat, base : Nat]
          /\ spent'.pass = spent.pass + 1 /\ spent'.base = spent.base
      <4>1. spent' = [requests |-> spent.requests + 1, pass |-> spent.pass + 1,
                      base |-> spent.base]
        BY <3>1, <1>t DEF CountersOK
      <4> QED
        BY <4>1, <1>t DEF CountersOK
    <3>5. CountersOK'
      BY <3>1, <3>3, <3>4, <1>t DEF CountersOK
    <3>6. /\ budget.reserved = 0 /\ budget.requests = spent.base + spent.pass
          /\ budget.requests \in Nat /\ spent.base \in Nat /\ spent.pass \in Nat
          /\ budget.requests < MaxRequests /\ stored.turns <= budget.requests
          /\ stored.turns \in Nat
      BY <3>1, <1>t DEF CountersOK, RequestsAreCounted, TurnsTookRequests, Fits
    <3> QED
      BY <3>1, <3>2, <3>3, <3>4, <3>5, <3>6 DEF IInv, RequestsAreCounted, TurnsTookRequests
  <2> QED
    BY <2>1, <2>2
<1>6. ASSUME at = "wait", at' \in {"ask", "decided"}, NEW i \in Nat,
             budget' = [Released EXCEPT !.input = i], stored' = stored, spent' = spent,
             call' \in [kind : Kinds, attempt : Nat, usage : Nat,
                        action : {"none", "call_tool", "plan", "need_user"}]
      PROVE  IInv'
  <2>1. budget.reserved = budget.active
    BY <1>6, <1>t DEF RequestsAreCounted
  <2>2. /\ budget'.requests = budget.requests /\ budget'.active = 0 /\ budget'.reserved = 0
        /\ budget' \in [requests : Nat, reserved : Nat, active : Nat, input : Nat,
                        turns : Nat, tools : Nat]
    <3>1. budget' = [requests |-> budget.requests, reserved |-> budget.reserved - budget.active,
                     active |-> 0, input |-> i, turns |-> budget.turns, tools |-> budget.tools]
      BY <1>6, <1>t DEF CountersOK, Released
    <3>2. budget.reserved - budget.active = 0
      BY <2>1, <1>t DEF CountersOK
    <3> QED
      BY <3>1, <3>2, <1>6, <1>t DEF CountersOK
  <2>3. CountersOK'
    BY <1>6, <2>2, <1>t DEF CountersOK
  <2> QED
    BY <1>6, <2>2, <2>3, <1>t DEF IInv, CountersOK, RequestsAreCounted, TurnsTookRequests
<1>7. CASE Raises
  <2>1. CASE at' = "rest"
    BY <1>7, <2>1, EndsKeeps DEF Raises, Fails, Ends, AsksAgain
  <2>2. CASE at' # "rest"
    <3>1. /\ at = "wait" /\ at' = "ask" /\ budget' = Released
          /\ call' = [call EXCEPT !.kind = "unstructured", !.attempt = 0]
          /\ stored' = stored /\ spent' = spent
      BY <1>7, <2>2 DEF Raises, Fails, Ends, AsksAgain
    <3>2. /\ budget' = [Released EXCEPT !.input = budget.input] /\ budget.input \in Nat
      BY <3>1, <1>t DEF CountersOK, Released
    <3>3. call' \in [kind : Kinds, attempt : Nat, usage : Nat,
                     action : {"none", "call_tool", "plan", "need_user"}]
      BY <3>1, <1>t DEF CountersOK, Kinds
    <3> QED
      BY <3>1, <3>2, <3>3, <1>6
  <2> QED
    BY <2>1, <2>2
<1>8. CASE Answers
  <2>1. PICK usage \in 0..MaxEstimate :
          /\ at = "wait" /\ stored' = stored /\ spent' = spent
          /\ \/ at' = "rest" /\ budget' = Empty /\ call' = NoCall
             \/ /\ budget' = [Released EXCEPT !.input = budget.input + Charge(usage)]
                /\ Valid(usage) \/ (CanRetry /\ AsksAgain("retry", call.attempt + 1))
    BY <1>8, FallsBackEnds DEF Answers, Fails, Ends
  <2>2. CASE at' = "rest" /\ budget' = Empty /\ call' = NoCall
    BY <2>1, <2>2, EndsKeeps
  <2>3. CASE /\ budget' = [Released EXCEPT !.input = budget.input + Charge(usage)]
             /\ Valid(usage) \/ (CanRetry /\ AsksAgain("retry", call.attempt + 1))
    <3>1. usage \in Nat /\ budget.input + Charge(usage) \in Nat
      BY <1>t, PlannerAssumption DEF CountersOK, Charge
    <3>2. /\ at' \in {"ask", "decided"}
          /\ call' \in [kind : Kinds, attempt : Nat, usage : Nat,
                        action : {"none", "call_tool", "plan", "need_user"}]
      <4>1. CASE Valid(usage)
        BY <4>1, <3>1, <1>t DEF Valid, CountersOK
      <4>2. CASE AsksAgain("retry", call.attempt + 1)
        <5>1. call.attempt + 1 \in Nat /\ "retry" \in Kinds
          BY <1>t DEF CountersOK, Kinds
        <5>2. call' = [call EXCEPT !.kind = "retry", !.attempt = call.attempt + 1] /\ at' = "ask"
          BY <4>2 DEF AsksAgain
        <5>3. call' = [kind |-> "retry", attempt |-> call.attempt + 1, usage |-> call.usage,
                       action |-> call.action]
          BY <5>2, <1>t DEF CountersOK
        <5> QED
          BY <5>1, <5>2, <5>3, <1>t DEF CountersOK
      <4> QED
        BY <2>3, <4>1, <4>2
    <3> QED
      BY <2>1, <2>3, <3>1, <3>2, <1>6
  <2> QED
    BY <2>1, <2>2, <2>3
<1>9. CASE Decides
  <2>1. PICK action \in {"call_tool", "plan", "need_user"} :
          /\ at = "decided" /\ at' = "act" /\ budget' = budget /\ spent' = spent
          /\ call' = [call EXCEPT !.action = action]
          /\ stored' = [turns |-> stored.turns + 1, input |-> stored.input + call.usage,
                        tools |-> stored.tools + (IF action = "call_tool" THEN 1 ELSE 0)]
    BY <1>9 DEF Decides
  <2>2. stored' \in [turns : Nat, tools : Nat, input : Nat] /\ stored'.turns = stored.turns + 1
    BY <2>1, <1>t DEF CountersOK
  <2>3. CountersOK'
    BY <2>1, <2>2, <1>t DEF CountersOK
  <2> QED
    BY <2>1, <2>2, <2>3, <1>t, PlannerAssumption
    DEF IInv, CountersOK, RequestsAreCounted, TurnsTookRequests
<1>10. CASE CallsTool
  <2>1. at = "act" /\ stored' = stored /\ spent' = spent
    BY <1>10 DEF CallsTool
  <2>2. CASE budget.tools >= MaxTools
    BY <1>10, <2>1, <2>2, EndsKeeps DEF CallsTool, Fails, Ends
  <2>3. CASE ~(budget.tools >= MaxTools)
    <3>1. at' = "turn" /\ call' = NoCall /\ budget' = [budget EXCEPT !.tools = budget.tools + 1]
      BY <1>10, <2>3 DEF CallsTool, Again
    <3>2. budget.tools + 1 \in Nat
      BY <1>t DEF CountersOK
    <3> QED
      BY <2>1, <3>1, <3>2, AgainKeeps
  <2> QED
    BY <2>2, <2>3
<1>11. CASE Rejects
  <2>1. at = "act" /\ stored' = stored /\ spent' = spent
    BY <1>11 DEF Rejects
  <2>2. \/ at' = "rest" /\ budget' = Empty /\ call' = NoCall
        \/ at' = "turn" /\ budget' = budget /\ call' = NoCall
    BY <1>11, FallsBackEnds DEF Rejects, Again
  <2> QED
    BY <2>1, <2>2, EndsKeeps, AgainKeeps
<1>12. CASE Accepts
  <2>1. stored' = stored /\ spent' = spent
        /\ at' = "rest" /\ budget' = Empty /\ call' = NoCall
    BY <1>12, FallsBackEnds DEF Accepts, Ends
  <2> QED
    BY <2>1, EndsKeeps
<1>13. CASE AsksUser
  <2>1. at = "act" /\ stored' = stored /\ spent' = spent
    BY <1>13 DEF AsksUser
  <2>2. \/ at' = "rest" /\ budget' = Empty /\ call' = NoCall
        \/ at' = "turn" /\ budget' = budget /\ call' = NoCall
    BY <1>13 DEF AsksUser, Again, Ends
  <2> QED
    BY <2>1, <2>2, EndsKeeps, AgainKeeps
<1> QED
  BY <1>1, <1>2, <1>3, <1>4, <1>5, <1>7, <1>8, <1>9, <1>10, <1>11, <1>12, <1>13 DEF Next

\* The invariant holds in every behaviour.
LEMMA Inductive == Spec => []IInv
  BY InitIInv, Preserved, PTL DEF Spec

----------------------------------------------------------------------------
(* What follows.                                                           *)

\* Every request of a pass is on its budget, failed ones included, and nothing
\* stays reserved between requests (try_reserve, record and cancel).
THEOREM RequestsCounted == Spec => []RequestsAreCounted
<1>1. IInv => RequestsAreCounted
  BY DEF IInv
<1> QED
  BY Inductive, <1>1, PTL

\* However often a run is stopped and resumed, its turns are no more than the
\* ceiling on requests: what _run_once restores never exceeds it.
THEOREM TurnsWithinCeiling == Spec => [](stored.turns <= MaxRequests)
<1>1. IInv => stored.turns <= MaxRequests
  BY DEF IInv, TurnsTookRequests
<1> QED
  BY Inductive, <1>1, PTL

\* No request is sent once the tokens charged reach the ceiling (try_reserve).
THEOREM NoRequestBeyondCeiling == Spec => NoneBeyondCeiling
<1>1. ASSUME IInv, [Next]_vars, spent'.requests > spent.requests
      PROVE  budget.input < MaxInput
  <2>1. spent'.requests # spent.requests
    BY <1>1 DEF IInv, CountersOK
  <2>2. Reserves
    <3>1. CASE UNCHANGED vars
      BY <2>1, <3>1 DEF vars
    <3>2. CASE Starts
      BY <1>1, <2>1, <3>2 DEF Starts, IInv, CountersOK
    <3>3. CASE Crashes \/ TakesTurn \/ Stops \/ Raises \/ Answers \/ Decides
                 \/ CallsTool \/ Rejects \/ Accepts \/ AsksUser
      <4>1. spent' = spent
        BY <3>3 DEF Crashes, TakesTurn, Stops, Raises, Answers, Decides, CallsTool, Rejects,
                    Accepts, AsksUser
      <4> QED
        BY <2>1, <4>1
    <3> QED
      BY <1>1, <3>1, <3>2, <3>3 DEF Next
  <2>3. PICK e \in 1..MaxEstimate : Fits(e)
    BY <2>1, <2>2 DEF Reserves
  <2>4. /\ budget.input \in Nat /\ budget.reserved \in Nat /\ MaxInput \in Nat
        /\ e \in Nat /\ e # 0 /\ budget.input + budget.reserved + e <= MaxInput
    BY <1>1, <2>3, PlannerAssumption DEF IInv, CountersOK, Fits
  <2> QED
    BY <2>4
<1> QED
  BY Inductive, <1>1, PTL DEF Spec, NoneBeyondCeiling
----------------------------------------------------------------------------
(* The plan that is handed over.                                           *)

\* Positions of a plan have a first and a last one, and CHOOSE finds it.
LEMMA FirstPosition ==
  ASSUME NEW S \in SUBSET Nat, S # {}
  PROVE  (CHOOSE i \in S : \A j \in S : i <= j) \in S
<1>1. PICK x \in S : \A y \in S : ~ (<<y, x>> \in OpToRel(<, Nat))
  BY WFMin, NatLessThanWellFounded
<1>2. \A y \in S : ~ (y < x)
  BY <1>1, Zenon DEF OpToRel
<1>3. \A y \in S : x <= y
  BY <1>2
<1> QED
  BY <1>3

\* The last one is the first of the distances to the end.
LEMMA LastPosition ==
  ASSUME NEW n \in Nat, NEW S \in SUBSET (1..n), S # {}
  PROVE  (CHOOSE i \in S : \A j \in S : j <= i) \in S
<1> DEFINE D == {n - i : i \in S}
<1>1. D \in SUBSET Nat /\ D # {}
  <2>1. \A i \in S : n - i \in Nat
    OBVIOUS
  <2> QED
    BY <2>1, Zenon
<1>2. PICK x \in D : \A y \in D : ~ (<<y, x>> \in OpToRel(<, Nat))
  <2> HIDE DEF D
  <2> QED
    BY <1>1, WFMin, NatLessThanWellFounded
<1>3. \A y \in D : ~ (y < x)
  BY <1>1, <1>2, Zenon DEF OpToRel
<1>4. PICK m \in S : x = n - m
  BY <1>2
<1>5. \A j \in S : j <= m
  <2> SUFFICES ASSUME NEW j \in S PROVE j <= m
    OBVIOUS
  <2>1. ~ (n - j < n - m)
    BY <1>3, <1>4
  <2> QED
    BY <2>1
<1> QED
  BY <1>5

\* A prefix keeps the steps it has, and each is requested in it if it was in
\* the plan: what makes a step unrequested comes before it.
LEMMA PrefixKeeps ==
  ASSUME NEW t, NEW p \in Seq(Steps), NEW n \in 0..Len(p)
  PROVE  /\ Prefix(p, n) \in Seq(Steps)
         /\ Len(Prefix(p, n)) = n
         /\ \A i \in 1..n : /\ Prefix(p, n)[i] = p[i]
                            /\ Unrequested(t, Prefix(p, n), i) <=> Unrequested(t, p, i)
<1>1. \A i \in 1..n : p[i] \in Steps
  BY ElementOfSeq
<1>2. /\ Prefix(p, n) \in Seq(Steps)
      /\ Len(Prefix(p, n)) = n
      /\ \A i \in 1..n : Prefix(p, n)[i] = p[i]
  BY <1>1, SubSeqProperties DEF Prefix
<1>3. ASSUME NEW i \in 1..n
      PROVE  Unrequested(t, Prefix(p, n), i) <=> Unrequested(t, p, i)
  <2>1. \A j \in 1..i : j \in 1..n
    OBVIOUS
  <2>2. \A j \in 1..i : Prefix(p, n)[j] = p[j]
    BY <1>2, <2>1
  <2>3. i \in 1..i /\ \A j \in 1..i - 1 : j \in 1..i
    OBVIOUS
  <2> HIDE DEF Prefix
  <2> QED
    BY <2>2, <2>3 DEF Unrequested
<1> QED
  BY <1>2, <1>3

\* Whatever the cut at an unrequested ranking leaves, a trimmed plan ends with a
\* step that was asked for (_trim_unrequested_trailing_steps).
LEMMA TrimEnds ==
  ASSUME NEW t, NEW p \in Seq(Steps)
  PROVE  /\ Trim(t, p) \in Seq(Steps)
         /\ Trim(t, p) # <<>> => ~Unrequested(t, Trim(t, p), Len(Trim(t, p)))
<1> DEFINE first == CHOOSE i \in CutAt(t, p) : \A j \in CutAt(t, p) : i <= j
           cut == IF CutAt(t, p) = {} THEN p ELSE Prefix(p, first - 1)
           keep == {i \in 1..Len(cut) : ~Unrequested(t, cut, i)}
           last == CHOOSE i \in keep : \A j \in keep : j <= i
<1>1. Trim(t, p) = IF keep = {} THEN <<>> ELSE Prefix(cut, last)
  BY Zenon DEF Trim
<1>2. cut \in Seq(Steps)
  <2>1. CASE CutAt(t, p) # {}
    <3>1. CutAt(t, p) \in SUBSET Nat /\ CutAt(t, p) \in SUBSET (2..Len(p)) /\ Len(p) \in Nat
      BY DEF CutAt
    <3>2. first \in CutAt(t, p)
      BY <2>1, <3>1, FirstPosition
    <3>3. first - 1 \in 0..Len(p)
      BY <3>1, <3>2
    <3> HIDE DEF first
    <3> QED
      BY <2>1, <3>3, PrefixKeeps
  <2> QED
    BY <2>1
<1> HIDE DEF cut
<1>3. CASE keep = {}
  BY <1>1, <1>3
<1>4. CASE keep # {}
  <2>1. keep \in SUBSET (1..Len(cut)) /\ Len(cut) \in Nat
    BY <1>2
  <2>2. last \in keep
    <3> HIDE DEF keep
    <3> QED
      BY <1>4, <2>1, LastPosition
  <2>3. last \in 1..Len(cut) /\ last \in 0..Len(cut) /\ last \in 1..last
        /\ ~Unrequested(t, cut, last)
    BY <2>1, <2>2
  <2> HIDE DEF keep, last
  <2> QED
    BY <1>1, <1>2, <1>4, <2>3, PrefixKeeps
<1> QED
  BY <1>3, <1>4

\* A resume step that was asked for is never an unrequested one.
LEMMA ResumeIsRequested ==
  ASSUME NEW t, NEW p, NEW i, "tailoring" \in t.wants, p[i].skill = "tailoring"
  PROVE  ~Unrequested(t, p, i)
  BY DEF Unrequested

\* What PlansServeTheGoal says of one plan of one goal, its authority apart.
Serves(t, p) ==
  /\ "tailoring" \in t.wants \cap t.allowed /\ (\E i \in 1..Len(p) : p[i].declares)
       => HasSkill(p, "tailoring")
  /\ p # <<>> => ~Unrequested(t, p, Len(p))

\* A plan that is trimmed and completed serves its goal
\* (_ensure_requested_deliverable_steps).
LEMMA CompletedServes ==
  ASSUME NEW t, NEW p \in Seq(Steps)
  PROVE  Serves(t, Completed(t, Trim(t, p)))
<1> DEFINE q == Trim(t, p)
<1>1. q \in Seq(Steps) /\ (q # <<>> => ~Unrequested(t, q, Len(q)))
  BY TrimEnds
<1> HIDE DEF q
<1> DEFINE lacks == /\ "tailoring" \in t.wants \cap t.allowed
                    /\ ~HasSkill(q, "tailoring")
                    /\ \E i \in 1..Len(q) : q[i].declares
<1>2. CASE lacks
  <2>1. Completed(t, q) = Append(q, TailorStep)
    BY <1>2 DEF Completed
  <2>2. TailorStep \in Steps /\ TailorStep.skill = "tailoring"
    BY DEF TailorStep, Steps, Skills
  <2>3. /\ Len(Completed(t, q)) = Len(q) + 1 /\ Len(q) \in Nat
        /\ Completed(t, q)[Len(q) + 1] = TailorStep
    BY <1>1, <2>1, <2>2, AppendProperties
  <2>4. Completed(t, q)[Len(Completed(t, q))].skill = "tailoring"
    BY <2>2, <2>3
  <2>5. Len(Completed(t, q)) \in 1..Len(Completed(t, q))
    BY <2>3
  <2>6. HasSkill(Completed(t, q), "tailoring")
    BY <2>4, <2>5 DEF HasSkill, Positions
  <2>7. ~Unrequested(t, Completed(t, q), Len(Completed(t, q)))
    BY <1>2, <2>4, ResumeIsRequested
  <2> QED
    BY <2>6, <2>7 DEF Serves, q
<1>3. CASE ~lacks
  <2>1. Completed(t, q) = q
    BY <1>3 DEF Completed
  <2> QED
    BY <1>1, <1>3, <2>1 DEF Serves, q
<1> QED
  BY <1>2, <1>3

\* The plan made up for a goal has what it asks for, and no more.
LEMMA FallbackServes ==
  ASSUME NEW t, NEW p \in Fallback(t)
  PROVE  Authorised(t, p) /\ Serves(t, p)
<1> DEFINE one(skill) == <<[skill |-> skill, declares |-> TRUE]>>
           part(skill) == IF skill \in t.wants \cap t.allowed THEN one(skill) ELSE <<>>
           plan == one("discovery") \o part("matching") \o part("tailoring")
<1>1. p = plan /\ Authorised(t, p)
  BY Zenon DEF Fallback
<1>2. Serves(t, plan)
  <2> HIDE DEF plan
  <2>1. CASE "tailoring" \in t.wants \cap t.allowed
    <3>1. /\ Len(plan) \in 1..Len(plan) /\ plan[Len(plan)].skill = "tailoring"
      BY <2>1 DEF plan
    <3>2. HasSkill(plan, "tailoring")
      BY <3>1 DEF HasSkill, Positions
    <3> QED
      BY <2>1, <3>1, <3>2, ResumeIsRequested DEF Serves
  <2>2. CASE "tailoring" \notin t.wants \cap t.allowed
    <3>1. CASE "matching" \in t.wants \cap t.allowed
      <4>1. plan[Len(plan)].skill = "matching"
        BY <2>2, <3>1 DEF plan
      <4> QED
        BY <2>2, <3>1, <4>1 DEF Serves, Unrequested
    <3>2. CASE "matching" \notin t.wants \cap t.allowed
      <4>1. plan[Len(plan)].skill = "discovery"
        BY <2>2, <3>2 DEF plan
      <4> QED
        BY <2>2, <4>1 DEF Serves, Unrequested
    <3> QED
      BY <3>1, <3>2
  <2> QED
    BY <2>1, <2>2
<1> QED
  BY <1>1, <1>2

\* The goal of the run is one of those considered, and the plan at rest serves it.
ServedInv == task \in Goals /\ PlansServeTheGoal

\* The property, in terms of what is said of one plan.
LEMMA ServedMeans ==
  PlansServeTheGoal <=>
    (result.status = "planned" => Authorised(task, result.plan) /\ Serves(task, result.plan))
  BY Zenon DEF PlansServeTheGoal, Serves

\* Every action keeps it: only Accepts and the fall-backs hand over a plan.
LEMMA ServedPreserved == ServedInv /\ [Next]_vars => ServedInv'
<1> SUFFICES ASSUME ServedInv, [Next]_vars PROVE ServedInv'
  OBVIOUS
<1>1. task' = task
  BY DEF Next, vars, Starts, Crashes, TakesTurn, Stops, Reserves, Raises, Answers, Decides,
         CallsTool, Rejects, Accepts, AsksUser
<1> DEFINE Good == result'.status = "planned" =>
                     Authorised(task, result'.plan) /\ Serves(task, result'.plan)
<1>2. ASSUME Good PROVE ServedInv'
  <2>1. PlansServeTheGoal'
    BY <1>1, <1>2, Zenon DEF PlansServeTheGoal, Serves
  <2> QED
    BY <1>1, <2>1 DEF ServedInv
<1>3. ASSUME result' = result PROVE Good
  BY <1>3, ServedMeans DEF ServedInv
<1>4. ASSUME NEW status \in Outcomes \ {"planned"}, Ends(status, <<>>) PROVE Good
  BY <1>4 DEF Ends
<1>5. ASSUME FallsBack PROVE Good
  <2>1. CASE Fallback(task) = {}
    BY <1>4, <1>5, <2>1 DEF FallsBack, Outcomes
  <2>2. CASE Fallback(task) # {}
    <3>1. PICK p \in Fallback(task) : Ends("planned", p)
      BY <1>5, <2>2 DEF FallsBack
    <3>2. result'.plan = p
      BY <3>1 DEF Ends
    <3> QED
      BY <3>2, FallbackServes
  <2> QED
    BY <2>1, <2>2
<1>6. ASSUME Accepts PROVE Good
  <2>1. PICK p \in Repaired[task] : IF Revalidated(p) THEN Ends("planned", p) ELSE FallsBack
    BY <1>6 DEF Accepts
  <2>2. CASE Revalidated(p)
    <3>1. PICK q \in Plans : p = Completed(task, Trim(task, q))
      BY <2>1 DEF Repaired, ServedInv
    <3>2. q \in Seq(Steps)
      BY <3>1 DEF Plans
    <3>3. Serves(task, p)
      BY <3>1, <3>2, CompletedServes
    <3>4. result'.plan = p
      BY <2>1, <2>2 DEF Ends
    <3> QED
      BY <2>2, <3>3, <3>4 DEF Revalidated
  <2> QED
    BY <1>5, <2>1, <2>2
<1>7. ASSUME Starts PROVE Good
  BY <1>7 DEF Starts, NoResult
<1>8. result' = result \/ Starts \/ FallsBack \/ Accepts
        \/ \E status \in Outcomes \ {"planned"} : Ends(status, <<>>)
  <2>1. Fails => Ends("failed", <<>>)
    BY DEF Fails
  <2>2. "failed" \in Outcomes \ {"planned"} /\ "needs_user" \in Outcomes \ {"planned"}
    BY DEF Outcomes
  <2> QED
    BY <2>1, <2>2 DEF Next, vars, Crashes, TakesTurn, Stops, Reserves, Raises, Answers, Decides,
       CallsTool, Rejects, AsksUser, Again, AsksAgain, Valid
<1> HIDE DEF Good
<1> QED
  BY <1>2, <1>3, <1>4, <1>5, <1>6, <1>7, <1>8

\* A plan that is handed over stays within the run's authority and serves its
\* goal, whatever the model proposed (_trim_unrequested_trailing_steps,
\* _ensure_requested_deliverable_steps, _build_seeded_career_fallback).
THEOREM PlansServe == Spec => []PlansServeTheGoal
<1>1. Init => ServedInv
  BY DEF Init, ServedInv, PlansServeTheGoal, NoResult
<1>2. ServedInv => PlansServeTheGoal
  BY DEF ServedInv
<1> QED
  BY <1>1, <1>2, ServedPreserved, PTL DEF Spec
----------------------------------------------------------------------------
(* A pass of the planner comes to an end.                                   *)

\* What a pass has left, the most significant first: turns of its loop, and moves
\* of the turn, among them the requests that the decision under way may still take.
TurnsLeft == MaxTurns - loop.turn

RequestsLeft ==
  CASE call.kind = "structured" -> MaxAttempts + 1
    [] call.kind = "retry" -> MaxAttempts - call.attempt
    [] OTHER -> 0

MovesLeft ==
  CASE at = "turn" -> 2 * MaxAttempts + 7
    [] at = "ask" -> 2 * RequestsLeft + 4
    [] at = "wait" -> 2 * RequestsLeft + 3
    [] at = "decided" -> 2
    [] OTHER -> 1

PassLeftIsFinite == at # "rest" => TurnsLeft \in Nat /\ MovesLeft \in Nat

LessLeft ==
  \/ TurnsLeft' < TurnsLeft
  \/ TurnsLeft' = TurnsLeft /\ MovesLeft' < MovesLeft

\* A pass begins, or ends, or has less left.
PassMovesOn ==
  [][\/ at = "rest" /\ passes' = passes + 1
     \/ at # "rest" /\ passes' = passes /\ (at' = "rest" \/ LessLeft)]_vars

\* What is under way in a pass stays within the turns of the loop and the attempts
\* of a decision.
PassInv ==
  /\ loop \in [turn : Nat, nags : Nat, fixes : Nat]
  /\ at # "rest" =>
       /\ loop.turn <= MaxTurns
       /\ at # "turn" => loop.turn < MaxTurns
       /\ call.kind = "retry" => call.attempt <= MaxAttempts
       /\ call.kind = "structured" => call.attempt = 0

\* The steps of a pass that do not end it: a turn, the requests of its decision,
\* the decision, and the next turn.
Goes ==
  \/ at = "turn" /\ at' = "ask" /\ loop.turn < MaxTurns /\ loop' = loop /\ call' = NoCall
  \/ at = "ask" /\ at' = "wait" /\ UNCHANGED <<loop, call>>
  \/ /\ at = "wait" /\ at' = "ask" /\ loop' = loop /\ call.kind = "structured"
     /\ call' = [call EXCEPT !.kind = "unstructured", !.attempt = 0]
  \/ /\ at = "wait" /\ at' = "ask" /\ loop' = loop /\ CanRetry
     /\ call' = [call EXCEPT !.kind = "retry", !.attempt = call.attempt + 1]
  \/ at = "wait" /\ at' = "decided" /\ loop' = loop /\ \E u : call' = [call EXCEPT !.usage = u]
  \/ at = "decided" /\ at' = "act" /\ loop' = loop /\ \E a : call' = [call EXCEPT !.action = a]
  \/ /\ at = "act" /\ at' = "turn" /\ call' = NoCall
     /\ \E l \in {loop, [loop EXCEPT !.fixes = @ + 1], [loop EXCEPT !.nags = @ + 1]} :
          loop' = [l EXCEPT !.turn = @ + 1]

\* There are no others.
LEMMA StepsOfPass ==
  ASSUME Next
  PROVE  \/ at = "rest" /\ passes' = passes + 1 /\ at' = "turn" /\ loop' = NoLoop /\ call' = NoCall
         \/ at # "rest" /\ passes' = passes /\ at' = "rest" /\ loop' = NoLoop
         \/ at # "rest" /\ passes' = passes /\ Goes
<1> DEFINE Rest == at # "rest" /\ passes' = passes /\ at' = "rest" /\ loop' = NoLoop
           On == at # "rest" /\ passes' = passes /\ Goes
<1>1. CASE Starts
  BY <1>1, Zenon DEF Starts
<1>2. FallsBack => at' = "rest" /\ loop' = NoLoop
  BY Zenon DEF FallsBack, Ends
<1>3. CASE Crashes \/ Stops \/ Accepts
  <2>1. /\ at # "rest" /\ passes' = passes
        /\ at' = "rest" /\ loop' = NoLoop
    BY <1>2, <1>3 DEF Crashes, Stops, Accepts, Fails, Ends
  <2> QED
    BY <2>1
<1>4. CASE TakesTurn
  BY <1>4 DEF TakesTurn, Goes
<1>5. CASE Reserves
  <2>1. /\ at = "ask" /\ passes' = passes
        /\ \/ at' = "wait" /\ UNCHANGED <<loop, call>>
           \/ at' = "rest" /\ loop' = NoLoop
    BY <1>5 DEF Reserves, Fails, Ends
  <2> QED
    BY <2>1 DEF Goes
<1>6. CASE Raises
  <2>1. /\ at = "wait" /\ passes' = passes
        /\ \/ /\ at' = "ask" /\ loop' = loop /\ call.kind = "structured"
              /\ call' = [call EXCEPT !.kind = "unstructured", !.attempt = 0]
           \/ at' = "rest" /\ loop' = NoLoop
    BY <1>6, Zenon DEF Raises, AsksAgain, Fails, Ends
  <2> QED
    BY <2>1 DEF Goes
<1>7. CASE Answers
  <2>1. /\ at = "wait" /\ passes' = passes
        /\ \/ at' = "rest" /\ loop' = NoLoop
           \/ /\ at' = "ask" /\ loop' = loop /\ CanRetry
              /\ call' = [call EXCEPT !.kind = "retry", !.attempt = call.attempt + 1]
           \/ at' = "decided" /\ loop' = loop /\ \E u : call' = [call EXCEPT !.usage = u]
    BY <1>2, <1>7, Zenon DEF Answers, AsksAgain, Valid, Fails, Ends
  <2> QED
    BY <2>1 DEF Goes
<1>8. CASE Decides
  <2>1. /\ at = "decided" /\ passes' = passes /\ at' = "act" /\ loop' = loop
        /\ \E a : call' = [call EXCEPT !.action = a]
    BY <1>8, Zenon DEF Decides
  <2> QED
    BY <2>1 DEF Goes
<1>9. CASE CallsTool \/ Rejects \/ AsksUser
  <2>1. /\ at = "act" /\ passes' = passes
        /\ \/ at' = "rest" /\ loop' = NoLoop
           \/ /\ at' = "turn" /\ call' = NoCall
              /\ \E l \in {loop, [loop EXCEPT !.fixes = @ + 1], [loop EXCEPT !.nags = @ + 1]} :
                   loop' = [l EXCEPT !.turn = @ + 1]
    BY <1>2, <1>9 DEF CallsTool, Rejects, AsksUser, Again, Fails, Ends
  <2> QED
    BY <2>1 DEF Goes
<1> QED
  BY <1>1, <1>3, <1>4, <1>5, <1>6, <1>7, <1>8, <1>9 DEF Next

\* The numbers of the measure.
LEMMA RequestsLeftIs ==
  ASSUME IInv
  PROVE  /\ call.kind = "structured" => RequestsLeft = MaxAttempts + 1
         /\ call.kind = "retry" => RequestsLeft = MaxAttempts - call.attempt
         /\ call.kind = "unstructured" => RequestsLeft = 0
         /\ call.kind \in {"structured", "retry", "unstructured"} /\ call.attempt \in Nat
  BY DEF IInv, CountersOK, Kinds, RequestsLeft

\* A step that does not end the pass keeps within it and leaves less of it.
LEMMA GoesOn ==
  ASSUME IInv, IInv', PassInv, Goes
  PROVE  PassInv' /\ LessLeft
<1>1. /\ MaxTurns \in Nat /\ MaxAttempts \in Nat /\ MaxAttempts # 0
  BY PlannerAssumption
<1>2. loop.turn \in Nat /\ loop \in [turn : Nat, nags : Nat, fixes : Nat]
  BY DEF PassInv
<1>3. /\ call \in [kind : Kinds, attempt : Nat, usage : Nat,
                   action : {"none", "call_tool", "plan", "need_user"}]
  BY DEF IInv, CountersOK
<1> DEFINE left == RequestsLeft
           after == RequestsLeft'
<1>4. /\ call.kind = "structured" => left = MaxAttempts + 1
      /\ call.kind = "retry" => left = MaxAttempts - call.attempt
      /\ call.kind = "unstructured" => left = 0
      /\ call.kind \in {"structured", "retry", "unstructured"} /\ call.attempt \in Nat
  BY RequestsLeftIs
<1>5. /\ call'.kind = "structured" => after = MaxAttempts + 1
      /\ call'.kind = "retry" => after = MaxAttempts - call'.attempt
      /\ call'.kind = "unstructured" => after = 0
  <2>1. call'.kind \in Kinds
    BY DEF IInv, CountersOK
  <2> QED
    BY <2>1 DEF Kinds, RequestsLeft
<1>6. /\ at = "turn" => MovesLeft = 2 * MaxAttempts + 7
      /\ at = "ask" => MovesLeft = 2 * left + 4
      /\ at = "wait" => MovesLeft = 2 * left + 3
      /\ at = "decided" => MovesLeft = 2
      /\ at = "act" => MovesLeft = 1
  BY DEF MovesLeft
<1>7. /\ at' = "turn" => MovesLeft' = 2 * MaxAttempts + 7
      /\ at' = "ask" => MovesLeft' = 2 * after + 4
      /\ at' = "wait" => MovesLeft' = 2 * after + 3
      /\ at' = "decided" => MovesLeft' = 2
      /\ at' = "act" => MovesLeft' = 1
  BY DEF MovesLeft
<1> DEFINE m == MovesLeft
           n == MovesLeft'
<1>8. ASSUME loop' = loop, n < m PROVE LessLeft
  <2>1. TurnsLeft' = TurnsLeft
    BY <1>8 DEF TurnsLeft
  <2> QED
    BY <1>8, <2>1, Zenon DEF LessLeft
<1> HIDE DEF left, after, m, n
<1>9. CASE /\ at = "turn" /\ at' = "ask" /\ loop.turn < MaxTurns /\ loop' = loop
           /\ call' = NoCall
  <2>1. call'.kind = "structured" /\ call'.attempt = 0
    BY <1>9 DEF NoCall
  <2>2. n < m
    <3>1. n = 2 * (MaxAttempts + 1) + 4 /\ m = 2 * MaxAttempts + 7
      BY <1>5, <1>6, <1>7, <1>9, <2>1 DEF m, n
    <3> QED
      BY <1>1, <3>1
  <2>3. PassInv'
    BY <1>1, <1>2, <1>9, <2>1 DEF PassInv
  <2> QED
    BY <1>8, <1>9, <2>2, <2>3
<1>10. CASE at = "ask" /\ at' = "wait" /\ UNCHANGED <<loop, call>>
  <2>1. after = left
    BY <1>10, Zenon DEF after, left, RequestsLeft
  <2>2. left \in Nat
    BY <1>1, <1>4, <1>10 DEF PassInv
  <2>3. n < m
    BY <1>6, <1>7, <1>10, <2>1, <2>2 DEF m, n
  <2>4. PassInv'
    BY <1>10 DEF PassInv
  <2> QED
    BY <1>8, <1>10, <2>3, <2>4
<1>11. CASE /\ at = "wait" /\ at' = "ask" /\ loop' = loop /\ call.kind = "structured"
            /\ call' = [call EXCEPT !.kind = "unstructured", !.attempt = 0]
  <2>1. call'.kind = "unstructured"
    BY <1>3, <1>11
  <2>2. n < m
    BY <1>1, <1>4, <1>5, <1>6, <1>7, <1>11, <2>1 DEF m, n
  <2>3. PassInv'
    BY <1>11, <2>1 DEF PassInv
  <2> QED
    BY <1>8, <1>11, <2>2, <2>3
<1>12. CASE /\ at = "wait" /\ at' = "ask" /\ loop' = loop /\ CanRetry
            /\ call' = [call EXCEPT !.kind = "retry", !.attempt = call.attempt + 1]
  <2>1. call'.kind = "retry" /\ call'.attempt = call.attempt + 1
    BY <1>3, <1>12
  <2>2. \/ call.kind = "structured"
        \/ call.kind = "retry" /\ call.attempt < MaxAttempts
    BY <1>12 DEF CanRetry
  <2>3. after = MaxAttempts - (call.attempt + 1)
    BY <1>5, <2>1
  <2>4. n < m
    <3>1. n = 2 * (MaxAttempts - (call.attempt + 1)) + 4 /\ m = 2 * left + 3
      BY <1>6, <1>7, <1>12, <2>3 DEF m, n
    <3>2. left \in {MaxAttempts + 1, MaxAttempts - call.attempt}
      BY <1>4, <2>2
    <3>3. call.attempt \in Nat
      BY <1>4
    <3> QED
      BY <1>1, <3>1, <3>2, <3>3
  <2>5. call'.attempt <= MaxAttempts
    <3>1. call.kind = "structured" => call.attempt = 0
      BY <1>12 DEF PassInv
    <3> QED
      BY <1>1, <1>4, <2>1, <2>2, <3>1
  <2>6. PassInv'
    BY <1>12, <2>1, <2>5 DEF PassInv
  <2> QED
    BY <1>8, <1>12, <2>4, <2>6
<1>13. CASE /\ at = "wait" /\ at' = "decided" /\ loop' = loop
            /\ \E u : call' = [call EXCEPT !.usage = u]
  <2>1. call'.kind = call.kind /\ call'.attempt = call.attempt
    BY <1>3, <1>13
  <2>2. left \in Nat
    BY <1>1, <1>4, <1>13 DEF PassInv
  <2>3. n < m
    BY <1>6, <1>7, <1>13, <2>2 DEF m, n
  <2>4. PassInv'
    BY <1>13, <2>1 DEF PassInv
  <2> QED
    BY <1>8, <1>13, <2>3, <2>4
<1>14. CASE /\ at = "decided" /\ at' = "act" /\ loop' = loop
            /\ \E a : call' = [call EXCEPT !.action = a]
  <2>1. call'.kind = call.kind /\ call'.attempt = call.attempt
    BY <1>3, <1>14
  <2>2. n < m
    BY <1>6, <1>7, <1>14 DEF m, n
  <2>3. PassInv'
    BY <1>14, <2>1 DEF PassInv
  <2> QED
    BY <1>8, <1>14, <2>2, <2>3
<1>15. CASE /\ at = "act" /\ at' = "turn" /\ call' = NoCall
            /\ \E l \in {loop, [loop EXCEPT !.fixes = @ + 1], [loop EXCEPT !.nags = @ + 1]} :
                 loop' = [l EXCEPT !.turn = @ + 1]
  <2>1. loop' \in [turn : Nat, nags : Nat, fixes : Nat] /\ loop'.turn = loop.turn + 1
    BY <1>2, <1>15
  <2>2. loop.turn < MaxTurns
    BY <1>15 DEF PassInv
  <2>3. TurnsLeft' < TurnsLeft
    <3>1. TurnsLeft = MaxTurns - loop.turn /\ TurnsLeft' = MaxTurns - (loop.turn + 1)
      BY <2>1 DEF TurnsLeft
    <3> QED
      BY <1>1, <1>2, <3>1
  <2>4. call'.kind = "structured" /\ call'.attempt = 0
    BY <1>15 DEF NoCall
  <2>5. PassInv'
    BY <1>1, <1>2, <1>15, <2>1, <2>2, <2>4 DEF PassInv
  <2> QED
    BY <2>3, <2>5 DEF LessLeft
<1> QED
  BY <1>9, <1>10, <1>11, <1>12, <1>13, <1>14, <1>15, Zenon DEF Goes

\* The planner of a pass ends: each of its steps leaves fewer turns of its loop,
\* or the same turns and less of the turn (of the requests a decision may take,
\* from the structured one to the last retry, and of what follows the answer), and
\* what is left is a number.  So a model that never answers validly, asks for ever
\* or is corrected again and again does not hold up the run.
THEOREM PassesMoveOn == Spec => []PassLeftIsFinite /\ PassMovesOn
<1>1. Init => PassInv
  <2> SUFFICES ASSUME Init PROVE PassInv
    OBVIOUS
  <2>1. at = "rest" /\ loop = NoLoop
    BY DEF Init
  <2> QED
    BY <2>1 DEF PassInv, NoLoop
<1>2. IInv /\ IInv' /\ PassInv /\ Next =>
        /\ PassInv'
        /\ \/ at = "rest" /\ passes' = passes + 1
           \/ at # "rest" /\ passes' = passes /\ (at' = "rest" \/ LessLeft)
  <2> SUFFICES ASSUME IInv, IInv', PassInv, Next
               PROVE  /\ PassInv'
                      /\ \/ at = "rest" /\ passes' = passes + 1
                         \/ at # "rest" /\ passes' = passes /\ (at' = "rest" \/ LessLeft)
    OBVIOUS
  <2>1. CASE /\ at = "rest" /\ passes' = passes + 1 /\ at' = "turn" /\ loop' = NoLoop
             /\ call' = NoCall
    <3>1. loop'.turn = 0 /\ loop' \in [turn : Nat, nags : Nat, fixes : Nat]
      BY <2>1 DEF NoLoop
    <3>2. call'.kind = "structured" /\ call'.attempt = 0
      BY <2>1 DEF NoCall
    <3>3. 0 <= MaxTurns
      BY PlannerAssumption
    <3>4. PassInv'
      BY <2>1, <3>1, <3>2, <3>3 DEF PassInv
    <3> QED
      BY <2>1, <3>4
  <2>2. CASE at # "rest" /\ passes' = passes /\ at' = "rest" /\ loop' = NoLoop
    BY <2>2 DEF PassInv, NoLoop
  <2>3. CASE at # "rest" /\ passes' = passes /\ Goes
    BY <2>3, GoesOn
  <2> QED
    BY <2>1, <2>2, <2>3, StepsOfPass
<1>3. PassInv /\ UNCHANGED vars => PassInv'
  BY DEF PassInv, vars
<1>4. IInv /\ PassInv => PassLeftIsFinite
  <2> SUFFICES ASSUME IInv, PassInv, at # "rest"
               PROVE  TurnsLeft \in Nat /\ MovesLeft \in Nat
    BY DEF PassLeftIsFinite
  <2>1. MaxTurns \in Nat /\ MaxAttempts \in Nat
    BY PlannerAssumption
  <2>2. TurnsLeft \in Nat
    BY <2>1 DEF PassInv, TurnsLeft
  <2>3. RequestsLeft \in Nat
    BY <2>1, RequestsLeftIs DEF PassInv
  <2>4. at \in {"rest", "turn", "ask", "wait", "decided", "act"}
    BY DEF IInv, CountersOK
  <2>5. MovesLeft \in Nat
    <3> DEFINE left == RequestsLeft
    <3>1. left \in Nat
      BY <2>3
    <3> HIDE DEF left
    <3>2. MovesLeft \in {2 * MaxAttempts + 7, 2 * left + 4, 2 * left + 3, 2, 1}
      BY <2>4 DEF MovesLeft, left
    <3> QED
      BY <2>1, <3>1, <3>2
  <2> QED
    BY <2>2, <2>5
<1>5. Spec => [](IInv /\ PassInv)
  BY <1>1, <1>2, <1>3, Inductive, PTL DEF Spec
<1>6. Spec => PassMovesOn
  <2>1. (IInv /\ PassInv) /\ (IInv /\ PassInv)' /\ [Next]_vars =>
          [\/ at = "rest" /\ passes' = passes + 1
           \/ at # "rest" /\ passes' = passes /\ (at' = "rest" \/ LessLeft)]_vars
    BY <1>2
  <2> QED
    BY <1>5, <2>1, PTL DEF Spec, PassMovesOn
<1> QED
  BY <1>4, <1>5, <1>6, PTL
=============================================================================
