----------------------------- MODULE RunDrivers -----------------------------
(***************************************************************************)
(* Several drivers on the rows of ONE agent run: the background worker of  *)
(* the process that created it and the HTTP requests that resume or recover*)
(* it, each with a database session of its own.  A driver keeps the run row*)
(* and its counters in memory for as long as it works and never reads them *)
(* again (expire_on_commit=False); what holds the drivers apart is the row *)
(* lock of SELECT .. FOR UPDATE and of every UPDATE of the run, held until *)
(* the next commit, and the unique keys of plans and turns.                *)
(*                                                                         *)
(* What a pass does in detail is PevRun's; here a pass is a sequence of    *)
(* model decisions, plans and one closing status.                          *)
(***************************************************************************)
EXTENDS Naturals, FiniteSets

CONSTANTS
  Worker,     \* the background task of the created run
  Requests,   \* resume and recover requests; each is served once
  Nobody,     \* holder of a free row lock
  MaxTurns,   \* bound: model decisions committed per role
  MaxPlans    \* bound: plans committed

ASSUME DriversAssumption ==
  /\ Worker \notin Requests
  /\ Nobody \notin Requests \cup {Worker}
  /\ IsFiniteSet(Requests)

ASSUME BoundsAssumption == MaxTurns \in Nat /\ MaxPlans \in Nat

Drivers == Requests \cup {Worker}

Roles == {"planner", "executor"}

RunStatus == {"queued", "running", "waiting_user", "succeeded", "failed"}

TerminalRunStatuses == {"succeeded", "failed"}

VARIABLES
  status,     \* committed agent_runs.status
  plans,      \* committed plan revisions are 1..plans
  turns,      \* committed turn indices of a role are 1..turns[role]
  scheduled,  \* the background task waits in memory
  lock,       \* holder of the row lock of the run
  at,         \* [Drivers -> where it is]
  pending,    \* [Drivers -> status it wrote and has not committed, or "none"]
  revision,   \* [Drivers -> its count of plans]
  turnIndex,  \* [Drivers -> [Roles -> its last turn index]]
  answering   \* history: drivers of a resume that has not committed yet

rows  == <<status, plans, turns>>
local == <<revision, turnIndex>>
driversVars == <<rows, scheduled, lock, at, pending, local, answering>>

DriversInit ==
  /\ status = "queued"
  /\ plans = 0
  /\ turns = [r \in Roles |-> 0]
  /\ scheduled = TRUE
  /\ lock = Nobody
  /\ at = [d \in Drivers |-> "new"]
  /\ pending = [d \in Drivers |-> "none"]
  /\ revision = [d \in Drivers |-> 0]
  /\ turnIndex = [d \in Drivers |-> [r \in Roles |-> 0]]
  /\ answering = {}

-----------------------------------------------------------------------------
Goto(d, label) == at' = [at EXCEPT ![d] = label]

Live(d) == at[d] \notin {"new", "done"}

(* A write to the run row, or an insert that refers to it, waits for the   *)
(* transaction that holds the row.                                         *)
CanWrite(d) == lock \in {Nobody, d}

(* COMMIT of driver d: its pending status becomes the row's, whatever the  *)
(* row says by now, and the row lock is released.                          *)
Commit(d) ==
  /\ status' = IF pending[d] = "none" THEN status ELSE pending[d]
  /\ lock' = IF lock = d THEN Nobody ELSE lock
  /\ pending' = [pending EXCEPT ![d] = "none"]
  /\ answering' = answering \ {d}

(* Mutant: the transaction of a failed request is left open. *)
RollbackKeepsLock(d) ==
  /\ pending' = [pending EXCEPT ![d] = "none"]
  /\ answering' = answering \ {d}
  /\ UNCHANGED lock

Rollback(d) ==
  /\ lock' = IF lock = d THEN Nobody ELSE lock
  /\ pending' = [pending EXCEPT ![d] = "none"]
  /\ answering' = answering \ {d}

-----------------------------------------------------------------------------
(* Entries.                                                                *)

WorkerTakesRun ==
  /\ scheduled
  /\ scheduled' = FALSE
  /\ IF status = "queued" THEN Goto(Worker, "starting") ELSE Goto(Worker, "done")
  /\ UNCHANGED <<rows, lock, pending, local, answering>>

(* start_run, run_started, checkpoint: one transaction. *)
RunStarted ==
  /\ at[Worker] = "starting"
  /\ CanWrite(Worker)
  /\ status' = "running"
  /\ Goto(Worker, "entered")
  /\ UNCHANGED <<plans, turns, scheduled, lock, pending, local, answering>>

(* recover: the locked read, the event and the checkpoint. *)
RecoverRun(d) ==
  /\ at[d] = "new"
  /\ lock = Nobody
  /\ status = "running"
  /\ Goto(d, "entered")
  /\ UNCHANGED <<rows, scheduled, lock, pending, local, answering>>

(* Mutant: the status is read without FOR UPDATE. *)
ResumeRunUnlocked(d) ==
  /\ at[d] = "new"
  /\ status = "waiting_user"
  /\ pending' = [pending EXCEPT ![d] = "running"]
  /\ answering' = answering \cup {d}
  /\ Goto(d, "entered")
  /\ UNCHANGED <<rows, scheduled, lock, local>>

(* resume: the locked read; start_run and run_resumed stay pending, and the*)
(* row stays locked, until the first decision of the planner is committed. *)
ResumeRun(d) ==
  /\ at[d] = "new"
  /\ lock = Nobody
  /\ status = "waiting_user"
  /\ lock' = d
  /\ pending' = [pending EXCEPT ![d] = "running"]
  /\ answering' = answering \cup {d}
  /\ Goto(d, "entered")
  /\ UNCHANGED <<rows, scheduled, local>>

(* 409: the run is in neither status. *)
RequestRejected(d) ==
  /\ at[d] = "new"
  /\ lock = Nobody
  /\ status \notin {"waiting_user", "running"}
  /\ Goto(d, "done")
  /\ UNCHANGED <<rows, scheduled, lock, pending, local, answering>>

(* count_plans and turn_indices_by_role, read once per pass. *)
ReadCounters(d) ==
  /\ at[d] = "entered"
  /\ revision' = [revision EXCEPT ![d] = plans]
  /\ turnIndex' = [turnIndex EXCEPT ![d] = turns]
  /\ Goto(d, "planning")
  /\ UNCHANGED <<rows, scheduled, lock, pending, answering>>

-----------------------------------------------------------------------------
(* Work.                                                                   *)

(* trace: one turn row, then a commit.  The unique key (run, role, index)  *)
(* refuses an index that another driver has used.                          *)
TurnCommitted(d, role) ==
  /\ CanWrite(d)
  /\ turns[role] < MaxTurns
  /\ turnIndex[d][role] = turns[role]
  /\ turns' = [turns EXCEPT ![role] = @ + 1]
  /\ turnIndex' = [turnIndex EXCEPT ![d][role] = @ + 1]
  /\ Commit(d)
  /\ UNCHANGED <<plans, scheduled, revision>>

TurnRefused(d, role) ==
  /\ CanWrite(d)
  /\ turnIndex[d][role] < turns[role]
  /\ Goto(d, "raising")
  /\ UNCHANGED <<rows, scheduled, lock, pending, local, answering>>

PlannerDecides(d) ==
  /\ at[d] = "planning"
  /\ \/ TurnCommitted(d, "planner") /\ Goto(d, "decided")
     \/ TurnRefused(d, "planner")

(* create_plan, plan_created, checkpoint; the unique key is (run, revision)*)
PlanCommitted(d) ==
  /\ at[d] = "decided"
  /\ CanWrite(d)
  /\ revision[d] = plans
  /\ plans < MaxPlans
  /\ plans' = plans + 1
  /\ revision' = [revision EXCEPT ![d] = @ + 1]
  /\ Commit(d)
  /\ Goto(d, "executing")
  /\ UNCHANGED <<turns, scheduled, turnIndex>>

PlanRefused(d) ==
  /\ at[d] = "decided"
  /\ CanWrite(d)
  /\ revision[d] < plans
  /\ Goto(d, "raising")
  /\ UNCHANGED <<rows, scheduled, lock, pending, local, answering>>

ExecutorDecides(d) ==
  /\ at[d] = "executing"
  /\ \/ TurnCommitted(d, "executor") /\ UNCHANGED at
     \/ TurnRefused(d, "executor")

StepReplans(d) ==
  /\ at[d] = "executing"
  /\ Goto(d, "planning")
  /\ UNCHANGED <<rows, scheduled, lock, pending, local, answering>>

(* finish_run and its event: written over whatever status the row has. *)
FinishRun(d, ending) ==
  /\ at[d] \in {"planning", "decided", "executing"}
  /\ ending = "succeeded" => at[d] = "executing"
  /\ CanWrite(d)
  /\ lock' = d
  /\ pending' = [pending EXCEPT ![d] = ending]
  /\ Goto(d, "returned")
  /\ UNCHANGED <<rows, scheduled, local, answering>>

(* Mutant: the recovered pass is marked as queued again. *)
AutoRecoverQueues(d) ==
  /\ at[d] = "returned"
  /\ pending[d] = "waiting_user"
  /\ pending' = [pending EXCEPT ![d] = "queued"]
  /\ Goto(d, "entered")
  /\ UNCHANGED <<rows, scheduled, lock, local, answering>>

(* The pass paused and the harness goes on by itself: start_run again. *)
AutoRecover(d) ==
  /\ at[d] = "returned"
  /\ pending[d] = "waiting_user"
  /\ pending' = [pending EXCEPT ![d] = "running"]
  /\ Goto(d, "entered")
  /\ UNCHANGED <<rows, scheduled, lock, local, answering>>

DriverCommits(d) ==
  /\ at[d] = "returned"
  /\ Commit(d)
  /\ Goto(d, "done")
  /\ UNCHANGED <<plans, turns, scheduled, local>>

-----------------------------------------------------------------------------
(* Failures.                                                               *)

(* Any exception: a lock wait that timed out, a sequence computed from a   *)
(* stale snapshot, an error outside the model gateway.                     *)
Raises(d) ==
  /\ Live(d)
  /\ at[d] \notin {"raising", "closing"}
  /\ Goto(d, "raising")
  /\ UNCHANGED <<rows, scheduled, lock, pending, local, answering>>

(* execute_queued_run's except branch: rollback ... *)
WorkerRollsBack ==
  /\ at[Worker] = "raising"
  /\ Rollback(Worker)
  /\ Goto(Worker, "closing")
  /\ UNCHANGED <<rows, scheduled, local>>

(* ... then the run is closed as failed, whatever it is by now. *)
WorkerClosesRun ==
  /\ at[Worker] = "closing"
  /\ CanWrite(Worker)
  /\ status' = "failed"
  /\ Goto(Worker, "done")
  /\ UNCHANGED <<plans, turns, scheduled, lock, pending, local, answering>>

(* An exception inside the except branch: the run stays as it is. *)
WorkerCloseFails ==
  /\ at[Worker] = "closing"
  /\ Goto(Worker, "done")
  /\ UNCHANGED <<rows, scheduled, lock, pending, local, answering>>

(* 500: the session of the request is closed without a commit. *)
RequestRollsBack(d) ==
  /\ d # Worker
  /\ at[d] = "raising"
  /\ Rollback(d)
  /\ Goto(d, "done")
  /\ UNCHANGED <<rows, scheduled, local>>

(* The process stops with every driver in it; the database rolls back. *)
Crash ==
  /\ scheduled \/ \E d \in Drivers : Live(d)
  /\ scheduled' = FALSE
  /\ lock' = Nobody
  /\ at' = [d \in Drivers |-> IF Live(d) THEN "done" ELSE at[d]]
  /\ pending' = [d \in Drivers |-> "none"]
  /\ answering' = {}
  /\ UNCHANGED <<rows, local>>

-----------------------------------------------------------------------------
Enter(d) == RecoverRun(d) \/ ResumeRun(d) \/ RequestRejected(d)

Pass(d) ==
  \/ ReadCounters(d)
  \/ PlannerDecides(d)
  \/ PlanCommitted(d)
  \/ PlanRefused(d)
  \/ ExecutorDecides(d)
  \/ StepReplans(d)
  \/ \E ending \in {"waiting_user", "succeeded", "failed"} :
       FinishRun(d, ending)
  \/ AutoRecover(d)
  \/ DriverCommits(d)

DriversNext ==
  \/ WorkerTakesRun
  \/ RunStarted
  \/ \E d \in Requests : Enter(d) \/ RequestRollsBack(d)
  \/ \E d \in Drivers : Pass(d) \/ Raises(d)
  \/ WorkerRollsBack
  \/ WorkerClosesRun
  \/ WorkerCloseFails
  \/ Crash

DriversSpec == DriversInit /\ [][DriversNext]_driversVars

-----------------------------------------------------------------------------
(* Properties.                                                             *)

DriversTypeOK ==
  /\ status \in RunStatus
  /\ plans \in 0..MaxPlans
  /\ turns \in [Roles -> 0..MaxTurns]
  /\ scheduled \in BOOLEAN
  /\ lock \in Drivers \cup {Nobody}
  /\ at \in [Drivers -> {"new", "starting", "entered", "planning", "decided",
                        "executing", "returned", "raising", "closing", "done"}]
  /\ pending \in [Drivers -> {"none", "running", "waiting_user", "succeeded",
                             "failed"}]
  /\ revision \in [Drivers -> 0..MaxPlans]
  /\ turnIndex \in [Drivers -> [Roles -> 0..MaxTurns]]
  /\ answering \subseteq Drivers

(* Two drivers never both have an uncommitted status of the run: whoever   *)
(* wrote one holds the row until it commits or rolls back, also across the *)
(* model call a resumed run makes before its first commit.                 *)
PendingStatusIsLocked == \A d \in Drivers : pending[d] # "none" => lock = d

(* One answer per pause: while a resume is uncommitted nobody else answers *)
(* the same pause, and the run is still committed as waiting for it.       *)
ResumeIsExclusive ==
  /\ \A d, e \in answering : d = e
  /\ answering # {} => status = "waiting_user"

(* The row is never left locked by a driver that is gone. *)
LockIsNeverLeaked == lock # Nobody => Live(lock)

(* Checked and refuted (see the README's findings): "a run is immutable    *)
(* and cannot be resumed" once its status is terminal (is_terminal_run).   *)
TerminalRunIsImmutable ==
  [][(status \in TerminalRunStatuses) => (status' = status)]_driversVars

=============================================================================
