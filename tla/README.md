# pev-career-assistant: verification models

TLA+ models of the career assistant's agent harness, of its profile store and of
its job discovery, the TLC runs that check them on small instances, and the
theorems TLAPS proves about them. Paths are
relative to the repository; `runtime.py`, `service.py`, `completion_gate.py`
and `error_policy.py` are in `backend/app/services/agent_runtime/`,
`repository` is `backend/app/repositories/agent_runtime.py` and `routes` is
`backend/app/api/routes/agent_runtime.py`; `runtime/` is
`skill/job_discovery/runtime/` and `scripts/` is `skill/job-discovery/scripts/`.

Contents: 1 the system; 2 the modules and the code they stand for; 3 the runs,
bounds and fairness; 4 disagreements found; 5 the proofs; 6 what is not
modelled; 7 the plan.

## 1. The system

A user submits a goal. A *run* is stored as queued, taken by a background
thread, and driven through a Planner / Executor / CompletionGate (PEV) loop
that stores plans, steps, turns, artifacts and events in MySQL. The run may
stop to ask the user (`waiting_user`), is resumed or recovered by HTTP
requests, and its events are followed by a browser over server-sent events.

| Component | State | Operations | What is hard | What makes it correct |
|---|---|---|---|---|
| Run lifecycle (`domain/agent_runtime.py`) | status of a run | transition table | nothing calls it: the repository assigns statuses directly | every committed change is one of the table |
| PEV runtime, passes (`runtime.py` 426-1029) | run, plans, steps, counters in memory rebuilt on entry | run, resume, recover, auto-recover, plan, replan, finish | commits in the middle of a pass, crashes, four ways back into the loop, budgets rebuilt from rows | bounded plans and passes, no plan for ever, success means every step succeeded, pauses mean nobody works |
| PEV runtime, one step (`runtime.py` 1031-1908, `completion_gate.py`, `error_policy.py`) | evidence, result, verdict, retries | invoke, accept, rescue, replan, retry, pause, fail | a dozen branches whose order matters | success is backed by tool evidence; retries make progress; access controls are not worked around |
| Drivers (`service.py`, `routes`, `repository`) | row lock, transactions, counters in memory | execute_queued_run, resume_run, recover_run | several sessions drive one run | one driver per pause; no lock outlives its driver |
| Events and stream (`repository` 337-384, `routes` 279-328, `AgentWorkspace.vue`, `agentRuntimeApi.ts`) | event rows, cursor, connection, list shown | append, replay, follow, select, reconnect | snapshots of transactions, late answers, broken connections | gap-free log, nothing skipped, the list is a prefix, events arrive |
| Budgets (`model_budget.py`, `tool_budget.py`, `turn_budget.py`) | counters per pass | reserve, record, cancel, consume | failed calls leave no row; recovery recounts rows | every request is counted and nothing stays reserved |
| Planner, gateway (`planner_agent.py`, `model_gateway.py`) | decisions, retries, the plan in hand | decide, repair, fall back | bounded retries under shared budgets; repairs undo each other | no request beyond a ceiling; a plan keeps what the goal asks |
| Executor (adapter `executor_agent.py`; the package it imports is not in the repository) | - | run a step's tools | everything it returns is untrusted by the runtime | see the step |
| Tools and skills (`tool_registry.py`, `skill_*.py`, `career_skills/`) | static registries; child processes | register, execute, run scripts | role checks, timeouts that kill a script anywhere | a role only reaches its tools |
| Profiles (`services/profiles.py`, `repositories/profiles.py`, `routes/profiles.py`) | profile version, assets, imports, evidence, decisions, confirmed versions | upload, reconcile, delete, purge, import, decide, confirm, refer, activate | snapshots older than the lock, two stores without a common transaction | a confirmed version consists of the latest decisions; no ready row without its object |
| Object store (`storage.py`) | encrypted objects | put, inspect, get, delete | partial failure | an object reads back as written or not at all |
| Accounts, rate limits (`auth.py`, `rate_limit.py`, `routes/auth.py`) | users; windows in Redis | register, log in, check | check-then-insert, window expiry | one user per account; a window always ends |
| Public pages (`runtime/job_discovery.py`, `wechat_slice.py`, `batch_progress.py`) | blocked domains, failures, one browser, image files | fetch a batch, route, request, render, expand, OCR | threads over shared lists and files | every page asked for is captured or explained |
| Discovery recovery (`runtime/recovery.py`, `_tool_context`) | blocked domains and spent searches of a context, references | fetch at hand, expand, seeds, search, extract | contexts are copied shallowly or rebuilt | searches are spent once; a recovery ends |
| Page walks (`scripts/browse.py`, `coverage_gate.py`) | tab, texts, threads | six modes with fallbacks | dead clicks, walls, errors, order of threads | what the gate passes is the whole list |
| Candidates (`scripts/write_candidates.py`, `deduplicate.py`, `coverage_gate.py`) | one file per page, merged file | write, merge, judge | processes without a lock, killed at any step; four notions of identity | nothing reported is lost; openings are neither merged nor counted twice |
| Site crawl (`scripts/crawl.py`, `state.py`, `anti_crawl/`) | registry with backup, quota, cache, browser profile | check, crawl, mark | overlapping marks, damaged files, challenges | a list is skipped only if it was taken; the cap holds |
| Matching, tailoring, planning skills (`skill/job_matching` and others) | none | score, compose | none | contracts of their results |
| Frontend (`frontend/src`) | selected run, list of events, profile form, token | select, submit, resume, recover, decide | answers out of order | shows what the server has |
| Schema, migrations, deployment, scripts, docs, tests | - | - | - | - |

How they interact. A request authenticates in the database session it then
works in. `POST /agent/runs` commits a queued run and adds a background task
that exists in the memory of the process only. The task and the resume and
recover requests call `AgentRuntime.run`, `.resume`, `.recover` in their own
sessions; `expire_on_commit=False` keeps what they read. Every turn of an agent
commits (`_checkpoint`), and with it whatever the session holds. The stream
endpoint polls the event rows; the browser merges them into a list it got from
another request.

The hazards this leads to, each at its line, are in `PROJECT.json`.

## 2. Modules

| Module | Role |
|---|---|
| `RunLifecycle` | abstract specification: the statuses and allowed transitions of the domain, plus the one transition the worker adds (a queued run may fail before it starts) |
| `PevRun` | one run under one driver at a time; implements `RunLifecycle` |
| `StepRun` | one planned step; computes the outcome that `PevRun` chooses |
| `RunDrivers` | several drivers of one run, the row lock and the unique keys; a pass is reduced to turns, plans and a closing status |
| `EventStream` | appenders, the log of events, the endpoint and the browser view |
| `PlannerLoop` | the planner of a run, the gateway's requests, the three budgets and what is rebuilt of them |
| `Profiles` | requests on one user's resume files, imports, decisions and confirmed versions, over rows and encrypted objects |
| `PublicFetch` | one batch of public pages on a pool of threads |
| `DiscoveryRecovery` | the discovery steps of a pass: executor, recovery, extraction, retry |
| `BrowsePages` | one invocation of `browse.py` and the gate's verdict on it |
| `Candidates` | the writer's calls, the merge and the gate |
| `SiteCrawl` | crawls and marks of the lists of a site with login |
| `MC*` | instances for TLC |
| `PevRunProofs`, `RunExecutionProofs`, `EventStreamProofs`, `ProfilesProofs`, `PlannerLoopProofs`, `SkillRuntimeProofs`, `CrawlScriptsProofs`, `CandidatesProofs` | the theorems; `RunExecutionProofs` is about `StepRun` and `RunDrivers`, `SkillRuntimeProofs` about `PublicFetch` and `DiscoveryRecovery`, `CrawlScriptsProofs` about `SiteCrawl` and `BrowsePages` |

The interfaces between the modules: `PevRun` lets a step pause with any class
of contract, replan for any reason that is allowed, succeed or fail. `StepRun`
shows under which evidence each of these happens, and `ConversionsAreAllowed`
is the fact that `PevRun` uses as a guard (`MayRequestReplan`). `RunDrivers`
refines nothing of `PevRun`; it drops the contents of a pass and keeps what
two sessions can see of each other. `PlannerLoop` computes the outcome (a plan,
a question, a failure) that `PevRun` chooses for the planner, and
`DiscoveryRecovery` the evidence that `StepRun` takes as a set of facts.
`PublicFetch` is one fetch of `DiscoveryRecovery` in detail, `BrowsePages` one
script that an executor runs on a list, and `Candidates` what becomes of the
pages it leaves.

**PevRun.** `durable` holds the committed rows and `session` what the driver's
transaction sees: an operation changes `session`, a commit copies it to
`durable`, `Crash`, `WorkerRaises` and `RequestRaises` throw it away. That is
the shape of the code, where SQLAlchemy objects change in memory and
`_checkpoint` makes them durable. `pc` is the place in `_run_once`:
*starting*, *planning* (the planner is called), *proposed* (guards of lines
679-746), *stepping* (the loop over steps), *executing* (inside `_run_step`),
*returned* (`_auto_recover` decides). Plans are identified up to
`_plan_fingerprint`; `Shape` says which are isomorphic. A pause is the class of
its terminal contract: `model_decision` (eligible for auto-recovery),
`source_block`, `hard_stop`. `PlannerTurn` is the commit of a decision turn and
may occur whenever an agent works.

**StepRun.** The evidence of a step is the set of facts that the code's
predicates ask for (`deliverable`, `stored`, `routing`, `zero_scan`, `blocked`,
`external`, `forbidden`, `unknown_tool`, `role_mismatch`); each invocation of
the executor may add some. The actions follow the order of the branches of
`_run_step`; each guard includes the negation of the earlier ones. Branches
that no answer reaches are left out, because `RetryMeansUnmet` holds or because
of the gate's rules: `runtime.py` 1597-1617, 1671-1711, 1772-1792, 1801-1813,
1846-1870, 1884-1899 and 1900-1907.

**RunDrivers.** A driver enters, reads counters, appends turns and plans under
their unique keys, and closes the run. Writing a status takes the row lock,
which a commit or rollback releases; `pending` is the status written and not
committed. `get_run_for_owner(for_update=True)` waits for the lock. The
specification is `DriversSpec`; its names differ from those of `StepRun`, since
one module holds the proofs about both.

**EventStream.** An event is its number. `reads` is the isolation level:
`"statement"` (SQLite of the tests, READ COMMITTED) or `"transaction"`
(REPEATABLE READ, the default of the deployed MySQL, which
`backend/app/db/session.py` does not change). Under the latter a plain SELECT
sees the snapshot of the transaction's first read. The browser side has the
list shown, answers of GET requests under way, one connection, and the events
on the wire.

**PlannerLoop.** `budget` holds the counters in memory and `stored` the turns
that the next pass counts again (`Starts`). A decision is a chain of requests:
`Reserves` (`try_reserve`), then `Raises` (`cancel`) or `Answers` (`record`),
which may ask again in another kind; `Decides` stores the turn. A plan is a
sequence of skills with or without a declared artifact; `Trim`, `Completed`
and `Fallback` are the repairs of `planner_agent.py`, `Authorised` the
validators of the result. `spent` is history: what was sent, also by passes
that crashed.

**Profiles.** `Begins` takes the snapshot in which `get_current_user` reads;
later reads of the request see it. What `get_profile_for_update` protects is one
step up to its commit. An upload is three steps (row, object, mark), a deletion
two (rows, object), an import three (row, *parsing*, result); a session may die
between any two (`Dies`). `Restricted` is what the foreign keys refuse.

**PublicFetch.** A thread walks the phases *check* (blocked domain), *request*,
*wait* and *render* (the browser's lock), *record* (a refusal remembers the
domain) and those of the OCR slice. A URL that lists jobs gets a queue of
links; `Serve` and `Reject` say what a page or a failure means for the item
and its queue. `Gather` builds the answer when all threads are done.

**DiscoveryRecovery.** `step` says how the context of the step relates to that of
the pass: the same, a shallow copy (the list of searches is shared, the domains
are not), or a new one after a retry. The stages are the stretches of
`recover_discovery_evidence` in their order; `Stop`, `Retry`, `Replan` and
`Succeed` are what the step does with their result.

**BrowsePages.** A text is the set of list pages whose jobs it shows, so that a
page appended in place, a repeated page and an echo of the first page differ.
The stages follow the modes; `Settles` and the worker actions are the pool of
`browse_parallel_fetch_mode`. `missed` records the pages that a dead click or an
unloaded page hides, which no script can notice.

**Candidates.** A call of the writer is `Load` (read the file), `Open` (the file
is empty) and `Fill`; `Kill` ends it anywhere, leaving a torn file if it was
open. `Processed` is `deduplicate.process` with its passes in order. Of these,
`Clusters` places row after row, where the code first groups the rows by
identity and then clusters each group: the clusters are the same, only their
order in the list differs, and no later pass or verdict depends on it.
`Identity`, `JobIdentity` and `GateIdentity` are the three notions of identity
of the three scripts.

**SiteCrawl.** `live` and `backup` are the registry and its copy, `marking` the
processes of `state.py mark` between their reads and writes, `crawl` the one
crawl that the browser profile admits, `quota` the day's count, `cache` the
crawl's own cache. Contents are numbered by version, so that "older than" can be
said; `due` is the version a row's last edit stands for.

## 3. Runs

Run each with `tlc -workers 2 -config <cfg> <module>`.

| Run | States | Shows |
|---|---|---|
| `PevRun` | 753 000 | `NoPlanAcceptedThrice`, `PlansBoundedByPasses`, `SucceededRunIsCovered`, `CommittedPauseIsQuiet`, `LifecycleImplemented`, `DriverTerminates` |
| `RunDrivers` | 625 000 | `ResumeIsExclusive`, `LockIsNeverLeaked` |
| `RunDriversTerminal` | - | `TerminalRunIsImmutable`, a claim of the code's documentation, refuted (section 4) |
| `StepRun` | 684 000 | `SucceededStepIsBacked`, `ConversionsAreAllowed`, `InvocationsAreEarned`, `BlockedIsNeverRetried`, `StepEnds` |
| `EventStream` | 219 000 | `LogIsGapFree`, `NothingIsSkipped`, `ViewIsPrefix`, `CollisionMeansStale`, `FollowerCatchesUp` |
| `PlannerLoop` | 267 000 | `RequestsAreCounted`, `PlansServeTheGoal`, `NoneBeyondCeiling` |
| `Profiles` | 1 331 000 | `ReadyHasObject`, `NothingDangles`, `ConfirmsLatest` |
| `PublicFetch` | 351 000 | `NothingHidden`, `FailuresAreExplained`, `BatchIsAnswered` |
| `DiscoveryRecovery` | 2 619 000 | `RoutesAreShared`, `RecoverySearchIsAllowed`, `RecoveryEnds` |
| `BrowsePages` | 67 000 | `WallWins`, `CapturedInOrder`, `GateIsSound` |
| `Candidates` | 1 691 000 | `AnsweredIsKept`, `RoutesStayApart`, `GateIsSound` |
| `SiteCrawl` | 6 571 000 | `SkipIsSafe`, `StateIsRecoverable`, `CapHolds`, `FirstPageIsClear` |

Every property of a passing run has a mutant, a plausible bug in a definition
of the model, under which TLC finds it violated; they are the operators whose
comment begins with "Mutant". Each module's `TypeOK` holds in the same
instances, as do `PendingStatusIsLocked`, `RetryMeansUnmet` (both proved),
`ItemsAreAnswered` and `StopsAtEvidence`: name them as INVARIANT in the cfg to
check them. The remaining cfgs are the counterexamples of section 4.

**Bounds.**

- `PevRun`: three plans, two of them isomorphic and of two steps, one of one
  step, which are enough for duplicate, isomorphic and fresh proposals and for
  a step before and after the failing one. `MaxReplans = 2` with
  `ReplanCap = 3` lets a stepped-up budget reach its cap;
  `MaxAutoRecoveries = 1`. `MaxPasses = 3` stops new resumes and recoveries
  after three passes: first pass, one after a pause or crash and one after
  that, where rebuilt counters are rebuilt again. The bound only guards
  `ResumeRun` and `RecoverRun`.
- `RunDrivers`: the worker and two requests, two turns per role and two plans:
  three sessions compete for the lock, and indices collide.
- `StepRun`: `MaxReplans = 2` (first attempt, a retry, a retry without
  progress) and `FreshFacts`, what one invocation adds: nothing, any single
  fact, or pairs that the branches weigh against each other. Facts accumulate,
  so larger sets arise over retries.
- `EventStream`: four events, two appenders, one tab, two histories under way:
  a commit can be hidden, a late answer can be older or newer than the list.
  Tabs do not interact, so one is enough.

- `PlannerLoop`: two passes, so that one starts from stored turns; three
  requests, three turns, four tokens of which a request takes one or two: each
  budget can be the first to run out, in the middle of a decision too. Plans of
  up to three steps and five goals (none, matching, tailoring, each with the
  authority that matters): a repair can meet every kind of neighbour.
- `Profiles`: two sessions, one file with one import of one fact, three
  versions. A deletion can meet an import in each of its steps, and a
  confirmation a decision taken meanwhile.
- `PublicFetch`: a posting of a portal with two indexes, a list on a second
  domain, a posting by itself and an illustrated article; two threads, one
  browser. Two items share a domain and can be refused at either end.
- `DiscoveryRecovery`: three URLs on two domains, two steps, one retry, two
  calls per invocation, three routes, seven tool calls: the shared context, the
  copy and the new one all occur, and the tool budget can run out anywhere.
- `BrowsePages`: lists of one to four pages, at most three captured (the cut), two
  threads, two attempts per page.
- `Candidates`: two pages, two calls at a time and three per page of at most two
  candidates; three worlds: openings with routes, openings of one template with
  and without routes, and a list whose own URL is copied into each row.
- `SiteCrawl`: two lists of two pages, a cap of two pages a day over two days, two
  attempts per load, two edits, two marks, one damaged file: two marks can
  overlap, and a crawl can meet the cap and midnight.

Symmetry is declared where only safety is checked: over threads, sessions, calls
and lists that nothing tells apart.

Deadlock is checked in `PublicFetch`, `DiscoveryRecovery`, `BrowsePages` and
`SiteCrawl`, whose finished states have an explicit stuttering action or which
can always go on (a day passes, a probe is made). It is not checked elsewhere: a
finished run, a closed step, a run without further passes, a full log, requests
that are all served and calls that are used up stop the models, as they stop the
program.

**Fairness.**

- `PevRun`: weak fairness of `Driver`, the actions of a driver. A thread of the
  process runs on; the calls it waits for have timeouts and the loops they are
  made in are bounded. Crashes, users and the start of a task are not fair:
  `DriverTerminates` says that a driver which is at work stops.
- `StepRun`: weak fairness of `Next`; the executor is called under a deadline.
- `EventStream`: weak fairness of the endpoint's answer, yields and polls and
  of the reader in the tab. Nothing is assumed of appenders, users and the
  network, so `FollowerCatchesUp` concludes "or the connection ended".
- `PublicFetch`: weak fairness of each thread and of the gathering. Requests and
  renders have timeouts, and the browser's lock is a `with` block, so a thread
  that can go on does.
- `DiscoveryRecovery`: weak fairness of the recovery's own steps, which run in
  the thread of the pass without waiting for anybody.
- The other modules state no liveness property and no fairness.

## 4. Disagreements found

In each of these instances TLC violates what the repository says. The names are
those of the cfgs, whose module is the `MC` module of the same component;
`RunDriversTerminal` is listed as a run with its finding, the others are kept
beside the runs. `PlannerPromises` and `DiscoveryPromises` name two properties
each and are run with `-continue`.

1. `PevRunGuard`: an oscillation guard's pause is auto-recovered.
   `_last_needs_user_contract` skips the guards' event types and finds the
   contract of an earlier pause (`runtime.py` 113, 446-466; against 510-511).
2. `PevRunReplans`: replans are recounted from plans, so one that was granted
   and committed and whose plan was not stored yet is spendable again after a
   crash (`runtime.py` 619; against 617-618 and `README.md` 65).
3. `RunDriversTerminal`: recover accepts a run whose driver is alive; the
   second of the two drivers to finish overwrites a terminal status
   (`repository` 147-163; against `domain/agent_runtime.py` 95).
4. `StepRunBlocked`: pauses of rejected completions and expired deadlines drop
   the step's observations, so a blocked source is not marked and the pause is
   auto-recoverable (`runtime.py` 1466-1473, 1527-1540; against 470).
5. `StepRunRescue`: a routing step with blocked evidence is rescued
   (`runtime.py` 1251-1268, 1353-1369, 1402-1420; against 3110-3111).
6. `EventStreamCollides`: the row lock does not serialize the allocation of
   sequence numbers, since the maximum is read from an old snapshot
   (`repository` 348-350; against 345-346). The loser gets an integrity error:
   a 500 for a request, `run_failed` for a driver. `CollisionMeansStale` shows
   that nothing else causes it.
7. `EventStreamStalls`: with REPEATABLE READ a stream that lives in one session
   never sees an event committed after its first read, until the tab
   reconnects (`routes` 304-322; against `repository` 370-371). Some versions
   of FastAPI that `requirements.txt` allows close the session before the body
   is sent; `SessionCloses` models this, and the stall remains from the next
   read on. With fresh reads events do arrive (`FollowerCatchesUp`).

8. `PlannerPromises`, `SpentStaysSpent`: the requests of a pass are rebuilt from
   stored turns, one
   each, so a decision that took several, or that failed, is partly free after
   a restart (against `README.md` 65).
9. `PlannerPromises`, `PlansHaveSteps`: `_trim_unrequested_trailing_steps`
   copies a plan without
   validating it; a plan whose first step nobody asked for is left without
   steps (against `min_length=1` of `ExecutionPlan.steps`).
10. `ProfilesTie`: two decisions of one instant are ordered by their ids, which
    are random, so the one committed last need not be the one confirmed
    (`ConfirmsLast`; `repositories/profiles.py` 213-233). The order is the one
    that `docs/superpowers/plans/2026-07-16-talent-profile-resume-lifecycle.md`
    843 asks for; what it does not give is its 960, the *latest* decision.
11. `PublicFetchProbes`: an item whose index was refused goes on with the next
    index of the same domain (`RefusedDomainIsLeft`; `runtime/job_discovery.py`
    2013-2018, against `tests/unit/test_pev_job_discovery_skill.py` 245).
12. `PublicFetchOcr`: articles of one batch write their images to the same
    numbered files, so one article may get the text of another (`OcrTextIsOwn`;
    `wechat_slice.py` 878).
13. `DiscoveryPromises`, `BlockedUrlIsNotRetried`: a page that was refused is
    fetched again when a search returns it, because a step in a copied context
    remembers the domain elsewhere (against `runtime/recovery.py` 498, "no
    blocked URL is retried"). `RecoverySearchIsAllowed`, with a long goal: the
    variants of the goal are made distinct first and cut to 380 characters
    afterwards (`recovery.py` 175-186), so from some 377 characters on (a goal may
    have 8000, `schemas.py` 108) two of them are equal and the recovery sends a
    search that the tool refuses as spent, which the choice of a variant "whose
    route hash has not been used" (160-163) is there to avoid. The proof of this
    property led to it; `SearchesAllowed` states the hypothesis that is missing.
14. `BrowseFallback`: the fallback to clicks starts where the detection left the
    tab and misses the pages before (`PassIsComplete`; `browse.py` 1270, against
    1155-1156 and `coverage_gate.py` 79).
15. `CandidatesTwins`: the writer's identity is company, title and place; of two
    openings that differ in route and text it keeps one (`TwinsAreKept`; against
    `coverage_gate.py` 45-47).
16. `CandidatesEchoes`: a row without a description is dropped for a full one
    with its title, whatever the company (`EchoesAreOwn`; against
    `deduplicate.py` 362).
17. `SiteCrawlStale`: `crawl.py` answers from its cache (385-404), which has no
    time, so a row edited since is marked with the old content (`SkipIsFresh`;
    against `references/incremental-persistence.md` 16, "Re-browse").

6 and 7 depend on the isolation level of the deployment: `docker-compose.yml`
starts MySQL 8.4 with its default.

## 5. Proofs

`tlapm <module>` checks each of the eight proof modules. The theorems hold for
every value of the constants that satisfies the named assumptions, that is
without the bounds of section 3 (`MaxPasses`, `MaxEvents` and so on are
arbitrary naturals).

Assumptions: `PlansAssumption` and `BudgetAssumption` (a plan has at least one
step, `NoPlan` is none, budgets are naturals and the cap is not below the
submitted budget), `DriversAssumption` and `BoundsAssumption` (names are
distinct, requests are finitely many), `StepAssumption`, `EventsAssumption`,
`ProfilesAssumption` (each fact has the import that finds it, and facts are
finitely many), `FetchAssumption` (a batch names each URL once),
`PlannerAssumption` and `GoalsAssumption` (ceilings are positive, bounds are
naturals, goals are tasks), `DiscoveryAssumption` (the sets of URLs are sets of
URLs, budgets are naturals, a pass has a step), `BrowseAssumption` (a list of
one page has no pager, and only such a list; limits and retries are positive),
`SiteCrawlAssumption` (the same of caps, lengths and bounds) and
`CandidatesAssumption` (pages are numbered from 1 and there is one; pages and
openings are finitely many; what can be extracted is a row). Besides,
`SearchesAllowed` assumes `HintsDiffer`, `RegistrySurvivesOneFault`
`MaxFaults <= 1`; section 4 and the runs show why.

Some definitions run through a sequence by a recursive function: `Remaining`
(decisions left after a deletion), `Collected` (links of a list), `Left`
(queries not spent), `Rendered` (texts of the pool) and, in `Candidates`,
`Filtered`, `Accumulated`, `Loaded` and `Clusters`. They are first-order, so
induction over the length can be replaced by a least counterexample: lemma
`Least` gives the least member of a set of numbers from `WFMin` and the order of
the naturals, and lemmas such as `UptoExists` give the functions themselves. Their
values are then characterised step by step (`KeptOf`, `LeftWell`, `UptoWell`).
`CandidatesProofs` states this once: `Recursion` says that a sequence of values in
which each follows from the one before exists, and `Climbs` that what holds at
first and from one number to the next holds in the end.

**PevRunProofs.** The invariant is built in layers, each proved from those
before.

- `TypeInv`: `TypeOK`, and a plan in hand where the loop needs one.
- `ControlInv`: what the place of the driver says of `session.status` and
  `durable.status`. It is needed because `CommittedPauseIsQuiet` alone is not
  inductive: a commit may copy any status, so one has to know that the session
  is running wherever a turn may commit, and that only an uncommitted resume
  sits above a durable pause.
- `DuplicateInv`: no plan thrice, in `session` and in `durable`, since a
  rollback returns to the latter.
- `BoundInv`: in the loop the plans stored are at most the replans consumed
  plus one, or plus two for a later pass. The relation has to survive
  re-entry, where replans are recounted from plans, hence the separate clause
  for the first pass.
- `CoverInv`: all steps before the current one succeeded.

`LifecycleRefined` shows that initial states map to initial states and each
step to an allowed transition of `RunLifecycle` or a stutter; `ControlInv`
gives the status each commit replaces.

`PassesDescend` is the measure behind `DriverTerminates`: whatever a driver does
within a pass that does not end it lowers, in this order, the automatic
recoveries left, the replans left, the stations before the pass returns, or the
moves of the plan in hand. An automatic recovery may raise the budget, so it has
to come first; a pass that starts with more plans than its budget allows has no
replan left.

**RunExecutionProofs.** For `RunDrivers`, `DriversInv`: a written status means
holding the lock, every uncommitted resume is a request with a written status,
and the committed status it read is unchanged, because every other writer needs
the lock. For `StepRun`, `GateInv` ties the verdict to the evidence it was computed
from, `CountInv` ties invocations, retries and the last fingerprint together,
`OutcomeInv` is proved for each closing action from its guard.
`RetryMeansUnmet` and `BlockedIsNeverRetried` follow from `GateInv`.

`StepRun` gives each check of `_run_step` an action with a guard of its own.
`StepInOrder` states the same method as one chain of IF and ELSE in the order of
the code, with the branches that `StepRun` leaves out, and `ChecksInOrder` proves
the two equivalent, in both directions: no guard forgets an earlier check, some
check always applies, and the branches left out can never be taken. Those are, in
the code, the rescue of a routing step and the rescue of a verified zero match
under `NEED_USER` (`runtime` 1800-1868), the hand-off after a `PASS` whose
evidence is not backed, and the branches for blocked or forbidden evidence and
for a met contract under `RETRY_EXECUTOR`; `OrderInv` says what was settled before the gate.
`StepDescends` is the measure behind `StepEnds`: three moves for every invocation
that the replan budget still pays for.

**EventStreamProofs.** Every set of events in the model is an interval `1..k`:
the log, the snapshots, the histories under way, the list shown. `AppenderInv`
adds that the rows a transaction has flushed extend the *current* log, because
flushing needs the lock and a transaction that has flushed saw the whole log.
`Consistent` says of a tab that the list, the wire, and the batch are
consecutive intervals and the cursor is the end of the wire.
`NothingIsSkipped`, `ViewIsPrefix` and `CollisionMeansStale` are consequences.

`FollowersGetOn` is what `FollowerCatchesUp` needs step by step. For an event that
is committed and that a tab does not show, its distance is what the tab has
still to read and to show before it; the step that the tab waits for (a read, the
next event of the batch, a delivery) is possible, and brings the event nearer;
no step of appenders, other tabs or late answers takes it further away. The one
exception is a history read before the event was committed, whose answer may
still replace the list; their number only falls. It needs reads that see what is
committed (`reads = "statement"`): with the snapshot of the transaction a poll may
find nothing for ever.

**ProfilesProofs.** `IInv` joins four invariants. `FilesInv` adds to
`ReadyHasObject` where each session stands: one about to mark a file ready has
put its object, and one about to purge an object has committed the deletion of
its row; without that a purge could take the object of a file being marked.
`ImportsInv` says that a session that parses an import holds a row whose file
is still there, since a deletion waits for the lock or is refused. `DecisionsInv`
relates a snapshot to the committed rows: the same version means the same
decisions. `VersionsAreLatest` follows, as the version is compared under the
lock. `NothingIsOrphaned` adds `TrailInv`: each decision is on evidence that is
there. A deletion removes evidence, so it must remove exactly the decisions on
it; that is a lemma about `Remaining`. The lemmas say what moving, ending or
beginning a session leaves alone.

**PlannerLoopProofs.** `IInv` adds to `RequestsAreCounted` the types of the
counters and `TurnsTookRequests`: while an answer is at hand there is a request
on the budget that no stored turn stands for. That is what makes
`TurnsWithinCeiling` inductive over passes, where the budget is rebuilt from the
turns. `NoRequestBeyondCeiling` follows from the guard of a request and the
fact that nothing is reserved when it is made. `PlansServe` has an invariant
of its own (`ServedInv`) and rests on what the repairs return: a prefix
keeps what a plan has (`PrefixKeeps`), `Trim` ends with a step that somebody
asked for (`TrimEnds`), `Completed` appends the missing resume step
(`CompletedServes`), and the fall-back plan serves its goal (`FallbackServes`).
`PassesMoveOn` shows that the planner of a pass ends whatever the model answers:
each step leaves fewer turns, or the same turns and less of the turn, of which the
requests of one decision (structured, unstructured, retries) are the larger part.

**SkillRuntimeProofs.** For a batch (`PublicFetch`), `IInv` says where every
requested page is. `OnePage`: a thread is at its item's own URL until that has
given a page, and from then on the item cannot fail; `Apart`: no two threads
serve one item; `OneItem`: each page requested for an item is captured, failed, in
a thread's hands, or the item's own and the item failed (`Known`). `NothingHidden`
is what remains of `Known` when no thread is at work. `Cause` says of a paused
domain that a refusal explains it; it has to hold for the domains that threads
have *copied* too (`r.copy`), because they write the copy back without a lock.
For the recovery (`DiscoveryRecovery`), `Spent` says that before the first retry
the searches sent are the pass's list, through all copies of the context,
`Hungry` that
a recovery with a complete page requests nothing, and `Ready` that the
queries about to be sent are distinct, unspent, and fit the routes left in the
list of the context at hand, which after a retry is a new one.

Both parts have their measure. `BatchesMoveOn` (behind `BatchIsAnswered`): each step
of a busy thread lowers, in this order, the rounds through indexes of the portal,
the links and the moves at the page at hand, takes no item that was taken, and
leaves the other threads as they were; an index that is read lists pages of its
own, so the rounds come first. `RendererAlwaysHolds` says that only the
thread that renders holds the browser, so that those which wait do not wait for
each other. `RecoveriesMoveOn` (behind `RecoveryEnds`): each step of a recovery is at
a later stage or has fewer queries left; `RecoveryAsksLittle` bounds its batches
by four.

**CrawlScriptsProofs.** For `SiteCrawl`, `IInv` has one part per property.
`QuotaInv` adds to
`CapHolds` that wherever a page is about to be taken the day's count has not
passed the cap, and that the count is of today or of an earlier day, so that
midnight only lowers it. `TextsInv` says where the first page is before its text
is taken. For `SkipIsSafe`, `ContentInv` says that a crawl has read content no
older than its row (or comes from the cache), `MarksInv` carries this from the
crawl to the mark under way, to what returned marks recorded, and to every entry
of the live file, of the backup and of what a mark under way has read, so that
neither an overwriting mark nor a return to the backup brings in anything else.
`RegistrySurvivesOneFault` has an invariant of its own and assumes
`MaxFaults <= 1`: two damaged files lose the registry.

For `BrowsePages`, `BrowseInv` joins the three properties with what makes them
inductive. `PoolOK` says that the pool's pages and threads stay within the total
and that no thread works outside its stage, so that a wall, once settled, is
still there when the pool is closed (`WallWins`). `TabTells` says what a tab
has read: a walk shows the pages up to the one it is at, except where it began
where a probe left the tab, or where the list was not loaded again
(`missed`). With it the end of a list, seen by a walk, means the whole list, which is
`GateIsSound` for walks; for the pool it follows from `UptoWell`: texts without
a missing page are all pages, in order, and `DedupAdjacent` drops echoes only.

**CandidatesProofs.** First, what each pass of the data does, for every input.
`AccumulatedOK`: the file a call writes has every identity of the file it read
and of its batch, and none twice. `ClustersOK`: each cluster is made of rows of one
identity with routes that do not contradict each other, and each row that is no
placeholder is in one. `CombinedOK`, `ShrunkOK`, `ClearedOK`, `ProcessedOK`:
what is merged comes from such a cluster and cites the evidence of all its rows,
each full description is cited, and clearing takes nothing but shared routes.

Then the invariant, of four parts. `Typed`. `FileClean` and `CallClean`: what is in
a file or in a call's hands comes from its page, each identity once. `Orderly`:
on a page that nothing disturbed one call is under way at most, it has read what
the file has, and what was answered is in the file, or, while the file is empty, in
the call that emptied it; that is why `AnsweredIsKept` alone is not inductive.
`Late`: once merged, no call is under way, and the merged list and the verdict
are those of the files.

`AnsweredAlways` is `Orderly` carried through the passes. `RoutesApartAlways` rests
on `ClustersOK`: rows that cite a merged job's evidence have the routes of its
cluster (`RoutesTell`). For `GateAlwaysSound`, `RoutedOK` shows that where a route
determines the title no route is cleared, so that the gate's identity is the
route. The gate has seen as many identities as jobs, so the jobs cite different
openings (`AllDiffer`); they are as many as the site lists, so each opening is
cited (`AllReached`).

The proofs corrected the model three times. A clause of `AnsweredIsKept` on
linked titles was false in general (a job keeps the title of its first row, and
"within" is not transitive); it now names the evidence. `RoutesStayApart` was false
where two rows cite the same opening with different routes, which the instance
did not contain; `RoutesTell` is the hypothesis that was missing. And `Routed`
lacked parentheses, so that it did not constrain what the pages give.

Only model-checked: the liveness properties (`DriverTerminates`, `StepEnds`,
`FollowerCatchesUp`, `BatchIsAnswered`, `RecoveryEnds`), because fairness and
ENABLED are beyond the prover. What they need of the code is proved, for every
value of the constants: measures that fall and stay natural numbers
(`PassesDescend` and `PassesMoveOn`, `StepDescends`, `BatchesMoveOn`,
`RecoveriesMoveOn`) and, for a tab, the distance of an event (`FollowersGetOn`).
What remains to the runs is that fair scheduling takes the steps that are
possible. Every safety property of the passing runs is stated by a theorem.

No module declares a recursive operator.

## 6. Not modelled

- Contents: prompts, pages, scores, wording, payloads. The size limit of an
  event's payload (`repository` 48) is a hazard that no property covers: it
  would need the size of every contract.
- Artifacts: the insert race of `create_artifact` and the evidence that steps
  reload; `StepRun` takes the stored evidence as a fact.
- The executor's package, missing from the repository: `StepRun` and
  `DiscoveryRecovery` take every answer that its result type allows.
- Site adapters (`runtime/job_discovery.py`, one function per company) and the
  extraction of records: one outcome each.
- Of the crawling scripts: the clicks on detail cards of `crawl.py`, `login.py`,
  `ocr_image.py`, and the waiting times of pacing.
- The ledger of seen jobs, accounts and rate limits: one table or key each, with
  a unique key or an atomic increment; the loser of a race gets an error.
- The insertion of a user's first profile row, refused to one of two requests by
  the unique key.
- Pure functions over one value: parser, projections, redaction, scoring of
  matching, tailoring and planning skills.
- Migrations, deployment, scripts, frontend forms: DDL, configuration and layout
  without behaviour of their own.

`PROJECT.json` lists each component with its status.

## 7. Plan

Done: the run's lifecycle, passes, steps, drivers and events; the planner and
the budgets, profiles, public pages, discovery recovery, page walks, candidates
and site crawls, all with proofs.

Left, in order of importance:

1. Artifacts, with the snapshots of `EventStream`, joined to `StepRun`'s facts.
2. `PublicFetch` as the detailed form of the fetches of `DiscoveryRecovery`, by a
   refinement mapping from the failures of a batch to the outcome of a fetch.
