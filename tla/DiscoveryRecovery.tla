------------------------- MODULE DiscoveryRecovery -------------------------
(***************************************************************************)
(* What the runtime does for a job discovery step once the model stalls:   *)
(* recover_discovery_evidence and auto_extract_jd_details                  *)
(* (skill/job_discovery/runtime/recovery.py) with the tool context they    *)
(* work in (_tool_context and _prepare_step_inputs of the runtime).        *)
(*                                                                         *)
(* The tool context of a pass remembers the domains that refused access    *)
(* and the searches already spent.  A step works in the same context, in a *)
(* shallow copy of it if it has inputs, or in a new one after a retry: the *)
(* list of searches is shared with a copy, the domains are not.            *)
(***************************************************************************)
EXTENDS Naturals, Sequences, FiniteSets

CONSTANTS
  Urls,
  Scopes,        \* the scopes of the circuit breaker
  DomainOf,      \* DomainOf[u]: the scope of u
  Supplied,      \* candidate_urls of the task
  Listed,        \* URLs a career sheet lists
  Findable,      \* URLs a search of the web may return
  Posts,         \* recent posts of the community
  Priority,      \* seeds of a source or role the task names
  Seeds,         \* trusted seeds, the priority ones included
  ModelQueries,  \* searches the model may ask for
  Hints,         \* queries of the recovery in order, cut to the length of a query
  MaxRoutes,     \* _MAX_PUBLIC_SEARCH_ROUTES
  MaxBatch,      \* URLs of one fetch
  MaxExpand,     \* list pages expanded
  MaxTools,      \* tool calls of a pass
  MaxCalls,      \* bound: calls of one invocation of the executor
  MaxSteps,      \* bound: steps of the pass
  MaxRetries     \* bound: retries of a step

ASSUME DiscoveryAssumption ==
  /\ DomainOf \in [Urls -> Scopes]
  /\ Supplied \cup Listed \cup Findable \cup Posts \cup Seeds \subseteq Urls
  /\ Priority \subseteq Seeds
  /\ Hints \in Seq(STRING)
  /\ ModelQueries \subseteq STRING
  /\ {MaxRoutes, MaxBatch, MaxExpand, MaxTools, MaxCalls, MaxSteps, MaxRetries} \subseteq Nat
  /\ MaxRoutes > 0 /\ MaxSteps > 0

Quality == {"complete", "list"}
Refs    == [url : Urls, quality : Quality, expanded : BOOLEAN]
Queries == ModelQueries \cup {Hints[i] : i \in 1..Len(Hints)}

\* What became of a URL of a fetch: a page, an access block (which pauses its
\* domain), or any other failure.
Outcome == Quality \cup {"refused", "failed"}

VARIABLES
  community, \* the goal names the community with an official search and a window
  pass,      \* metadata of the pass's tool context: blocked domains, routes
  carried,   \* the same two lists in the context of the planning task
  step,      \* the step's context: how it relates to the pass's, its own lists
  refs,      \* references to the pages the step has captured
  seen,      \* the executor's observations: a complete page, URLs, a full scan
  stage,     \* where the step is
  tools,     \* tool calls spent
  calls,     \* calls of this invocation
  progress,  \* counters and flags of the step: steps, retries, recovered, extracted
  queries,   \* queries the recovery is still going to send
  log,       \* requests of this recovery, in order (history)
  searches,  \* searches sent in the pass, in order (history)
  refusals   \* searches of the recovery refused as already spent (history)

discoveryVars == <<community, pass, carried, step, refs, seen, stage, tools, calls, progress,
                   queries, log, searches, refusals>>

Memory == [blocked : SUBSET Scopes, routes : Seq(Queries)]
Contexts == [kind : {"same", "copy", "new"}, memory : Memory]
Stages == {"execute", "priority", "branch", "expand", "seeds", "search", "fetch",
           "found", "extract", "decide", "done"}
Requested == [urls : SUBSET Urls, complete : BOOLEAN, refused : SUBSET Urls]

DiscoveryTypeOK ==
  /\ community \in BOOLEAN
  /\ pass \in Memory /\ carried \in Memory
  /\ step \in Contexts
  /\ refs \subseteq Refs
  /\ seen \in [complete : BOOLEAN, urls : SUBSET Urls, scan : BOOLEAN]
  /\ stage \in Stages
  /\ tools \in 0..MaxTools
  /\ calls \in 0..MaxCalls
  /\ progress \in [step : 1..MaxSteps, retries : 0..MaxRetries,
                   everRetried : BOOLEAN, recovered : BOOLEAN, extracted : BOOLEAN]
  /\ queries \in Seq(Queries)
  /\ log \in Seq(Requested)
  /\ searches \in Seq(Queries)
  /\ refusals \in Nat

NothingKnown == [blocked |-> {}, routes |-> <<>>]
NothingSeen  == [complete |-> FALSE, urls |-> {}, scan |-> FALSE]

DiscoveryInit ==
  /\ community \in BOOLEAN
  /\ pass = NothingKnown /\ carried = NothingKnown
  /\ step = [kind |-> "same", memory |-> NothingKnown]
  /\ refs = {} /\ seen = NothingSeen
  /\ stage = "execute"
  /\ tools = 0 /\ calls = 0
  /\ progress = [step |-> 1, retries |-> 0, everRetried |-> FALSE,
                 recovered |-> FALSE, extracted |-> FALSE]
  /\ queries = <<>> /\ log = <<>> /\ searches = <<>> /\ refusals = 0

----------------------------------------------------------------------------
(* The context of the step.                                                *)

Elements(s) == {s[i] : i \in 1..Len(s)}

\* A copy shares the list of routes with the pass, for lists are not copied;
\* the blocked domains are replaced by a new list when one is added.
Blocked == IF step.kind = "same" THEN pass.blocked ELSE step.memory.blocked

\* Mutant: a copy of the context has a list of its own.
RoutesByValue == IF step.kind = "same" THEN pass.routes ELSE step.memory.routes

Routes  == IF step.kind = "new" THEN step.memory.routes ELSE pass.routes

AddRoute(q) ==
  IF step.kind = "new"
  THEN /\ step' = [step EXCEPT !.memory.routes = Append(@, q)]
       /\ UNCHANGED pass
  ELSE /\ pass' = [pass EXCEPT !.routes = Append(@, q)]
       /\ UNCHANGED step

BlockDomains(ds) ==
  IF step.kind = "same"
  THEN /\ pass' = [pass EXCEPT !.blocked = @ \cup ds]
       /\ UNCHANGED step
  ELSE /\ step' = [step EXCEPT !.memory.blocked = @ \cup ds]
       /\ UNCHANGED pass

Processed == {r.url : r \in refs}

\* The fetch of a batch: domains blocked on entry are refused without a request.
Outcomes(urls) ==
  {o \in [urls -> Outcome] :
     \A u \in urls : DomainOf[u] \in Blocked => o[u] = "refused"}

PageRefs(o, expanded) ==
  {[url |-> u, quality |-> o[u], expanded |-> expanded] :
     u \in {v \in DOMAIN o : o[v] \in Quality}}

Denied(o) == {u \in DOMAIN o : o[u] = "refused"}
HasComplete(o) == \E u \in DOMAIN o : o[u] = "complete"

\* The first n of a list of URLs whose order is not modelled.
FirstOf(urls, n) ==
  {s \in SUBSET urls : Cardinality(s) = IF Cardinality(urls) < n THEN Cardinality(urls) ELSE n}

Found == [urls : SUBSET Urls, scan : BOOLEAN]

\* The providers of a web search, one after the other until one has a result
\* that is plausible and not on a blocked domain.
WebSearch ==
  {f \in Found : /\ f.urls \subseteq {u \in Findable : DomainOf[u] \notin Blocked}
                 /\ ~f.scan}

\* The posts of the window that match the goal.
Matching == SUBSET Posts

\* The official search reads the pages of each keyword; it is a scan if every
\* list came to its end, before the last page allowed and with a cursor that
\* moves.  It does not look at the blocked domains.
OfficialSearch ==
  {f \in Found : f.urls \in Matching /\ (f.scan => f.urls = {})}

Searched == IF community THEN OfficialSearch ELSE WebSearch

----------------------------------------------------------------------------
(* The executor.  Its tools change the context it was given.               *)

\* Mutant: the budget of tool calls is checked after the call.
MayCallOverBudget == stage = "execute" /\ calls < MaxCalls /\ tools <= MaxTools

MayCall == stage = "execute" /\ calls < MaxCalls /\ tools < MaxTools

ModelFetches ==
  /\ MayCall
  /\ \E u \in Supplied \cup seen.urls : \E o \in Outcomes({u}) :
       /\ refs' = refs \cup PageRefs(o, FALSE)
       /\ seen' = [seen EXCEPT !.complete = @ \/ HasComplete(o)]
       /\ BlockDomains({DomainOf[v] : v \in Denied(o)})
  /\ tools' = tools + 1 /\ calls' = calls + 1
  /\ UNCHANGED <<community, carried, stage, progress, queries, log, searches, refusals>>

\* A route is spent before the request is made: a search that fails spends it.
\* The last one is kept for the recovery.
ModelSearches ==
  /\ MayCall
  /\ \E q \in ModelQueries, found \in Searched :
       /\ q \notin Elements(Routes) /\ Len(Routes) < MaxRoutes - 1
       /\ AddRoute(q)
       /\ searches' = Append(searches, q)
       /\ seen' = [seen EXCEPT !.urls = @ \cup found.urls, !.scan = @ \/ found.scan]
  /\ tools' = tools + 1 /\ calls' = calls + 1
  /\ UNCHANGED <<community, carried, refs, stage, progress, queries, log, refusals>>

ModelReadsSheet ==
  /\ MayCall
  /\ Listed # {}
  /\ seen' = [seen EXCEPT !.urls = @ \cup Listed]
  /\ tools' = tools + 1 /\ calls' = calls + 1
  /\ UNCHANGED <<community, pass, carried, step, refs, stage, progress, queries, log,
                 searches, refusals>>

\* The recovery starts unless an earlier one of this step brought something, or
\* the official source was scanned in full without a match.
ExecutorReturns ==
  /\ stage = "execute"
  /\ stage' = IF progress.recovered \/ seen.scan THEN "extract" ELSE "priority"
  /\ calls' = 0
  /\ log' = <<>>
  /\ UNCHANGED <<community, pass, carried, step, refs, seen, tools, progress, queries,
                 searches, refusals>>

----------------------------------------------------------------------------
(* The recovery.                                                           *)

\* A complete page ends the recovery; an access block does so at most places.
After(o, refused, otherwise) ==
  IF HasComplete(o) THEN "extract" ELSE IF Denied(o) # {} THEN refused ELSE otherwise

\* auto_fetch_public_urls: nothing without URLs or budget.  It works on a copy
\* of the metadata, so what it learns about domains stays in the copy.
AutoFetch(batch, refused, otherwise) ==
  IF batch = {} \/ tools = MaxTools
  THEN /\ stage' = otherwise
       /\ UNCHANGED <<refs, tools, progress, log>>
  ELSE \E urls \in FirstOf(batch, MaxBatch) : \E o \in Outcomes(urls) :
         /\ refs' = refs \cup PageRefs(o, TRUE)
         /\ tools' = tools + 1
         /\ LET sent == {u \in urls : DomainOf[u] \notin Blocked} IN
              log' = Append(log, [urls |-> sent, complete |-> HasComplete(o),
                                  refused |-> Denied(o) \cap sent])
         /\ progress' = [progress EXCEPT !.recovered = TRUE]
         /\ stage' = After(o, refused, otherwise)

FetchPriority ==
  /\ stage = "priority"
  /\ AutoFetch(Priority \ Processed, "extract", "branch")
  /\ UNCHANGED <<community, pass, carried, step, seen, calls, queries, searches, refusals>>

Unexpanded == {r.url : r \in {x \in refs : x.quality = "list" /\ ~x.expanded}}

\* A page that only lists jobs is fetched again for its details; otherwise the
\* URLs at hand are, unless there is a complete page already.
ChooseBranch ==
  /\ stage = "branch"
  /\ stage' = CASE Unexpanded # {} -> "expand"
                [] Unexpanded = {} /\ seen.complete -> "extract"
                [] Unexpanded = {} /\ ~seen.complete
                   /\ seen.urls \cup (Supplied \ Processed) = {} -> "seeds"
                [] OTHER -> "fetch"
  /\ UNCHANGED <<community, pass, carried, step, refs, seen, tools, calls, progress, queries,
                 log, searches, refusals>>

\* The search waits until every supplied URL has given a page.
ExpandLists ==
  /\ stage = "expand"
  /\ LET next == IF Supplied \subseteq Processed THEN "seeds" ELSE "extract"
     IN \E lists \in FirstOf(Unexpanded, MaxExpand) : AutoFetch(lists, "extract", next)
  /\ UNCHANGED <<community, pass, carried, step, seen, calls, queries, searches, refusals>>

\* Mutant: the URLs at hand are fetched until one is complete.
FetchAtHandAgain ==
  /\ stage = "fetch"
  /\ LET urls == IF seen.urls # {} THEN seen.urls ELSE Supplied \ Processed
     IN AutoFetch(urls, "branch", "branch")
  /\ UNCHANGED <<community, pass, carried, step, seen, calls, queries, searches, refusals>>

\* The URLs of searches and sheets come before the supplied ones.  An access
\* block does not end the recovery here.
FetchAtHand ==
  /\ stage = "fetch"
  /\ LET urls == IF seen.urls # {} THEN seen.urls ELSE Supplied \ Processed
     IN AutoFetch(urls, "seeds", "seeds")
  /\ UNCHANGED <<community, pass, carried, step, seen, calls, queries, searches, refusals>>

\* The queries of the recovery that have not been spent, in their order.
Left ==
  LET Kept[n \in 0..Len(Hints)] ==
        IF n = 0 THEN <<>>
        ELSE IF Hints[n] \in Elements(Routes) THEN Kept[n - 1]
        ELSE Append(Kept[n - 1], Hints[n])
  IN Kept[Len(Hints)]

\* Mutant: as many queries as there are routes, whatever has been spent.
UnspentOfAll == SubSeq(Left, 1, IF Len(Left) < MaxRoutes THEN Len(Left) ELSE MaxRoutes)

\* The queries that are left: not spent, and no more of them than routes.
Unspent ==
  LET room == IF Len(Routes) < MaxRoutes THEN MaxRoutes - Len(Routes) ELSE 0
  IN SubSeq(Left, 1, IF Len(Left) < room THEN Len(Left) ELSE room)

FetchSeeds ==
  /\ stage = "seeds"
  /\ AutoFetch(Seeds \ Processed, "extract", "search")
  /\ queries' = Unspent
  /\ UNCHANGED <<community, pass, carried, step, seen, calls, searches, refusals>>

\* One query after the other until one brings URLs; a failed one ends the search.
RecoverySearches ==
  /\ stage = "search"
  /\ IF queries = <<>> \/ tools = MaxTools
     THEN /\ stage' = "extract"
          /\ UNCHANGED <<pass, step, seen, tools, progress, queries, searches, refusals>>
     ELSE LET q == Head(queries) IN
          /\ tools' = tools + 1
          /\ progress' = [progress EXCEPT !.recovered = TRUE]
          /\ IF q \in Elements(Routes) \/ Len(Routes) >= MaxRoutes
             THEN /\ refusals' = refusals + 1
                  /\ stage' = "extract"
                  /\ UNCHANGED <<pass, step, seen, queries, searches>>
             ELSE /\ AddRoute(q)
                  /\ searches' = Append(searches, q)
                  /\ queries' = Tail(queries)
                  /\ UNCHANGED refusals
                  /\ \/ stage' = "extract" /\ UNCHANGED seen
                     \/ \E found \in Searched :
                          /\ seen' = IF found.urls = {} THEN [seen EXCEPT !.scan = @ \/ found.scan]
                                     ELSE [seen EXCEPT !.urls = found.urls]
                          /\ stage' = IF found.urls = {} THEN "search" ELSE "found"
  /\ UNCHANGED <<community, carried, refs, calls, log>>

FetchFound ==
  /\ stage = "found"
  /\ AutoFetch(seen.urls, "extract", "extract")
  /\ UNCHANGED <<community, pass, carried, step, seen, calls, queries, searches, refusals>>

----------------------------------------------------------------------------
(* After the recovery.                                                     *)

\* Complete pages are turned into structured job details, once in a step.
Extract ==
  /\ stage = "extract"
  /\ stage' = "decide"
  /\ queries' = <<>> /\ log' = <<>>
  /\ \/ /\ ~progress.extracted /\ tools < MaxTools
        /\ \E r \in refs : r.quality = "complete"
        /\ tools' = tools + 1
        /\ progress' = [progress EXCEPT !.extracted = TRUE]
     \/ /\ \/ progress.extracted \/ tools = MaxTools
           \/ \A r \in refs : r.quality # "complete"
        /\ UNCHANGED <<tools, progress>>
  /\ UNCHANGED <<community, pass, carried, step, refs, seen, calls, searches, refusals>>

\* A retry works in a new context made of the planning task's lists and of what
\* the executor chose to return of its own.
Retry ==
  /\ stage = "decide"
  /\ progress.retries < MaxRetries
  /\ \E returned \in BOOLEAN :
       step' = [kind |-> "new",
                memory |-> IF returned THEN [blocked |-> carried.blocked \cup Blocked,
                                             routes  |-> carried.routes]
                           ELSE carried]
  /\ progress' = [progress EXCEPT !.retries = @ + 1, !.everRetried = TRUE]
  /\ stage' = "execute"
  /\ UNCHANGED <<community, pass, carried, refs, seen, tools, calls, queries, log, searches, refusals>>

\* The next step, of this plan or of the next one: a step with inputs works in a
\* copy of the context, and may start from pages, or the scan, of an earlier step.
NextStep(pages, scan) ==
  /\ progress.step < MaxSteps
  /\ progress' = [progress EXCEPT !.step = @ + 1, !.retries = 0,
                                  !.recovered = FALSE, !.extracted = FALSE]
  /\ \/ /\ step' = [kind |-> "same", memory |-> NothingKnown]
        /\ refs' = {} /\ seen' = NothingSeen
     \/ /\ step' = [kind |-> "copy", memory |-> [NothingKnown EXCEPT !.blocked = pass.blocked]]
        /\ \/ refs' = {} /\ seen' = NothingSeen
           \/ refs' = pages /\ seen' = [NothingSeen EXCEPT !.scan = scan]
  /\ stage' = "execute"
  /\ UNCHANGED <<community, pass, tools, calls, queries, log, searches, refusals>>

\* A step that succeeds leaves the lists of the pass to the planning task.
Succeed ==
  /\ stage = "decide"
  /\ carried' = pass
  /\ NextStep(refs, seen.scan)

Replan ==
  /\ stage = "decide"
  /\ UNCHANGED carried
  /\ NextStep({}, FALSE)

Stop ==
  /\ stage = "decide"
  /\ stage' = "done"
  /\ UNCHANGED <<community, pass, carried, step, refs, seen, tools, calls, progress, queries,
                 log, searches, refusals>>

Done == stage = "done" /\ UNCHANGED discoveryVars

Recovery ==
  \/ FetchPriority \/ ChooseBranch \/ ExpandLists \/ FetchAtHand \/ FetchSeeds
  \/ RecoverySearches \/ FetchFound \/ Extract

DiscoveryNext ==
  \/ ModelFetches \/ ModelSearches \/ ModelReadsSheet \/ ExecutorReturns
  \/ Recovery \/ Retry \/ Succeed \/ Replan \/ Stop \/ Done

\* Every tool call ends, with a result or an error.
DiscoverySpec == DiscoveryInit /\ [][DiscoveryNext]_discoveryVars /\ WF_discoveryVars(Recovery)

----------------------------------------------------------------------------
(* Properties.                                                             *)

\* A recovery that has captured a complete job description requests no more.
StopsAtEvidence == \A i \in 1..Len(log) : log[i].complete => i = Len(log)

\* The routes of a pass are spent once, and no more than there are, by its steps
\* and their recoveries together, as long as no step is retried.
RoutesAreShared ==
  progress.everRetried \/
    /\ Len(searches) <= MaxRoutes
    /\ Cardinality(Elements(searches)) = Len(searches)

\* The recovery and the search tool agree on what is left: no search of the
\* recovery is refused.
RecoverySearchIsAllowed == refusals = 0

\* A recovery comes to an end.
RecoveryEnds == stage = "priority" ~> stage = "decide"

\* "no blocked URL is retried": what was refused to a recovery is not requested
\* again by it.
BlockedUrlIsNotRetried ==
  \A i, j \in 1..Len(log) : i < j => log[i].refused \cap log[j].urls = {}
=============================================================================
