---------------------------- MODULE BrowsePages ----------------------------
(***************************************************************************)
(* One invocation of scripts/browse.py of the job-discovery skill: a       *)
(* browser walks the pages of a public job list and returns what it read,  *)
(* with the evidence that the list ended there; coverage_gate.py then      *)
(* decides whether the capture was complete.                               *)
(*                                                                         *)
(* The modes share one tab.  "list" and "click" click through the pages.   *)
(* "interact" opens the cards of the pages.  "search" asks for keywords    *)
(* first.  "parallel" looks for a page number in the URL and, if there is  *)
(* one, has a pool of threads fetch all pages; if there is none it falls   *)
(* back to interact and then to click, in the tab as it was left.          *)
(*                                                                         *)
(* A text is the set of list pages whose jobs it shows; a page has one job *)
(* and, if the job board has cards, one card.                              *)
(***************************************************************************)
EXTENDS Naturals, Sequences, FiniteSets, FiniteSetsExt, SequencesExt

CONSTANTS
  Workers,   \* --concurrency
  Boards,    \* the job boards considered, see BoardType
  Modes,     \* the --mode values considered
  PageLimit, \* --max-pages
  MaxCards,  \* --max-cards
  Retries,   \* --detect-retries
  MaxTerms,  \* keywords of a search
  Faults     \* what clicks and fetches may do beside working, see FaultKinds

(***************************************************************************)
(* pager: what the next control does: "keyed" changes a page number in the *)
(* URL, "path" another part of it, "replace" and "append" the page in      *)
(* place.  stays: the control is still there on the last page.  declared:  *)
(* the first page announces the number of pages.  counted: the pages       *)
(* announce the number of jobs.  cards: jobs open when clicked.  json: the *)
(* pages load job records as JSON.  shell: how much the first page renders *)
(***************************************************************************)
BoardType ==
  [pager : {"none", "keyed", "path", "replace", "append"},
   size : Nat \ {0}, stays : BOOLEAN, declared : BOOLEAN, counted : BOOLEAN,
   cards : BOOLEAN, json : BOOLEAN, shell : {"full", "thin", "empty"}]

\* "dead": a click changes nothing.  "fail": a click or a navigation raises.
\* "error", "blank", "wall": a fetched page raises, is empty, is a challenge.
\* "start": a worker cannot launch its browser.
FaultKinds == {"dead", "fail", "error", "blank", "wall", "start"}

AllModes == {"detail", "list", "click", "interact", "search", "parallel"}

ASSUME BrowseAssumption ==
  /\ Boards \subseteq BoardType
  /\ \A s \in Boards : s.pager = "none" <=> s.size = 1
  /\ Modes \subseteq AllModes /\ Faults \subseteq FaultKinds
  /\ PageLimit \in Nat \ {0} /\ MaxCards \in Nat \ {0}
  /\ Retries \in Nat \ {0} /\ MaxTerms \in Nat

VARIABLES
  board,     \* the job board behind the URL
  mode,
  stage,     \* where the invocation is
  tab,       \* the tab and what was read in it, see NewTab
  total,     \* pages to fetch (total_pages)
  fetched,   \* fetched[p]: what became of page p in the pool
  attempts,  \* attempts[p]: failed fetches of page p
  worker,    \* worker[w]: its state, and the page it fetches or 0
  result,    \* the JSON printed
  missed     \* what went unnoticed: "click", a dead click before the last page
             \* that was taken for the end; "return", the way back from a search

pool == <<fetched, attempts, worker>>
browseVars == <<board, mode, stage, tab, total, pool, result, missed>>

Worker(state, page) == [state |-> state, page |-> page]
WorkerOff == Worker("off", 0)

NoResult == [status |-> "none"]

\* at: the page shown.  filtered: the list shows the matches of a keyword.
\* texts: all_texts or list_pages.  seen: pages whose JSON was collected.
\* opened: jobs read from cards; found and clicked count cards.  tries, terms:
\* failed clicks of the probe, keywords tried.  path: the fallback taken.
NewTab ==
  [at |-> 1, filtered |-> FALSE, texts |-> <<>>, seen |-> {}, opened |-> {},
   found |-> 0, clicked |-> 0, tries |-> 0, terms |-> 0, path |-> ""]

Stages == {"load", "probe", "record", "first", "cards", "turn", "read", "paging",
           "search", "pool", "reopen", "done"}

Ends == {"none", "next_control_absent", "page_content_repeated", "detail_links_exhausted",
         "public_json_pages_exhausted", "finite_page_range_exhausted"}

Paths == {"", "parallel", "spa_shell", "click_fallback_no_detect",
          "interact_fallback_no_detect", "click_fallback_fetch_error", "list_fallback"}

AllPages == 1..PageLimit

TabOK ==
  /\ tab.at \in 1..board.size
  /\ tab.filtered \in BOOLEAN
  /\ \A i \in DOMAIN tab.texts : tab.texts[i] \subseteq 1..board.size
  /\ tab.seen \subseteq 1..board.size
  /\ tab.opened \subseteq 1..board.size
  /\ tab.clicked \in 0..tab.found /\ tab.found \in 0..MaxCards
  /\ Cardinality(tab.opened) <= tab.clicked
  /\ tab.tries \in 0..Retries /\ tab.terms \in 0..MaxTerms
  /\ tab.path \in Paths

ResultOK ==
  \/ result = NoResult
  \/ /\ result.status \in {"ok", "blocked", "error", "empty"}
     /\ result.path \in Paths
     /\ result.end \in Ends
     /\ result.jobs \subseteq 1..board.size
     /\ result.files \in BOOLEAN /\ result.cut \in BOOLEAN

BrowseTypeOK ==
  /\ board \in Boards /\ mode \in Modes /\ stage \in Stages
  /\ TabOK
  /\ total \in 0..PageLimit
  /\ fetched \in [AllPages -> {"none", "queued", "page", "blank", "error", "wall"}]
  /\ attempts \in [AllPages -> 0..Retries]
  /\ worker \in [Workers -> [state : {"off", "starting", "idle", "busy"}, page : {0} \cup AllPages]]
  /\ ResultOK
  /\ missed \subseteq {"click", "return"}
  /\ stage = "done" <=> result # NoResult

BrowseInit ==
  /\ board \in Boards
  /\ mode \in Modes
  /\ stage = "load"
  /\ tab = NewTab
  /\ total = 0
  /\ fetched = [p \in AllPages |-> "none"]
  /\ attempts = [p \in AllPages |-> 0]
  /\ worker = [w \in Workers |-> WorkerOff]
  /\ result = NoResult
  /\ missed = {}

----------------------------------------------------------------------------
(* The page in the tab.                                                    *)

Text(t) == IF t.filtered THEN {} ELSE IF board.pager = "append" THEN 1..t.at ELSE {t.at}

\* _find_next_page_button: the control of the page shown.
NextControl(t) ==
  /\ board.pager # "none"
  /\ ~t.filtered
  /\ t.at < board.size \/ board.stays

\* The responses of a page reach the collector when the page is shown.
Show(t, p) ==
  [t EXCEPT !.at = p, !.seen = IF board.json THEN @ \cup {p} ELSE @]

InPlace == board.pager \in {"replace", "append"}

\* A click on the next control: the next page, nothing, or an exception.
Turns(t)  == t.at < board.size
Dead(t)   == t.at = board.size \/ "dead" \in Faults
Raises    == "fail" \in Faults

\* _scan_body_count: the number of jobs the page announces, 0 if it does not.
Listing == IF board.counted THEN board.size ELSE 0

Finish(status, path, t, end, jobs, texts, listing, files, cut) ==
  /\ stage' = "done"
  /\ tab' = t
  /\ result' = [status |-> status, path |-> path, end |-> end, jobs |-> jobs,
                texts |-> texts, listing |-> listing, files |-> files, cut |-> cut]

Halt(status, path) == Finish(status, path, tab, "none", {}, <<>>, 0, FALSE, FALSE)

Jobs(texts) == UNION ToSet(texts)

----------------------------------------------------------------------------
(* Opening the page.                                                       *)

\* main, browse_parallel_fetch_mode: the first navigation and what the mode
\* does with the first page.  A page that renders next to nothing is not
\* walked by the parallel mode: it is blocked if it brought no JSON either.
Load ==
  /\ stage = "load"
  /\ LET t == Show(tab, 1)
         body == IF board.shell = "empty" THEN {} ELSE {1}
         observed == IF t.seen # {} THEN t.seen ELSE body
     IN IF mode = "parallel" /\ board.shell # "full"
        THEN IF observed = {}
             THEN Halt("blocked", "spa_shell")
             ELSE Finish("ok", "spa_shell", t, "none", observed, <<observed>>, 0, TRUE, FALSE)
        ELSE IF mode = "detail"
             THEN Finish("ok", "", t, "none", body, <<body>>, 0, FALSE, FALSE)
             ELSE /\ tab' = [t EXCEPT !.texts = IF mode \in {"search", "parallel"}
                                               THEN <<>> ELSE <<Text(t)>>]
                  /\ stage' = CASE mode = "parallel" -> "probe"
                                [] mode = "interact" -> "record"
                                [] mode = "search"   -> "search"
                                [] OTHER             -> "paging"
                  /\ UNCHANGED result
  /\ UNCHANGED <<board, mode, total, pool, missed>>

LoadFails ==
  /\ stage = "load" /\ Raises
  /\ \E status \in {"blocked", "error"} : Halt(status, "")
  /\ UNCHANGED <<board, mode, total, pool, missed>>

----------------------------------------------------------------------------
(* The probe of the parallel mode (_detect_pagination).                    *)

\* No page number was found: interact goes on with the tab as it is.
Undetected(t) ==
  /\ stage' = "record"
  /\ tab' = [t EXCEPT !.texts = <<Text(t)>>]
  /\ UNCHANGED <<board, mode, total, pool, result>>

ProbeFindsNothing ==
  /\ stage = "probe"
  /\ ~NextControl(tab)
  /\ Undetected(tab)
  /\ UNCHANGED missed

ProbeRaises ==
  /\ stage = "probe" /\ NextControl(tab) /\ Raises
  /\ IF tab.tries + 1 < Retries
     THEN /\ tab' = [tab EXCEPT !.tries = @ + 1]
          /\ UNCHANGED <<board, mode, stage, total, pool, result, missed>>
     ELSE Undetected(tab) /\ UNCHANGED missed

\* The click left the URL alone: the probe ends on the page the click led to.
ProbeStaysOnUrl ==
  /\ stage = "probe" /\ NextControl(tab)
  /\ \/ Dead(tab) /\ Undetected(tab)
     \/ Turns(tab) /\ InPlace /\ Undetected(Show(tab, tab.at + 1))
  /\ UNCHANGED missed

\* _compute_total_pages
TotalPages ==
  IF board.declared /\ board.size < PageLimit THEN board.size ELSE PageLimit

\* The click changed the URL.  A page number in it gives the URLs of all pages;
\* otherwise the tab goes back to page 1, and if that raises it stays where it is.
ProbeReadsUrl ==
  /\ stage = "probe" /\ NextControl(tab) /\ Turns(tab) /\ ~InPlace
  /\ IF board.pager = "keyed"
     THEN /\ stage' = "pool"
          /\ total' = TotalPages
          /\ fetched' = [p \in AllPages |-> IF p <= TotalPages THEN "queued" ELSE "none"]
          /\ \E W \in SUBSET Workers :
               /\ Cardinality(W) = Min({Cardinality(Workers), TotalPages})
               /\ worker' = [w \in Workers |-> IF w \in W THEN Worker("starting", 0) ELSE WorkerOff]
          /\ UNCHANGED <<board, mode, tab, attempts, result>>
     ELSE LET t == Show(tab, tab.at + 1)
          IN Undetected(Show(t, 1)) \/ (Raises /\ Undetected(t))
  /\ UNCHANGED missed

----------------------------------------------------------------------------
(* The pool that fetches the pages (_parallel_fetch).                      *)

Settles(p, outcome) == fetched' = [fetched EXCEPT ![p] = outcome]

\* _worker_init.  If it raises, the executor is broken: what is still queued
\* fails, what is being fetched goes on.
WorkerStarts(w) ==
  /\ worker[w].state = "starting"
  /\ worker' = [worker EXCEPT ![w] = Worker("idle", 0)]
  /\ UNCHANGED <<board, mode, stage, tab, total, fetched, attempts, result, missed>>

WorkerFails(w) ==
  /\ worker[w].state = "starting" /\ "start" \in Faults
  /\ worker' = [worker EXCEPT ![w] = WorkerOff]
  /\ fetched' = [p \in AllPages |-> IF fetched[p] = "queued" THEN "error" ELSE fetched[p]]
  /\ UNCHANGED <<board, mode, stage, tab, total, attempts, result, missed>>

Queued == {p \in AllPages : fetched[p] = "queued"}

Takes(w) ==
  /\ worker[w].state = "idle" /\ Queued # {}
  /\ LET p == Min(Queued)
     IN /\ worker' = [worker EXCEPT ![w] = Worker("busy", p)]
        /\ Settles(p, "none")
  /\ UNCHANGED <<board, mode, stage, tab, total, attempts, result, missed>>

\* _fetch_one_with_retry: a wall is not tried again, an error is.
FetchEnds(w) ==
  /\ worker[w].state = "busy"
  /\ LET p == worker[w].page
     IN \E outcome \in {"page"} \cup (Faults \cap {"blank", "wall", "error"}) :
          IF outcome = "error" /\ attempts[p] + 1 < Retries
          THEN /\ attempts' = [attempts EXCEPT ![p] = @ + 1]
               /\ UNCHANGED <<fetched, worker>>
          ELSE /\ Settles(p, outcome)
               /\ worker' = [worker EXCEPT ![w] = Worker("idle", 0)]
               /\ UNCHANGED attempts
  /\ UNCHANGED <<board, mode, stage, tab, total, result, missed>>

Settled ==
  /\ stage = "pool" /\ Queued = {}
  /\ \A w \in Workers : worker[w].state \in {"off", "idle"}

Outcomes == {fetched[p] : p \in 1..total}

\* Mutant: the texts are taken as they come.
DedupNothing(texts, t) == Append(texts, t)

\* _dedup_adjacent: a text is dropped if it is the one before.
DedupAdjacent(texts, t) ==
  IF texts # <<>> /\ Last(texts) = t THEN texts ELSE Append(texts, t)

\* What is rendered under the URL of page p: beyond the last page that page, or
\* the first.
Shown(p, echo) == {IF p <= board.size THEN p ELSE echo}

\* The texts in the order of their URLs.
Rendered(echo) ==
  LET Upto[n \in 0..total] ==
        IF n = 0 THEN <<>>
        ELSE IF fetched[n] = "page" THEN DedupAdjacent(Upto[n - 1], Shown(n, echo))
        ELSE Upto[n - 1]
  IN Upto[total]

Close == worker' = [w \in Workers |-> WorkerOff]

\* A wall in any page decides, then an error; without either the texts are the
\* result.  cut: what the gate takes for a truncated capture, max_pages below
\* the announced number of pages or fewer texts than announced.
PoolBlocked ==
  /\ Settled /\ "wall" \in Outcomes
  /\ Halt("blocked", "parallel")
  /\ Close
  /\ UNCHANGED <<board, mode, total, fetched, attempts, missed>>

\* Mutant: an error in one page hides the wall in another.
PoolFailedFirst ==
  /\ Settled /\ "error" \in Outcomes
  /\ stage' = "reopen"
  /\ Close
  /\ UNCHANGED <<board, mode, tab, total, fetched, attempts, result, missed>>

PoolFailed ==
  /\ Settled /\ "error" \in Outcomes /\ "wall" \notin Outcomes
  /\ stage' = "reopen"
  /\ Close
  /\ UNCHANGED <<board, mode, tab, total, fetched, attempts, result, missed>>

PoolGathered ==
  /\ Settled /\ Outcomes \subseteq {"page", "blank"}
  /\ \E echo \in {1, board.size} :
       LET texts == Rendered(echo)
       IN Finish("ok", "parallel", tab,
                 IF board.declared /\ total = board.size
                 THEN "finite_page_range_exhausted" ELSE "none",
                 Jobs(texts), texts, 0, texts # <<>>,
                 board.declared /\ board.size > Len(texts))
  /\ Close
  /\ UNCHANGED <<board, mode, total, fetched, attempts, missed>>

\* FALLBACK B: the page is opened again and clicked through.
Reopen ==
  /\ stage = "reopen"
  /\ \/ LET t == Show(NewTab, 1)
        IN /\ tab' = [t EXCEPT !.texts = <<Text(t)>>, !.path = "click_fallback_fetch_error"]
           /\ stage' = "paging"
           /\ UNCHANGED result
     \/ Raises /\ Halt("error", "")
  /\ UNCHANGED <<board, mode, total, pool, missed>>

----------------------------------------------------------------------------
(* Clicking through the pages (browse_list_mode, browse_click_mode).       *)

Listed == mode = "list" \/ tab.path = "list_fallback"

\* Clicks allowed: max_pages counts the first page in list mode only.
ClickLimit ==
  IF Listed THEN PageLimit - 1
  ELSE IF tab.path = "click_fallback_fetch_error" THEN total ELSE PageLimit

Clicks == Len(tab.texts) - 1

Walked(end, cut) ==
  Finish("ok", tab.path, tab, end, Jobs(tab.texts), tab.texts,
         IF Listed THEN 0 ELSE Listing, TRUE, cut)

PagingCut ==
  /\ stage = "paging" /\ Clicks >= ClickLimit
  /\ Walked("none", TRUE)
  /\ UNCHANGED <<board, mode, total, pool, missed>>

Paging == stage = "paging" /\ Clicks < ClickLimit

PagingEnds ==
  /\ Paging /\ ~NextControl(tab)
  /\ Walked("next_control_absent", FALSE)
  /\ UNCHANGED <<board, mode, total, pool, missed>>

PagingRaises ==
  /\ Paging /\ NextControl(tab) /\ Raises
  /\ Walked("none", FALSE)
  /\ UNCHANGED <<board, mode, total, pool, missed>>

\* The page shows what it showed before the click.
PagingRepeats ==
  /\ Paging /\ NextControl(tab) /\ Dead(tab)
  /\ Walked("page_content_repeated", FALSE)
  /\ missed' = IF Turns(tab) THEN missed \cup {"click"} ELSE missed
  /\ UNCHANGED <<board, mode, total, pool>>

Turned(t) == LET n == Show(t, t.at + 1) IN [n EXCEPT !.texts = Append(@, Text(n))]

PagingTurns ==
  /\ Paging /\ NextControl(tab) /\ Turns(tab)
  /\ tab' = Turned(tab)
  /\ UNCHANGED <<board, mode, stage, total, pool, result, missed>>

----------------------------------------------------------------------------
(* Opening the cards (browse_interact_mode).                               *)

\* The JSON the pages load is complete: it is the result.
RecordsComplete ==
  /\ stage = "record" /\ tab.seen = 1..board.size
  /\ Finish("ok", IF mode = "parallel" THEN "interact_fallback_no_detect" ELSE "",
            tab, "public_json_pages_exhausted", tab.seen, tab.texts, board.size, TRUE, FALSE)
  /\ UNCHANGED <<board, mode, total, pool, missed>>

\* It is not: the pages are turned for it as long as they change.
RecordsTurn ==
  /\ stage = "record" /\ tab.seen # {} /\ tab.seen # 1..board.size
  /\ NextControl(tab) /\ Turns(tab)
  /\ tab' = Turned(tab)
  /\ UNCHANGED <<board, mode, stage, total, pool, result, missed>>

RecordsEnd ==
  /\ stage = "record" /\ tab.seen # 1..board.size
  /\ tab.seen = {} \/ ~NextControl(tab) \/ Dead(tab) \/ Raises
  /\ stage' = "first"
  /\ UNCHANGED <<board, mode, tab, total, pool, result, missed>>

Visible == IF board.cards THEN Text(tab) ELSE {}

\* The first n members of a set of pages.
FirstOf(S, n) == {p \in S : Cardinality({q \in S : q <= p}) <= n}

\* _interact_on_cards: the cards shown, up to the limit, are clicked; a click
\* may bring no job.  The list is as before when the last one is closed.  Cards
\* clicked on an earlier page count again.
OpenCards ==
  /\ stage \in {"first", "cards"}
  /\ LET cards == FirstOf(Visible, MaxCards - tab.found)
     IN /\ \E open \in IF Raises THEN SUBSET cards ELSE {cards} :
             tab' = [tab EXCEPT !.found = @ + Cardinality(cards),
                                !.clicked = @ + Cardinality(open),
                                !.opened = @ \cup open]
        /\ stage' = IF stage = "cards" /\ cards = {} THEN "read" ELSE "turn"
  /\ UNCHANGED <<board, mode, total, pool, result, missed>>

CardsTurn ==
  /\ stage = "turn" /\ tab.found < MaxCards
  /\ NextControl(tab) /\ Turns(tab)
  /\ tab' = Turned(tab)
  /\ stage' = "cards"
  /\ UNCHANGED <<board, mode, total, pool, result, missed>>

CardsEnd ==
  /\ stage = "turn"
  /\ tab.found >= MaxCards \/ ~NextControl(tab) \/ Dead(tab) \/ Raises
  /\ stage' = "read"
  /\ UNCHANGED <<board, mode, tab, total, pool, result, missed>>

\* Every job the list announces was clicked.
DetailComplete == board.counted /\ tab.clicked >= Listing

CardsRead ==
  /\ stage = "read"
  /\ IF mode = "parallel" /\ tab.opened = {}
     THEN \* browse_click_mode goes on from the page shown
          /\ stage' = "paging"
          /\ tab' = [tab EXCEPT !.texts = <<Text(tab)>>, !.path = "click_fallback_no_detect"]
          /\ UNCHANGED result
     ELSE IF tab.found = 0
          THEN Finish("ok", "", tab, "none", {}, tab.texts, 0, FALSE, FALSE)
          ELSE Finish("ok", IF mode = "parallel" THEN "interact_fallback_no_detect" ELSE "",
                      tab, IF DetailComplete THEN "detail_links_exhausted" ELSE "none",
                      tab.opened, tab.texts, Listing, TRUE, FALSE)
  /\ UNCHANGED <<board, mode, total, pool, missed>>

----------------------------------------------------------------------------
(* Searching (browse_search_mode, browse_search_interact_mode).            *)

\* No input to type in: the whole list, or nothing, as --fallback says.
SearchMissing ==
  /\ stage = "search" /\ tab.terms = 0
  /\ \/ /\ tab' = [tab EXCEPT !.texts = <<Text(tab)>>, !.path = "list_fallback"]
        /\ stage' = "paging"
        /\ UNCHANGED result
     \/ Halt("empty", "")
  /\ UNCHANGED <<board, mode, total, pool, missed>>

\* A keyword: it is skipped, finds nothing, or its matches are read.
SearchTerm ==
  /\ stage = "search" /\ tab.terms < MaxTerms
  /\ \/ Raises /\ tab' = [tab EXCEPT !.terms = @ + 1]
     \/ tab' = [tab EXCEPT !.terms = @ + 1, !.filtered = TRUE]
     \/ tab' = [tab EXCEPT !.terms = @ + 1, !.filtered = TRUE, !.texts = Append(@, {})]
  /\ UNCHANGED <<board, mode, stage, total, pool, result, missed>>

\* After a keyword with matches (strategy first_match) or after the last one.
SearchEnds ==
  /\ stage = "search" /\ tab.texts # <<>>
  /\ Finish("ok", "", tab, "none", {}, tab.texts, 0, FALSE, FALSE)
  /\ UNCHANGED <<board, mode, total, pool, missed>>

\* Nothing was found: the URL is loaded again for the whole list; if that
\* raises, the list is what the tab still shows.
SearchFails ==
  /\ stage = "search" /\ tab.terms = MaxTerms /\ tab.texts = <<>>
  /\ \/ Halt("empty", "") /\ UNCHANGED missed
     \/ /\ stage' = "paging"
        /\ \/ LET t == [Show(tab, 1) EXCEPT !.filtered = FALSE, !.path = "list_fallback"]
              IN tab' = [t EXCEPT !.texts = <<Text(t)>>] /\ UNCHANGED missed
           \/ /\ Raises
              /\ tab' = [tab EXCEPT !.texts = <<Text(tab)>>, !.path = "list_fallback"]
              /\ missed' = missed \cup {"return"}
        /\ UNCHANGED result
  /\ UNCHANGED <<board, mode, total, pool>>

Done == stage = "done" /\ UNCHANGED browseVars

BrowseNext ==
  \/ Load \/ LoadFails
  \/ ProbeFindsNothing \/ ProbeRaises \/ ProbeStaysOnUrl \/ ProbeReadsUrl
  \/ \E w \in Workers : WorkerStarts(w) \/ WorkerFails(w) \/ Takes(w) \/ FetchEnds(w)
  \/ PoolBlocked \/ PoolFailed \/ PoolGathered \/ Reopen
  \/ PagingCut \/ PagingEnds \/ PagingRaises \/ PagingRepeats \/ PagingTurns
  \/ RecordsComplete \/ RecordsTurn \/ RecordsEnd
  \/ OpenCards \/ CardsTurn \/ CardsEnd \/ CardsRead
  \/ SearchMissing \/ SearchTerm \/ SearchEnds \/ SearchFails
  \/ Done

BrowseSpec == BrowseInit /\ [][BrowseNext]_browseVars

----------------------------------------------------------------------------
(* The gate (coverage_gate.py: evaluate_manifest_coverage).                *)

\* Mutant: the gate does not look for truncation.
VerifiedUncut(r) ==
  /\ r.status = "ok"
  /\ r.files
  /\ r.end # "none"
  /\ r.listing # 0 => Cardinality(r.jobs) = r.listing

\* Every job read became a candidate with a body and evidence of its own.
Verified(r) ==
  /\ r.status = "ok"
  /\ r.files
  /\ r.end # "none"
  /\ ~r.cut
  /\ r.listing # 0 => Cardinality(r.jobs) = r.listing

----------------------------------------------------------------------------
(* Properties.                                                             *)

\* If the pool met a wall in any page the invocation ends blocked: a wall is
\* not tried again, and no page that failed beside it leads to the fallback
\* (browse.py:779-784).
WallWins ==
  (\E p \in AllPages : fetched[p] = "wall") =>
    stage \in {"pool", "done"} /\ (result # NoResult => result.status = "blocked")

\* The texts of a parallel capture are pages in the order of the list, each
\* once, whatever the order the threads finished in; only the first page may
\* come again, as the echo of a URL beyond the last page.
CapturedInOrder ==
  result # NoResult /\ result.path = "parallel" =>
    \A i, j \in DOMAIN result.texts :
      i < j => \/ Max(result.texts[i]) < Max(result.texts[j])
               \/ result.texts[j] = {1} /\ total > board.size

\* What the gate passes is complete, or it has the end of the list and was
\* captured by clicks from a later page than the first.  Excepted is a capture
\* that took a dead click or an unloaded page for the end of the list.
GateIsSound ==
  result # NoResult /\ Verified(result) /\ missed = {} =>
    \/ result.jobs = 1..board.size
    \/ result.path = "click_fallback_no_detect" /\ board.size \in result.jobs

\* What the gate passes is complete (coverage_gate.py:79 "Return an auditable
\* PASS only when observed evidence is complete."; browse.py:1155-1156, the
\* fallback to clicks is taken "so completeness never regresses").
PassIsComplete ==
  result # NoResult /\ Verified(result) => result.jobs = 1..board.size
=============================================================================
