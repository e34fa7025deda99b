---------------------------- MODULE PublicFetch ----------------------------
(***************************************************************************)
(* One batch of public pages captured by the fetch tool of job discovery:  *)
(* fetch_public_job_pages and what it calls (skill/job_discovery/runtime). *)
(* A pool of threads takes the URLs in order.  A URL is refused if its     *)
(* domain is remembered as blocked, or served by an adapter, by the OCR    *)
(* slice of WeChat articles, by a plain request, or by a browser when the  *)
(* request brought nothing readable.  A page that lists jobs is expanded:  *)
(* the pages behind its links are fetched one after the other.             *)
(*                                                                         *)
(* The threads share the context of the call (the blocked domains), the    *)
(* list of failures, the lock of the browser and the files into which the  *)
(* OCR slice writes images.                                                *)
(***************************************************************************)
EXTENDS Naturals, Sequences, FiniteSets

CONSTANTS
  Threads,       \* threads of the pool (the code has four)
  Pages,         \* the URLs there are
  Domains,       \* the scopes of the circuit breaker
  Batch,         \* the URLs the executor asked for, in order
  Site,          \* what is behind a URL, see SiteType
  MaxExpansion,  \* links followed from a list
  MaxCampus,     \* links followed from an index of the campus portal
  CanRender,     \* is the browser enabled
  NoPage,        \* no URL
  NoThread       \* nobody holds the browser

(***************************************************************************)
(* domain: where a URL is served from.  channel: who fetches it.  details: *)
(* how its job pages are found; "campus" stands for a posting of the       *)
(* campus portal, whose siblings are found in the portal's indexes.        *)
(* hosts: the domains whose pages it may be expanded by; its own, and for  *)
(* a few boards a second one that serves their postings.                   *)
(* links: the links of the page with job pages first, as                   *)
(* _prioritize_detail_links orders them.  images: images of an article.    *)
(***************************************************************************)
SiteType ==
  [domain  : Domains,
   hosts   : SUBSET Domains,
   channel : {"web", "adapter", "wechat"},
   details : {"links", "iguopin", "campus"},
   links   : Seq(Pages),
   indexes : Seq(Pages),
   images  : Nat]

ASSUME FetchAssumption ==
  /\ Batch \in Seq(Pages)
  /\ \A i, j \in 1..Len(Batch) : Batch[i] = Batch[j] => i = j
  /\ Site \in [Pages -> SiteType]
  /\ MaxExpansion \in Nat /\ MaxCampus \in Nat
  /\ CanRender \in BOOLEAN
  /\ NoPage \notin Pages /\ NoThread \notin Threads

Items == 1..Len(Batch)

\* What a page is worth: "jd" and "inline" are complete job descriptions, and
\* "inline" has its sections far below the head that expansion looks at.
Good     == {"jd", "inline", "list"}
Complete == {"jd", "inline"}

\* How a fetch fails: "blocked" is a challenge or a denial, "unreadable" what a
\* browser may cure, "final" all that is neither (dead link, rate limit, unsafe).
Bad == {"blocked", "unreadable", "final"}

NoError == "none"
Errors  == Bad \cup {"paused", "denied", NoError}

VARIABLES
  next,       \* item the pool hands out next
  thread,     \* thread[t]: what a thread of the pool is doing
  blocked,    \* context.metadata["blocked_public_domains"]
  browser,    \* holder of _RENDER_LOCK
  file,       \* file[k]: the article whose k-th image the k-th file holds
  found,      \* found[i]: pages captured for item i
  texts,      \* texts[i]: articles whose images were read into item i
  error,      \* error[i]: the error item i ended with
  failures,   \* failures recorded: item, URL and error
  asked,      \* asked[i]: URLs requested for item i (history)
  gathered    \* the batch has been answered

shared == <<browser, file, texts>>
vars == <<next, thread, blocked, shared, found, error, failures, asked, gathered>>

Phases == {"idle", "check", "request", "wait", "render", "record", "image", "ocr"}

\* The local variables of a thread: the page at hand, the links left, the next
\* index of the portal (0: none), the worth of the item's own page, the domains
\* read before they are written back, and the image at hand.
Idle ==
  [phase |-> "idle", item |-> 0, stage |-> "url", page |-> NoPage,
   links |-> <<>>, index |-> 0, quality |-> "list", copy |-> {}, image |-> 0]

ImageNumbers == UNION {1..Site[p].images : p \in Pages}

ThreadOK(r) ==
  /\ r.phase \in Phases
  /\ r.item \in Items \cup {0}
  /\ r.stage \in {"url", "index", "link"}
  /\ r.page \in Pages \cup {NoPage}
  /\ r.links \in Seq(Pages)
  /\ r.index \in Nat
  /\ r.quality \in Good
  /\ r.copy \subseteq Domains
  /\ r.image \in Nat
  /\ r.phase # "idle" => r.item \in Items /\ r.page \in Pages
  /\ r.phase \in {"image", "ocr"} => r.image \in 1..Site[r.page].images

TypeOK ==
  /\ next \in 1..(Len(Batch) + 1)
  /\ DOMAIN thread = Threads
  /\ \A t \in Threads : ThreadOK(thread[t])
  /\ blocked \subseteq Domains
  /\ browser \in Threads \cup {NoThread}
  /\ file \in [ImageNumbers -> Pages \cup {NoPage}]
  /\ found \in [Items -> SUBSET Pages]
  /\ texts \in [Items -> SUBSET (Pages \cup {NoPage})]
  /\ error \in [Items -> Errors]
  /\ failures \subseteq Items \X Pages \X Errors
  /\ asked \in [Items -> SUBSET Pages]
  /\ gathered \in BOOLEAN

Init ==
  /\ next = 1
  /\ thread = [t \in Threads |-> Idle]
  /\ blocked = {}
  /\ browser = NoThread
  /\ file = [k \in ImageNumbers |-> NoPage]
  /\ found = [i \in Items |-> {}]
  /\ texts = [i \in Items |-> {}]
  /\ error = [i \in Items |-> NoError]
  /\ failures = {}
  /\ asked = [i \in Items |-> {}]
  /\ gathered = FALSE

----------------------------------------------------------------------------
(* What a thread turns to next.                                            *)

Prefix(s, n) == SubSeq(s, 1, IF Len(s) < n THEN Len(s) ELSE n)

\* The links of p that lead to its hosts, each once.
Collected(p) ==
  LET links == Site[p].links
      Kept[n \in 0..Len(links)] ==
        IF n = 0 THEN <<>>
        ELSE IF /\ Site[links[n]].domain \in Site[p].hosts
                /\ \A j \in 1..n - 1 : links[j] # links[n]
        THEN Append(Kept[n - 1], links[n])
        ELSE Kept[n - 1]
  IN Kept[Len(links)]

\* The links of p that are followed: none from a page that shows a job
\* description near its head, or that has fewer than two links.
Expansion(p, quality, limit) ==
  IF quality = "jd" \/ Len(Collected(p)) < 2 THEN <<>>
  ELSE Prefix(Collected(p), limit)

Follow(r, links) ==
  [r EXCEPT !.phase = "check", !.stage = "link", !.page = Head(links),
            !.links = Tail(links)]

\* The rest of an item: the links left, then the next index of the portal, then
\* nothing.  If the indexes gave no page the posting is expanded like any page.
\* The indexes are requested without a look at the blocked domains.
Continue(r, pages) ==
  LET p    == Batch[r.item]
      last == Expansion(p, r.quality, MaxExpansion)
  IN CASE r.links # <<>> -> Follow(r, r.links)
       [] r.links = <<>> /\ r.index \in 1..Len(Site[p].indexes) ->
            [r EXCEPT !.phase = "request", !.stage = "index",
                      !.page = Site[p].indexes[r.index], !.index = r.index + 1]
       [] r.links = <<>> /\ r.index > Len(Site[p].indexes) /\ pages = {p}
            /\ last # <<>> -> Follow([r EXCEPT !.index = 0], last)
       [] OTHER -> Idle

\* The page at hand is captured.
Serve(t, quality) ==
  LET r     == thread[t]
      pages == found[r.item] \cup {r.page}
      index == IF Site[r.page].details = "campus" /\ quality \in Complete THEN 1 ELSE 0
  IN /\ found' = [found EXCEPT ![r.item] = pages]
     /\ \/ /\ r.stage = "url"
           /\ thread' = [thread EXCEPT ![t] = Continue(
                [r EXCEPT !.quality = quality, !.index = index,
                          !.links = IF index = 1 THEN <<>>
                                    ELSE Expansion(r.page, quality, MaxExpansion)], pages)]
           /\ UNCHANGED failures
        \/ /\ r.stage = "url"
           /\ Site[r.page].details = "iguopin"
           /\ thread' = [thread EXCEPT ![t] = Idle]
           /\ failures' = failures \cup {<<r.item, r.page, "denied">>}
        \/ /\ r.stage = "index"
           /\ thread' = [thread EXCEPT ![t] = Continue(
                [r EXCEPT !.links = Expansion(r.page, quality, MaxCampus)], pages)]
           /\ UNCHANGED failures
        \/ /\ r.stage = "link"
           /\ thread' = [thread EXCEPT ![t] = Continue(r, pages)]
           /\ UNCHANGED failures
     /\ UNCHANGED <<next, blocked, error, gathered>>

\* Mutant: a refused link ends the list without being recorded.
RejectSilently(t, e) ==
  LET r == thread[t]
      left == IF e \in {"blocked", "paused"} THEN <<>> ELSE r.links
  IN /\ \/ /\ r.stage = "url"
           /\ error' = [error EXCEPT ![r.item] = e]
           /\ thread' = [thread EXCEPT ![t] = Idle]
           /\ UNCHANGED failures
        \/ /\ r.stage # "url"
           /\ failures' = IF e = "blocked" THEN failures
                          ELSE failures \cup {<<r.item, r.page, e>>}
           /\ thread' = [thread EXCEPT ![t] =
                           Continue([r EXCEPT !.links = left], found[r.item])]
           /\ UNCHANGED error
     /\ UNCHANGED <<next, found, gathered>>

\* The page at hand ends with e: the item fails with its own URL; an index is
\* skipped; a link is skipped, and the links after it too if access is refused.
Reject(t, e) ==
  LET r == thread[t]
      left == IF e \in {"blocked", "paused"} THEN <<>> ELSE r.links
  IN /\ \/ /\ r.stage = "url"
           /\ error' = [error EXCEPT ![r.item] = e]
           /\ thread' = [thread EXCEPT ![t] = Idle]
           /\ UNCHANGED failures
        \/ /\ r.stage # "url"
           /\ failures' = failures \cup {<<r.item, r.page, e>>}
           /\ thread' = [thread EXCEPT ![t] =
                           Continue([r EXCEPT !.links = left], found[r.item])]
           /\ UNCHANGED error
     /\ UNCHANGED <<next, found, gathered>>

\* A refusal is remembered before anything else: the thread has read the
\* domains of the context and is about to write them back.
Refused(t) ==
  LET r == thread[t] IN
  /\ thread' = [thread EXCEPT ![t] = [r EXCEPT !.phase = "record",
                                        !.copy = blocked \cup {Site[r.page].domain}]]
  /\ UNCHANGED <<next, found, error, failures, gathered>>

\* What came is classified the same way on every path: it is readable, or the
\* site refuses access, or the page is gone.
Build(t) ==
  \/ \E quality \in Good : Serve(t, quality)
  \/ Refused(t)
  \/ Reject(t, "final")

Turn(t, phase) == thread' = [thread EXCEPT ![t].phase = phase]
Ask(t) == asked' = [asked EXCEPT ![thread[t].item] = @ \cup {thread[t].page}]

----------------------------------------------------------------------------
(* The steps of a thread.                                                  *)

\* Mutant: the pool loses count of the batch.
TakeBeyond(t) ==
  /\ thread[t].phase = "idle"
  /\ next <= Len(Batch)
  /\ thread' = [thread EXCEPT ![t] =
                  [Idle EXCEPT !.phase = "check", !.item = next, !.page = Batch[next]]]
  /\ next' = next + 2
  /\ UNCHANGED <<blocked, shared, found, error, failures, asked, gathered>>

\* The pool hands the next URL to a thread.
Take(t) ==
  /\ thread[t].phase = "idle"
  /\ next <= Len(Batch)
  /\ thread' = [thread EXCEPT ![t] =
                  [Idle EXCEPT !.phase = "check", !.item = next, !.page = Batch[next]]]
  /\ next' = next + 1
  /\ UNCHANGED <<blocked, shared, found, error, failures, asked, gathered>>

\* _ensure_domain_available refuses the page at hand.
Paused(t) ==
  /\ thread[t].phase = "check"
  /\ Site[thread[t].page].domain \in blocked
  /\ Reject(t, "paused")
  /\ UNCHANGED <<blocked, shared, asked>>

\* A link is always requested; the item's own URL goes to the channel it has.
Route(t) ==
  LET r == thread[t]
      channel == Site[r.page].channel
  IN /\ r.phase = "check"
     /\ Site[r.page].domain \notin blocked
     /\ \/ /\ r.stage = "link" \/ channel = "web"
           /\ Turn(t, "request")
           /\ UNCHANGED asked
        \/ /\ r.stage = "url" /\ channel = "wechat"
           /\ Site[r.page].images > 0
           /\ thread' = [thread EXCEPT ![t].phase = "image", ![t].image = 1]
           /\ Ask(t)
     /\ UNCHANGED <<next, blocked, shared, found, error, failures, gathered>>

\* The URL of a certified company: one page of records, or an error that no
\* other channel is asked to cure.  An article without images is one page too,
\* and the OCR channel may be switched off or its fetch may fail.
SinglePage(t) ==
  LET r == thread[t] IN
  /\ r.phase = "check" /\ r.stage = "url"
  /\ Site[r.page].channel # "web"
  /\ Site[r.page].domain \notin blocked
  /\ \/ /\ Site[r.page].channel = "adapter" \/ Site[r.page].images = 0
        /\ found' = [found EXCEPT ![r.item] = {r.page}]
        /\ UNCHANGED error
     \/ /\ error' = [error EXCEPT ![r.item] = "final"]
        /\ UNCHANGED found
  /\ thread' = [thread EXCEPT ![t] = Idle]
  /\ Ask(t)
  /\ UNCHANGED <<next, blocked, shared, failures, gathered>>

\* The plain request and its classification.  What a browser may cure is left
\* to it, except for an index; a refusal is remembered in every case.
Request(t) ==
  LET r == thread[t] IN
  /\ r.phase = "request"
  /\ \/ Build(t)
     \/ /\ CanRender /\ r.stage # "index"
        /\ Turn(t, "wait")
        /\ UNCHANGED <<next, found, error, failures, gathered>>
     \/ /\ ~CanRender \/ r.stage = "index"
        /\ Reject(t, "unreadable")
  /\ Ask(t)
  /\ UNCHANGED <<blocked, shared>>

\* The lock is taken for the whole life of the browser process.
AcquireBrowser(t) ==
  /\ thread[t].phase = "wait"
  /\ browser = NoThread
  /\ browser' = t
  /\ Turn(t, "render")
  /\ UNCHANGED <<next, blocked, file, texts, found, error, failures, asked, gathered>>

\* Mutant: a browser that brought nothing readable is started again, and again.
RenderRetries(t) ==
  /\ thread[t].phase = "render"
  /\ browser' = NoThread
  /\ \/ Build(t)
     \/ Turn(t, "wait") /\ UNCHANGED <<next, found, error, failures, gathered>>
  /\ UNCHANGED <<blocked, file, texts, asked>>

\* The browser ends, once its page has stopped growing, or killed after a minute,
\* or in an error: a crash is met by one new browser within the same turn.  What
\* it shows is classified like a page that was requested.
RenderEnds(t) ==
  /\ thread[t].phase = "render"
  /\ browser' = NoThread
  /\ \/ Build(t)
     \/ Reject(t, "unreadable")
  /\ UNCHANGED <<blocked, file, texts, asked>>

\* Mutant: a domain is remembered although its page merely failed (HTTP 429, say).
RecordAnyFailure(t) ==
  /\ thread[t].phase = "record"
  /\ blocked' = thread[t].copy
  /\ \E e \in Bad : Reject(t, e)
  /\ UNCHANGED <<shared, asked>>

\* The domains read when the page was refused are written back.
Record(t) ==
  /\ thread[t].phase = "record"
  /\ blocked' = thread[t].copy
  /\ Reject(t, "blocked")
  /\ UNCHANGED <<shared, asked>>

\* The article ends as a page of its text and what the images gave, whatever
\* the triage of its channel makes of it, or in an error if there is no text.
ArticleEnds(t) ==
  LET r == thread[t] IN
  /\ thread' = [thread EXCEPT ![t] = Idle]
  /\ \/ found' = [found EXCEPT ![r.item] = {r.page}] /\ UNCHANGED error
     \/ error' = [error EXCEPT ![r.item] = "final"] /\ UNCHANGED found

NextImage(t) ==
  LET r == thread[t] IN
  \/ /\ r.image < Site[r.page].images
     /\ thread' = [thread EXCEPT ![t].phase = "image", ![t].image = r.image + 1]
     /\ UNCHANGED <<found, error>>
  \/ /\ r.image = Site[r.page].images
     /\ ArticleEnds(t)

\* An image is stored under its number, for the OCR process to read.
WriteImage(t) ==
  /\ thread[t].phase = "image"
  /\ file' = [file EXCEPT ![thread[t].image] = thread[t].page]
  /\ Turn(t, "ocr")
  /\ UNCHANGED <<next, blocked, browser, texts, found, error, failures, asked, gathered>>

\* An image that cannot be had, or of an odd size, is left out.
SkipImage(t) ==
  /\ thread[t].phase = "image"
  /\ NextImage(t)
  /\ UNCHANGED <<next, blocked, shared, failures, asked, gathered>>

\* The OCR process reads the file of that number; it may read nothing.
OcrImage(t) ==
  LET r == thread[t] IN
  /\ r.phase = "ocr"
  /\ \/ texts' = [texts EXCEPT ![r.item] = @ \cup {file[r.image]}]
     \/ UNCHANGED texts
  /\ NextImage(t)
  /\ UNCHANGED <<next, blocked, browser, file, failures, asked, gathered>>

\* Mutant: the answer is put together while the last items are still running.
GatherEarly ==
  /\ ~gathered
  /\ next > Len(Batch)
  /\ \E t \in Threads : thread[t].phase = "idle"
  /\ failures' = failures \cup {<<i, Batch[i], error[i]>> : i \in {j \in Items : error[j] # NoError}}
  /\ gathered' = TRUE
  /\ UNCHANGED <<next, thread, blocked, shared, found, error, asked>>

\* All threads are done: the errors of the items follow the failures recorded
\* while they ran.
Gather ==
  /\ ~gathered
  /\ next > Len(Batch)
  /\ \A t \in Threads : thread[t].phase = "idle"
  /\ failures' = failures \cup {<<i, Batch[i], error[i]>> : i \in {j \in Items : error[j] # NoError}}
  /\ gathered' = TRUE
  /\ UNCHANGED <<next, thread, blocked, shared, found, error, asked>>

Step(t) ==
  \/ Take(t) \/ Paused(t) \/ Route(t) \/ SinglePage(t) \/ Request(t)
  \/ AcquireBrowser(t) \/ RenderEnds(t) \/ Record(t)
  \/ WriteImage(t) \/ SkipImage(t) \/ OcrImage(t)

\* The answer has been given.
Answered == gathered /\ UNCHANGED vars

Next == Gather \/ Answered \/ \E t \in Threads : Step(t)

\* Requests have deadlines and the browser is killed after its own, so every
\* step of a thread ends.
Fairness == WF_vars(Gather) /\ \A t \in Threads : WF_vars(Step(t))

Spec == Init /\ [][Next]_vars /\ Fairness
----------------------------------------------------------------------------
(* Properties.                                                             *)

\* What a batch asked for and did not get is in its answer: every URL requested
\* for an item was captured by that item or is among its failures.
NothingHidden ==
  gathered => \A i \in Items : \A p \in asked[i] :
                p \in found[i] \/ \E e \in Errors : <<i, p, e>> \in failures

\* No failure is made up: a page that failed was requested, or its domain was
\* paused because another page of the same answer was refused there.
FailuresAreExplained ==
  gathered => \A i \in Items, p \in Pages, e \in Errors :
    <<i, p, e>> \in failures =>
      \/ e # "paused" /\ p \in asked[i]
      \/ /\ e = "paused"
         /\ \E j \in Items, q \in Pages :
              /\ <<j, q, "blocked">> \in failures
              /\ Site[q].domain = Site[p].domain

\* An item fails with its own URL or yields it: no item is lost, and none yields
\* pages behind a URL that failed.
ItemsAreAnswered ==
  gathered => \A i \in Items :
    /\ error[i] = NoError => Batch[i] \in found[i]
    /\ error[i] # NoError => found[i] = {}

\* A batch is answered although its threads wait for one browser.
BatchIsAnswered == <>gathered

\* "One anti-bot result prevents repeated same-domain probes in one run": an
\* item whose request was refused requests nothing else of that domain.
RefusedDomainIsLeft ==
  [][\A i \in Items : \A p \in asked'[i] \ asked[i] : \A q \in Pages :
       <<i, q, "blocked">> \in failures => Site[q].domain # Site[p].domain]_vars

\* The OCR text of an article is that of its own images.
OcrTextIsOwn == \A i \in Items : texts[i] \subseteq {Batch[i]}
=============================================================================
