------------------------------ MODULE SiteCrawl ------------------------------
(***************************************************************************)
(* The incremental scan of the job lists of one site that needs a login.   *)
(*                                                                         *)
(* A table of links (outside) has one row per list, with the time of its   *)
(* last edit.  For each row an agent asks state.py whether the list was    *)
(* already taken at that time; if not it runs crawl.py, and after a status *)
(* of "ok" has state.py mark the row with the hash of what was read.       *)
(*                                                                         *)
(* The browser profile of the site admits one crawl at a time; a mark is a *)
(* process of its own and may run beside another mark and a later crawl.   *)
(* Every process may be killed at any step.                                *)
(***************************************************************************)
EXTENDS Naturals, Sequences, FiniteSets, SequencesExt, FiniteSetsExt

CONSTANTS
  Urls,       \* the lists of the site
  NoUrl,
  Lengths,    \* how many pages a list may have
  MaxPages,   \* --max-pages
  Cap,        \* max_pages_per_day
  Attempts,   \* max_backoff_attempts
  MaxTime,    \* bound: edits of a row
  MaxVersion, \* bound: contents of a list
  MaxDays,    \* bound: days
  MaxMarks,   \* bound: marks begun
  MaxFaults   \* bound: damaged files

ASSUME SiteCrawlAssumption ==
  /\ NoUrl \notin Urls
  /\ Lengths \subseteq Nat \ {0}
  /\ \A n \in {MaxPages, Cap, Attempts, MaxTime, MaxVersion, MaxDays} : n \in Nat \ {0}
  /\ MaxMarks \in Nat /\ MaxFaults \in Nat

VARIABLES
  site,     \* how long a list is, how the site turns pages
  day,
  quota,    \* store/state/<site>.json
  sheet,    \* time of a row's last edit
  version,  \* what a list shows now
  due,      \* what it showed when its row was last edited
  cache,    \* cache.json: the content a list had when last crawled, or 0
  crawl,    \* the crawl under way
  marking,  \* the marks under way
  live,     \* state.json
  backup,   \* state.json.bak
  begun,    \* marks begun
  kept,     \* a mark has made a whole backup
  marked,   \* what the marks that returned recorded
  faults

world == <<site, day, sheet, version, due>>
registry == <<live, backup, marking, begun, kept, marked>>
vars == <<site, day, quota, sheet, version, due, cache, crawl, marking,
          live, backup, begun, kept, marked, faults>>

\* The challenges detect_challenge tells apart.
Challenges == {"none", "rate_limited", "slider", "captcha", "js_challenge", "login_wall"}

Wall == 0 \* the text of a page that shows a challenge instead of jobs

\* want: the time of the row that led to the crawl.  tab: the page shown.
\* texts: all_texts.  hash: the content read.
NoCrawl == [at |-> "idle", url |-> NoUrl, want |-> 0, attempt |-> 1,
            tab |-> 1, texts |-> <<>>, hash |-> 0, cached |-> FALSE]

Unreadable == [ok |-> FALSE, entries |-> <<>>] \* absent or damaged
Readable(entries) == [ok |-> TRUE, entries |-> entries]

NoEntry == [url |-> NoUrl, hash |-> 0, time |-> 0, stamp |-> 0]
NotMarking == [at |-> "idle", found |-> <<>>, entry |-> NoEntry, cached |-> FALSE]

-----------------------------------------------------------------------------
(* state.py                                                                *)

\* _load_state
State == IF live.ok THEN live.entries ELSE backup.entries

Of(u) == {i \in DOMAIN State : State[i].url = u}

\* Mutant of CheckSkips: the time is not compared.
CheckSkipsEver(u, t) == Of(u) # {}

\* cmd_check: the first entry of the list decides.
CheckSkips(u, t) == Of(u) # {} /\ State[Min(Of(u))].time = t

\* cmd_diff: the entry extracted last decides.
DiffSkips(u, t) ==
  \E i \in Of(u) : /\ \A j \in Of(u) : State[j].stamp <= State[i].stamp
                   /\ State[i].time = t

\* cmd_mark: an entry has the hash and the list as its key.
Marked(entries, e) ==
  LET same == {i \in DOMAIN entries : entries[i].hash = e.hash /\ entries[i].url = e.url}
  IN  IF same = {} THEN Append(entries, e) ELSE [entries EXCEPT ![Min(same)] = e]

\* A mark reads the state, ...
MarkLoads(u) ==
  /\ crawl.at = "ok" /\ crawl.url = u
  /\ marking[u].at = "idle" /\ begun < MaxMarks
  /\ begun' = begun + 1
  /\ marking' = [marking EXCEPT ![u] =
                   [at |-> "loaded", found |-> State, cached |-> crawl.cached,
                    entry |-> [url |-> u, hash |-> crawl.hash, time |-> crawl.want,
                               stamp |-> begun + 1]]]
  /\ crawl' = NoCrawl
  /\ UNCHANGED <<world, quota, cache, live, backup, kept, marked, faults>>

\* Mutant of Backup: the live file is copied unread.
BackupUnread == live

\* What _save_state keeps as the backup: the live file, unless it is damaged.
Backup == IF live.ok THEN live ELSE backup

\* ... copies the file, ...
MarkCopies(u) ==
  /\ marking[u].at = "loaded"
  /\ backup' = Backup
  /\ kept' = (kept \/ live.ok)
  /\ marking' = [marking EXCEPT ![u].at = "copied"]
  /\ UNCHANGED <<world, quota, cache, crawl, live, begun, marked, faults>>

\* ... and replaces it at once by a file written beside it.
MarkReplaces(u) ==
  /\ marking[u].at = "copied"
  /\ live' = Readable(Marked(marking[u].found, marking[u].entry))
  /\ marked' = marked \cup {[entry |-> marking[u].entry, cached |-> marking[u].cached]}
  /\ marking' = [marking EXCEPT ![u] = NotMarking]
  /\ UNCHANGED <<world, quota, cache, crawl, backup, begun, kept, faults>>

\* A mark dies between its steps ...
MarkDies(u) ==
  /\ marking[u].at # "idle"
  /\ marking' = [marking EXCEPT ![u] = NotMarking]
  /\ UNCHANGED <<world, quota, cache, crawl, live, backup, begun, kept, marked, faults>>

\* ... or in the middle of the copy, ...
CopyIsCut(u) ==
  /\ marking[u].at = "loaded" /\ live.ok /\ faults < MaxFaults
  /\ faults' = faults + 1
  /\ backup' = Unreadable
  /\ marking' = [marking EXCEPT ![u] = NotMarking]
  /\ UNCHANGED <<world, quota, cache, crawl, live, begun, kept, marked>>

\* ... or the live file is damaged from outside.
LiveIsDamaged ==
  /\ live.ok /\ faults < MaxFaults
  /\ faults' = faults + 1
  /\ live' = Unreadable
  /\ UNCHANGED <<world, quota, cache, crawl, marking, backup, begun, kept, marked>>

-----------------------------------------------------------------------------
(* pacing.py                                                               *)

\* _sync_today
Fetched == IF quota.day = day THEN quota.fetched ELSE 0

\* Mutant of Remaining: the page that reaches the cap is not the last.
RemainingLate == Fetched <= Cap

\* remaining_pages_today, asked by wait_before_request
Remaining == Fetched < Cap

\* record_request, once per page counted
Recorded == [day |-> day, fetched |-> Fetched + 1]

-----------------------------------------------------------------------------
(* crawl.py                                                                *)

\* The agent asks about a row and crawls unless the answer is "skip".
Scan(u, skips) ==
  /\ crawl.at = "idle" /\ marking[u].at = "idle"
  /\ crawl' = [NoCrawl EXCEPT !.url = u, !.want = sheet[u],
                              !.at = IF skips THEN "skipped" ELSE "start"]
  /\ UNCHANGED <<world, quota, cache, registry, faults>>

\* A crawl that fails leaves nothing.
Goes(next) ==
  /\ crawl' = IF next.at = "failed" THEN [NoCrawl EXCEPT !.at = "failed"] ELSE next
  /\ UNCHANGED <<world, quota, cache, registry, faults>>

\* main: without --no-cache what the cache names is returned as it is.
FromCache ==
  /\ crawl.at = "start" /\ cache[crawl.url] # 0
  /\ Goes([crawl EXCEPT !.at = "ok", !.hash = cache[crawl.url], !.cached = TRUE])

\* The probe of the login; out: the site says so.
Probe(out) ==
  /\ crawl.at = "start"
  /\ Goes([crawl EXCEPT !.at = IF out THEN "failed" ELSE "load"])

\* Mutant of AfterLoad: what is not handled is crawled.
AfterLoadUnhandled(challenge) ==
  CASE challenge \in {"slider", "captcha", "js_challenge"} -> "challenged"
    [] challenge = "rate_limited" /\ crawl.attempt < Attempts -> "load"
    [] OTHER -> "list"

\* What the first page's challenge leads to.
AfterLoad(challenge) ==
  CASE challenge = "none" -> "list"
    [] challenge \in {"slider", "captcha", "js_challenge"} -> "challenged"
    [] challenge = "rate_limited" /\ crawl.attempt < Attempts -> "load"
    [] OTHER -> "failed"

\* load_page: one attempt.
LoadPage(challenge) ==
  /\ crawl.at = "load"
  /\ IF Remaining
       THEN Goes([crawl EXCEPT !.at = AfterLoad(challenge),
                               !.tab = IF challenge = "none" THEN 1 ELSE Wall,
                               !.attempt = IF AfterLoad(challenge) = "load" THEN @ + 1 ELSE 1,
                               !.hash = version[crawl.url]])
       ELSE Goes([crawl EXCEPT !.at = "failed"])

\* handle_challenge: a person, or the browser, passes it in time or not; on a
\* later page the crawl keeps what it has.
Challenged(passed) ==
  /\ crawl.at = "challenged"
  /\ Goes([crawl EXCEPT !.tab = IF crawl.texts = <<>> THEN 1 ELSE @,
                        !.at = IF passed THEN "list"
                               ELSE IF crawl.texts = <<>> THEN "failed" ELSE "save"])

More(texts) == Len(texts) < MaxPages

\* The text of the tab is taken and counted.
Take(next, tab) ==
  LET texts == Append(crawl.texts, tab)
  IN  /\ crawl' = [crawl EXCEPT !.texts = texts, !.tab = tab,
                                !.at = IF More(texts) THEN next ELSE "save"]
      /\ quota' = Recorded
      /\ UNCHANGED <<world, cache, registry, faults>>

Collect == crawl.at = "list" /\ Take("turn", crawl.tab)

HasNext == crawl.tab # Wall /\ crawl.tab < site.length

\* No next control, or a click that raises or changes nothing: the list ends.
Stop ==
  /\ crawl.at = "turn"
  /\ HasNext => Remaining
  /\ Goes([crawl EXCEPT !.at = "save"])

\* The cap ends a crawl with nothing.
Capped ==
  /\ crawl.at = "turn" /\ HasNext /\ ~Remaining
  /\ Goes([crawl EXCEPT !.at = "failed"])

MayTurn == crawl.at = "turn" /\ HasNext /\ Remaining

\* A click under the same URL: the new text is taken at once, whatever it is,
\* and again by the loop if there is room.
TurnInPlace(challenge) ==
  /\ MayTurn /\ site.inPlace
  /\ Take("list", IF challenge = "none" THEN crawl.tab + 1 ELSE Wall)

\* A click to another URL: some challenges are looked for.
TurnToUrl(challenge) ==
  LET tab == IF challenge \in {"js_challenge", "login_wall"} THEN Wall ELSE crawl.tab + 1
  IN  /\ MayTurn /\ ~site.inPlace
      /\ Goes([crawl EXCEPT !.tab = tab,
                            !.at = CASE challenge \in {"slider", "captcha"} -> "challenged"
                                     [] challenge = "rate_limited" -> "save"
                                     [] OTHER -> "list"])

\* The evidence is written, unless the pages were almost empty, and the cache.
Save(empty) ==
  /\ crawl.at = "save"
  /\ crawl' = [crawl EXCEPT !.at = IF empty THEN "failed" ELSE "ok", !.tab = 1]
  /\ cache' = IF empty THEN cache ELSE [cache EXCEPT ![crawl.url] = crawl.hash]
  /\ UNCHANGED <<world, quota, registry, faults>>

\* The agent goes on after a skip or a failure, or a crawl is killed.
Return ==
  /\ crawl.at # "idle"
  /\ Goes(NoCrawl)

-----------------------------------------------------------------------------
(* The world outside.                                                      *)

NextDay ==
  /\ day < MaxDays
  /\ day' = day + 1
  /\ UNCHANGED <<site, sheet, version, due, quota, cache, crawl, registry, faults>>

ListChanges(u) ==
  /\ version[u] < MaxVersion
  /\ version' = [version EXCEPT ![u] = @ + 1]
  /\ UNCHANGED <<site, day, sheet, due, quota, cache, crawl, registry, faults>>

RowIsEdited(u) ==
  /\ sheet[u] < MaxTime
  /\ sheet' = [sheet EXCEPT ![u] = @ + 1]
  /\ due' = [due EXCEPT ![u] = version[u]]
  /\ UNCHANGED <<site, day, version, quota, cache, crawl, registry, faults>>

-----------------------------------------------------------------------------
SiteType == [length : Lengths, inPlace : BOOLEAN]

Init ==
  /\ site \in SiteType
  /\ day = 1
  /\ quota = [day |-> 0, fetched |-> 0]
  /\ sheet = [u \in Urls |-> 1]
  /\ version = [u \in Urls |-> 1]
  /\ due = [u \in Urls |-> 1]
  /\ cache = [u \in Urls |-> 0]
  /\ crawl = NoCrawl
  /\ marking = [u \in Urls |-> NotMarking]
  /\ live = Readable(<<>>) \* cmd_init
  /\ backup = Unreadable
  /\ begun = 0 /\ kept = FALSE
  /\ marked = {}
  /\ faults = 0

Next ==
  \/ \E u \in Urls :
       \/ \E skips \in {CheckSkips(u, sheet[u]), DiffSkips(u, sheet[u])} : Scan(u, skips)
       \/ MarkLoads(u) \/ MarkCopies(u) \/ MarkReplaces(u) \/ MarkDies(u) \/ CopyIsCut(u)
       \/ ListChanges(u) \/ RowIsEdited(u)
  \/ FromCache
  \/ \E out \in BOOLEAN : Probe(out)
  \/ \E challenge \in Challenges :
       LoadPage(challenge) \/ TurnInPlace(challenge) \/ TurnToUrl(challenge)
  \/ \E passed \in BOOLEAN : Challenged(passed)
  \/ Collect \/ Stop \/ Capped
  \/ \E empty \in BOOLEAN : Save(empty)
  \/ Return
  \/ LiveIsDamaged
  \/ NextDay

Spec == Init /\ [][Next]_vars

-----------------------------------------------------------------------------
TypeOK ==
  /\ site \in SiteType
  /\ day \in 1..MaxDays /\ quota \in [day : 0..MaxDays, fetched : Nat]
  /\ sheet \in [Urls -> 1..MaxTime]
  /\ version \in [Urls -> 1..MaxVersion] /\ due \in [Urls -> 1..MaxVersion]
  /\ cache \in [Urls -> 0..MaxVersion]
  /\ crawl.at \in {"idle", "skipped", "start", "load", "challenged", "list", "turn",
                   "save", "ok", "failed"}
  /\ crawl.texts \in BoundedSeq(0..Max(Lengths), MaxPages)
  /\ \A u \in Urls : marking[u].at \in {"idle", "loaded", "copied"}
  /\ kept \in BOOLEAN /\ begun \in 0..MaxMarks /\ faults \in 0..MaxFaults

(***************************************************************************)
(* A list is skipped only if a mark recorded it at the time its row has,   *)
(* with content no older than what the list showed when the row was        *)
(* edited, or with what the cache gave; whatever marks overlapped, died or *)
(* were undone by going back to the backup.                                *)
(***************************************************************************)
SkipIsSafe ==
  crawl.at = "skipped" =>
    \E m \in marked :
      /\ m.entry.url = crawl.url /\ m.entry.time = crawl.want
      /\ m.cached \/ crawl.want < sheet[crawl.url] \/ m.entry.hash >= due[crawl.url]

(***************************************************************************)
(* From the first whole backup on the registry is never lost as a whole:   *)
(* one damaged or half-copied file leaves the other readable, also while   *)
(* marks overlap, and when the mark that repairs the damage dies on its    *)
(* way (_save_state: "a partially written state file must never be the     *)
(* only recovery point").                                                  *)
(***************************************************************************)
StateIsRecoverable == kept => live.ok \/ backup.ok

(***************************************************************************)
(* The pages counted on a day exceed the cap by one at most: a crawl asks  *)
(* before every page, and only a turn in place counts two for one answer.  *)
(***************************************************************************)
CapHolds == quota.fetched <= Cap + 1

(***************************************************************************)
(* A crawl that reports "ok" from the site did not begin at a challenge:   *)
(* its first text is the first page of the list.                           *)
(***************************************************************************)
FirstPageIsClear ==
  (crawl.at = "ok" /\ ~crawl.cached) =>
     crawl.texts # <<>> /\ Head(crawl.texts) = 1 /\ crawl.hash # 0

(***************************************************************************)
(* A skipped list was read after its row's last edit.  The code breaks it: *)
(* main returns what cache.json names without a time or a look at the      *)
(* site, so a row edited since is marked with the old content              *)
(* (incremental-persistence.md:16: a changed update_time means             *)
(* "Re-browse").                                                           *)
(***************************************************************************)
SkipIsFresh ==
  crawl.at = "skipped" =>
    \E m \in marked :
      /\ m.entry.url = crawl.url /\ m.entry.time = crawl.want
      /\ crawl.want < sheet[crawl.url] \/ m.entry.hash >= due[crawl.url]
=============================================================================
