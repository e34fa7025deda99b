------------------------- MODULE CrawlScriptsProofs -------------------------
(***************************************************************************)
(* Proofs about the two crawling scripts.  The scan of a site: the cap of  *)
(* a day is exceeded by one at most, a capture begins with the first page, *)
(* and a list is skipped only if it was recorded, for any lists, caps,     *)
(* days, edits, marks and faults; the registry survives one fault.  A      *)
(* capture: a wall ends it, its texts are in order, and what its gate      *)
(* passes is complete, for any lists, modes and numbers of threads.        *)
(***************************************************************************)
EXTENDS SiteCrawl, BrowsePages, SequenceTheorems, FiniteSetTheorems, WellFoundedInduction, TLAPS

Links == Urls \cup {NoUrl}
Entries == [url : Links, hash : Nat, time : Nat, stamp : Nat]
Files == [ok : BOOLEAN, entries : Seq(Entries)]
Places == {"idle", "skipped", "start", "load", "challenged", "list", "turn", "save",
           "ok", "failed"}
Crawls == [at : Places, url : Links, want : Nat, attempt : Nat, tab : Nat,
           texts : Seq(Nat), hash : Nat, cached : BOOLEAN]
Marks == [at : {"idle", "loaded", "copied"}, found : Seq(Entries), entry : Entries,
          cached : BOOLEAN]

\* The part of the types that the argument needs.
WorldOK ==
  /\ day \in Nat
  /\ sheet \in [Urls -> Nat] /\ version \in [Urls -> Nat] /\ due \in [Urls -> Nat]
  /\ cache \in [Urls -> Nat]
  /\ begun \in Nat

CrawlOK == crawl \in Crawls /\ (crawl.at \notin {"idle", "failed"} => crawl.url \in Urls)

RegistryOK ==
  /\ live \in Files /\ backup \in Files
  /\ marking \in [Urls -> Marks]
  /\ \A m \in marked : m.entry \in Entries

\* The count is of today or of an earlier day, and where a page is about to be
\* taken the cap has room for it, or just had.
QuotaInv ==
  /\ quota \in [day : Nat, fetched : Nat]
  /\ quota.day <= day
  /\ quota.fetched <= Cap + 1
  /\ crawl.at \in {"list", "challenged"} => Fetched <= Cap

\* The texts begin with the first page, and where none was taken yet it is in
\* the tab.
TextsInv ==
  /\ crawl.texts # <<>> => Head(crawl.texts) = 1
  /\ crawl.at = "list" /\ crawl.texts = <<>> => crawl.tab = 1
  /\ crawl.at \in {"turn", "save"} => crawl.texts # <<>>
  /\ crawl.at = "ok" /\ ~crawl.cached => crawl.texts # <<>>

\* Content h recorded for the edit of time t of the list u: it is no older than
\* the row's last edit, if that is the one.
UpToDate(u, t, h) == t <= sheet[u] /\ (t < sheet[u] \/ h >= due[u])

\* What a row is due is what its list has shown, and a crawl has read no less.
ContentInv ==
  /\ \A u \in Urls : 1 <= version[u] /\ due[u] <= version[u]
  /\ crawl.at \notin {"idle", "failed"} => crawl.want <= sheet[crawl.url]
  /\ crawl.at \in {"list", "challenged", "turn", "save", "ok"} =>
       \/ crawl.cached
       \/ crawl.hash # 0 /\ UpToDate(crawl.url, crawl.want, crawl.hash)

\* A mark that is on its way, or has returned, records such content.
MarkIsSafe(m) ==
  /\ m.entry.url \in Urls
  /\ m.entry.time <= sheet[m.entry.url]
  /\ m.cached \/ UpToDate(m.entry.url, m.entry.time, m.entry.hash)

\* The entries of a file are those of marks that have returned.
FromMarks(entries) ==
  \A i \in DOMAIN entries : \E m \in marked : m.entry = entries[i]

MarksInv ==
  /\ \A m \in marked : MarkIsSafe(m)
  /\ \A u \in Urls : marking[u].at # "idle" => MarkIsSafe(marking[u])
  /\ FromMarks(live.entries) /\ FromMarks(backup.entries)
  /\ \A u \in Urls : FromMarks(marking[u].found)

IInv == WorldOK /\ CrawlOK /\ RegistryOK /\ QuotaInv /\ TextsInv /\ ContentInv
          /\ MarksInv /\ SkipIsSafe

----------------------------------------------------------------------------
(* The types.                                                              *)

\* No crawl, no mark and no file are what they should be.
LEMMA EmptyOK ==
  /\ NoCrawl \in Crawls /\ NoEntry \in Entries /\ NotMarking \in Marks
  /\ Unreadable \in Files /\ Readable(<<>>) \in Files
<1>1. <<>> \in Seq(Nat) /\ <<>> \in Seq(Entries)
  OBVIOUS
<1>2. NoEntry \in Entries
  BY DEF NoEntry, Entries, Links
<1> QED
  BY <1>1, <1>2 DEF NoCrawl, NotMarking, Unreadable, Readable, Crawls, Marks, Files,
                    Places, Links

\* The steps of a crawl under way.
CrawlSteps ==
  \/ FromCache
  \/ \E out \in BOOLEAN : Probe(out)
  \/ \E challenge \in Challenges :
       LoadPage(challenge) \/ TurnInPlace(challenge) \/ TurnToUrl(challenge)
  \/ \E passed \in BOOLEAN : Challenged(passed)
  \/ Collect \/ Stop \/ Capped
  \/ \E empty \in BOOLEAN : Save(empty)
  \/ Return

\* A crawl leaves the site, the registry and its marks alone.
LEMMA CrawlFrame == CrawlSteps => UNCHANGED <<world, registry, faults>>
BY DEF CrawlSteps, FromCache, Probe, LoadPage, TurnInPlace, TurnToUrl, Challenged, Collect,
       Stop, Capped, Save, Return, Goes, Take

\* A scan of a row begins a crawl or skips it.
LEMMA ScanBegins ==
  ASSUME NEW u, NEW skips, Scan(u, skips)
  PROVE  /\ crawl'.at = IF skips THEN "skipped" ELSE "start"
         /\ crawl'.url = u /\ crawl'.want = sheet[u] /\ crawl'.texts = <<>>
         /\ UNCHANGED <<world, quota, cache, registry, faults>>
BY DEF Scan, NoCrawl

\* The steps there are.
LEMMA Cases ==
  [Next]_vars =>
    \/ UNCHANGED vars
    \/ \E u \in Urls : \E skips \in {CheckSkips(u, sheet[u]), DiffSkips(u, sheet[u])} :
         Scan(u, skips)
    \/ \E u \in Urls : MarkLoads(u)
    \/ \E u \in Urls : MarkCopies(u)
    \/ \E u \in Urls : MarkReplaces(u)
    \/ \E u \in Urls : MarkDies(u)
    \/ \E u \in Urls : CopyIsCut(u)
    \/ \E u \in Urls : ListChanges(u)
    \/ \E u \in Urls : RowIsEdited(u)
    \/ CrawlSteps \/ LiveIsDamaged \/ NextDay
BY DEF Next, CrawlSteps

\* The world keeps its types.
LEMMA WorldPreserved == IInv /\ [Next]_vars => WorldOK'
<1> SUFFICES ASSUME IInv, [Next]_vars PROVE WorldOK'
  OBVIOUS
<1> USE DEF IInv, WorldOK
<1>1. CASE \E u \in Urls : MarkLoads(u)
  BY <1>1 DEF MarkLoads, world
<1>2. CASE \E u \in Urls : ListChanges(u)
  BY <1>2 DEF ListChanges, registry
<1>3. CASE \E u \in Urls : RowIsEdited(u)
  BY <1>3 DEF RowIsEdited, registry
<1>4. CASE NextDay
  BY <1>4 DEF NextDay, registry
<1>5. CASE CrawlSteps
  <2>1. cache' \in [Urls -> Nat]
    BY <1>5 DEF CrawlSteps, FromCache, Probe, LoadPage, TurnInPlace, TurnToUrl, Challenged,
                Collect, Stop, Capped, Save, Return, Goes, Take, CrawlOK, Crawls
  <2> QED
    BY <1>5, <2>1, CrawlFrame DEF world, registry
<1>6. CASE UNCHANGED <<world, cache, begun>>
  BY <1>6 DEF world
<1>7. ASSUME NEW u \in Urls,
             \/ \E skips \in {CheckSkips(u, sheet[u]), DiffSkips(u, sheet[u])} : Scan(u, skips)
             \/ MarkCopies(u) \/ MarkReplaces(u) \/ MarkDies(u) \/ CopyIsCut(u)
      PROVE UNCHANGED <<world, cache, begun>>
  BY <1>7 DEF Scan, MarkCopies, MarkReplaces, MarkDies, CopyIsCut, registry
<1>8. ASSUME UNCHANGED vars \/ LiveIsDamaged PROVE UNCHANGED <<world, cache, begun>>
  BY <1>8 DEF vars, world, LiveIsDamaged
<1> QED
  BY <1>1, <1>2, <1>3, <1>4, <1>5, <1>6, <1>7, <1>8, Cases

\* A crawl that goes on, or fails, keeps its type, ...
LEMMA GoesOK ==
  ASSUME NEW next \in Crawls, next.at \notin {"idle", "failed"} => next.url \in Urls, Goes(next)
  PROVE  CrawlOK'
<1>1. CASE next.at = "failed"
  <2>1. crawl' = [NoCrawl EXCEPT !.at = "failed"]
    BY <1>1 DEF Goes
  <2>2. crawl' \in Crawls /\ crawl'.at = "failed"
    BY <2>1, EmptyOK DEF Crawls, Places
  <2> QED
    BY <2>2 DEF CrawlOK
<1>2. CASE next.at # "failed"
  <2>1. crawl' = next
    BY <1>2 DEF Goes
  <2> QED
    BY <2>1 DEF CrawlOK
<1> QED
  BY <1>1, <1>2

\* ... and so does one that takes a text.
LEMMA TakeOK ==
  ASSUME CrawlOK, crawl.at \in {"list", "turn"},
         NEW next \in {"list", "turn"}, NEW shown \in Nat, Take(next, shown)
  PROVE  CrawlOK'
<1>1. Append(crawl.texts, shown) \in Seq(Nat)
  BY AppendProperties DEF CrawlOK, Crawls
<1>2. crawl \in Crawls /\ crawl.url \in Urls
  BY DEF CrawlOK
<1> DEFINE at == IF More(Append(crawl.texts, shown)) THEN next ELSE "save"
<1>3. at \in Places /\ crawl' = [crawl EXCEPT !.texts = Append(crawl.texts, shown),
                                              !.tab = shown, !.at = at]
  BY DEF Take, Places
<1> HIDE DEF at
<1>4. crawl' \in Crawls /\ crawl'.url = crawl.url
  BY <1>1, <1>2, <1>3 DEF Crawls
<1> QED
  BY <1>2, <1>4 DEF CrawlOK

\* A crawl keeps its type.
LEMMA CrawlPreserved == IInv /\ [Next]_vars => CrawlOK'
<1> SUFFICES ASSUME IInv, [Next]_vars PROVE CrawlOK'
  OBVIOUS
<1> USE DEF IInv, CrawlOK
<1>1. crawl \in Crawls /\ NoCrawl \in Crawls
  BY EmptyOK
<1>2. ASSUME NEW u \in Urls,
             NEW skips \in {CheckSkips(u, sheet[u]), DiffSkips(u, sheet[u])}, Scan(u, skips)
      PROVE CrawlOK'
  <2> DEFINE at == IF skips THEN "skipped" ELSE "start"
  <2>1. at \in Places /\ u \in Links /\ sheet[u] \in Nat
    BY DEF Places, Links, WorldOK
  <2>2. crawl' = [NoCrawl EXCEPT !.url = u, !.want = sheet[u], !.at = at]
    BY <1>2 DEF Scan
  <2> HIDE DEF at
  <2>3. crawl' \in Crawls /\ crawl'.url = u
    BY <1>1, <2>1, <2>2 DEF Crawls
  <2> QED
    BY <2>3
<1>3. CASE \E u \in Urls : MarkLoads(u)
  BY <1>1, <1>3 DEF MarkLoads, NoCrawl
<1>4. CASE CrawlSteps
  <2>1. CASE FromCache
    <3>1. [crawl EXCEPT !.at = "ok", !.hash = cache[crawl.url], !.cached = TRUE] \in Crawls
      BY <1>1, <2>1 DEF FromCache, Crawls, Places, WorldOK
    <3> QED
      BY <1>1, <2>1, <3>1, GoesOK DEF FromCache, Crawls
  <2>2. ASSUME NEW out \in BOOLEAN, Probe(out) PROVE CrawlOK'
    <3>1. [crawl EXCEPT !.at = IF out THEN "failed" ELSE "load"] \in Crawls
      BY <1>1 DEF Crawls, Places
    <3> QED
      BY <1>1, <2>2, <3>1, GoesOK DEF Probe, Crawls
  <2>3. ASSUME NEW challenge \in Challenges, LoadPage(challenge) PROVE CrawlOK'
    <3> DEFINE at == AfterLoad(challenge)
               shown == IF challenge = "none" THEN 1 ELSE Wall
               attempt == IF at = "load" THEN crawl.attempt + 1 ELSE 1
               hash == version[crawl.url]
               next == [crawl EXCEPT !.at = at, !.tab = shown, !.attempt = attempt, !.hash = hash]
    <3>1. at \in Places /\ shown \in Nat /\ attempt \in Nat
      BY <1>1 DEF AfterLoad, Places, Wall, Crawls
    <3>2. crawl.url \in Urls /\ hash \in Nat
      BY <2>3 DEF LoadPage, WorldOK
    <3>3. Goes(next) \/ Goes([crawl EXCEPT !.at = "failed"])
      BY <2>3 DEF LoadPage
    <3> HIDE DEF at, shown, attempt, hash
    <3>4. next \in Crawls /\ next.url = crawl.url
      BY <1>1, <3>1, <3>2 DEF Crawls
    <3>5. [crawl EXCEPT !.at = "failed"] \in Crawls
      BY <1>1 DEF Crawls, Places
    <3> HIDE DEF next
    <3>6. CASE Goes(next)
      BY <3>2, <3>4, <3>6, GoesOK
    <3>7. CASE Goes([crawl EXCEPT !.at = "failed"])
      BY <1>1, <3>5, <3>7, GoesOK DEF Crawls
    <3> QED
      BY <3>3, <3>6, <3>7
  <2>4. ASSUME NEW challenge \in Challenges, TurnInPlace(challenge) PROVE CrawlOK'
    <3>1. (IF challenge = "none" THEN crawl.tab + 1 ELSE Wall) \in Nat
      BY <1>1 DEF Crawls, Wall
    <3> QED
      BY <2>4, <3>1, TakeOK DEF TurnInPlace, MayTurn
  <2>5. ASSUME NEW challenge \in Challenges, TurnToUrl(challenge) PROVE CrawlOK'
    <3> DEFINE shown == IF challenge \in {"js_challenge", "login_wall"} THEN Wall
                      ELSE crawl.tab + 1
               at == CASE challenge \in {"slider", "captcha"} -> "challenged"
                       [] challenge = "rate_limited" -> "save"
                       [] OTHER -> "list"
    <3>1. shown \in Nat /\ at \in Places /\ crawl.url \in Urls
      BY <1>1, <2>5 DEF Crawls, Places, Wall, TurnToUrl, MayTurn
    <3>2. Goes([crawl EXCEPT !.tab = shown, !.at = at])
      BY <2>5 DEF TurnToUrl
    <3> HIDE DEF shown, at
    <3>3. [crawl EXCEPT !.tab = shown, !.at = at] \in Crawls
      BY <1>1, <3>1 DEF Crawls
    <3> QED
      BY <1>1, <3>1, <3>2, <3>3, GoesOK DEF Crawls
  <2>6. ASSUME NEW passed \in BOOLEAN, Challenged(passed) PROVE CrawlOK'
    <3> DEFINE shown == IF crawl.texts = <<>> THEN 1 ELSE crawl.tab
               at == IF passed THEN "list"
                     ELSE IF crawl.texts = <<>> THEN "failed" ELSE "save"
    <3>1. shown \in Nat /\ at \in Places /\ crawl.url \in Urls
      BY <1>1, <2>6 DEF Crawls, Places, Challenged
    <3>2. Goes([crawl EXCEPT !.tab = shown, !.at = at])
      BY <2>6 DEF Challenged
    <3> HIDE DEF shown, at
    <3>3. [crawl EXCEPT !.tab = shown, !.at = at] \in Crawls
      BY <1>1, <3>1 DEF Crawls
    <3> QED
      BY <1>1, <3>1, <3>2, <3>3, GoesOK DEF Crawls
  <2>7. CASE Collect
    BY <1>1, <2>7, TakeOK DEF Collect, Crawls
  <2>8. CASE Stop \/ Capped
    BY <1>1, <2>8 DEF Stop, Capped, Goes, Crawls, Places
  <2>9. ASSUME NEW empty \in BOOLEAN, Save(empty) PROVE CrawlOK'
    BY <1>1, <2>9 DEF Save, Crawls, Places
  <2>10. CASE Return
    BY <1>1, <2>10 DEF Return, Goes, NoCrawl
  <2> QED
    BY <1>4, <2>1, <2>2, <2>3, <2>4, <2>5, <2>6, <2>7, <2>8, <2>9, <2>10 DEF CrawlSteps
<1>5. ASSUME NEW u \in Urls,
             \/ MarkCopies(u) \/ MarkReplaces(u) \/ MarkDies(u) \/ CopyIsCut(u)
             \/ ListChanges(u) \/ RowIsEdited(u)
      PROVE CrawlOK'
  BY <1>5 DEF MarkCopies, MarkReplaces, MarkDies, CopyIsCut, ListChanges, RowIsEdited
<1>6. CASE UNCHANGED vars \/ LiveIsDamaged \/ NextDay
  BY <1>6 DEF vars, LiveIsDamaged, NextDay
<1> QED
  BY <1>2, <1>3, <1>4, <1>5, <1>6, Cases

\* The first of some positions is one of them.
LEMMA MinIsOne == ASSUME NEW S \in SUBSET Nat, S # {} PROVE Min(S) \in S
<1>1. PICK x \in S : \A y \in S : ~ (<<y, x>> \in OpToRel(<, Nat))
  BY WFMin, NatLessThanWellFounded
<1>2. \A y \in S : ~ (y < x)
  BY <1>1, Zenon DEF OpToRel
<1>3. \A y \in S : x <= y
  BY <1>2
<1> QED
  BY <1>3 DEF Min

\* What a mark writes is what it read and its own entry.
LEMMA MarkedOK ==
  ASSUME NEW s \in Seq(Entries), NEW e \in Entries
  PROVE  /\ Marked(s, e) \in Seq(Entries)
         /\ \A i \in DOMAIN Marked(s, e) :
              Marked(s, e)[i] = e \/ \E j \in DOMAIN s : Marked(s, e)[i] = s[j]
<1> DEFINE same == {i \in DOMAIN s : s[i].hash = e.hash /\ s[i].url = e.url}
<1>1. CASE same = {}
  <2>1. Marked(s, e) = Append(s, e)
    BY <1>1 DEF Marked
  <2> QED
    BY <2>1, AppendProperties
<1>2. CASE same # {}
  <2>1. same \in SUBSET Nat /\ DOMAIN s = 1..Len(s)
    OBVIOUS
  <2>2. Min(same) \in 1..Len(s)
    BY <1>2, <2>1, MinIsOne
  <2>3. Marked(s, e) = [s EXCEPT ![Min(same)] = e]
    BY <1>2 DEF Marked
  <2> HIDE DEF same
  <2> QED
    BY <2>1, <2>2, <2>3, ExceptSeq
<1> QED
  BY <1>1, <1>2

\* The files and the marks keep their types.
LEMMA RegistryPreserved == IInv /\ [Next]_vars => RegistryOK'
<1> SUFFICES ASSUME IInv, [Next]_vars PROVE RegistryOK'
  OBVIOUS
<1> USE DEF IInv, RegistryOK
<1>1. State \in Seq(Entries)
  BY DEF State, Files
<1>2. ASSUME NEW u \in Urls, MarkLoads(u) PROVE RegistryOK'
  <2> DEFINE entry == [url |-> u, hash |-> crawl.hash, time |-> crawl.want,
                       stamp |-> begun + 1]
  <2>1. entry \in Entries
    BY DEF Entries, Links, CrawlOK, Crawls, WorldOK
  <2>2. [at |-> "loaded", found |-> State, cached |-> crawl.cached, entry |-> entry] \in Marks
    BY <1>1, <2>1 DEF Marks, CrawlOK, Crawls
  <2> QED
    BY <1>2, <2>2 DEF MarkLoads
<1>3. ASSUME NEW u \in Urls, MarkCopies(u) PROVE RegistryOK'
  BY <1>3 DEF MarkCopies, Backup, Marks
<1>4. ASSUME NEW u \in Urls, MarkReplaces(u) PROVE RegistryOK'
  <2>1. marking[u].entry \in Entries
        /\ Marked(marking[u].found, marking[u].entry) \in Seq(Entries)
    BY MarkedOK DEF Marks
  <2>2. marking' \in [Urls -> Marks] /\ backup' = backup
    BY <1>4, EmptyOK DEF MarkReplaces
  <2>3. live' \in Files
    BY <1>4, <2>1 DEF MarkReplaces, Readable, Files
  <2>4. \A m \in marked' : m.entry \in Entries
    BY <1>4, <2>1 DEF MarkReplaces
  <2> QED
    BY <2>2, <2>3, <2>4
<1>5. ASSUME NEW u \in Urls, MarkDies(u) \/ CopyIsCut(u) PROVE RegistryOK'
  BY <1>5, EmptyOK DEF MarkDies, CopyIsCut
<1>6. CASE LiveIsDamaged
  BY <1>6, EmptyOK DEF LiveIsDamaged
<1>7. CASE UNCHANGED <<live, backup, marking, marked>>
  BY <1>7
<1>8. ASSUME NEW u \in Urls,
             \/ \E skips \in {CheckSkips(u, sheet[u]), DiffSkips(u, sheet[u])} : Scan(u, skips)
             \/ ListChanges(u) \/ RowIsEdited(u)
      PROVE UNCHANGED <<live, backup, marking, marked>>
  BY <1>8 DEF Scan, ListChanges, RowIsEdited, registry
<1>9. ASSUME UNCHANGED vars \/ CrawlSteps \/ NextDay PROVE UNCHANGED <<live, backup, marking, marked>>
  BY <1>9, CrawlFrame DEF vars, registry, NextDay
<1> QED
  BY <1>2, <1>3, <1>4, <1>5, <1>6, <1>7, <1>8, <1>9, Cases

----------------------------------------------------------------------------
(* The invariant.                                                          *)

\* The cap: every page is taken after a look at the count of the day.
LEMMA QuotaPreserved == IInv /\ [Next]_vars => QuotaInv'
<1> SUFFICES ASSUME IInv, [Next]_vars PROVE QuotaInv'
  OBVIOUS
<1> USE DEF IInv, QuotaInv
<1>1. Fetched \in Nat /\ Cap \in Nat /\ crawl \in Crawls /\ day \in Nat
  BY SiteCrawlAssumption DEF Fetched, CrawlOK, WorldOK
<1>2. UNCHANGED <<quota, day>> => Fetched' = Fetched
  BY DEF Fetched
<1>3. ASSUME UNCHANGED <<quota, day>>, crawl' = crawl PROVE QuotaInv'
  BY <1>2, <1>3
<1>4. ASSUME UNCHANGED <<quota, day>>, crawl'.at \notin {"list", "challenged"} PROVE QuotaInv'
  BY <1>2, <1>4
<1>5. ASSUME UNCHANGED <<quota, day>>, Fetched <= Cap PROVE QuotaInv'
  BY <1>2, <1>5
<1>6. Remaining => Fetched + 1 <= Cap
  BY <1>1 DEF Remaining
<1>7. ASSUME quota' = Recorded, day' = day
      PROVE  quota' \in [day : Nat, fetched : Nat] /\ quota'.day = day'
             /\ quota'.fetched = Fetched + 1 /\ Fetched' = Fetched + 1
  BY <1>1, <1>7 DEF Recorded, Fetched
<1>8. CASE CrawlSteps
  <2>1. day' = day
    BY <1>8, CrawlFrame DEF world
  <2>2. CASE FromCache
    BY <1>1, <1>4, <2>1, <2>2 DEF FromCache, Goes, Crawls
  <2>3. ASSUME NEW out \in BOOLEAN, Probe(out) PROVE QuotaInv'
    BY <1>1, <1>4, <2>1, <2>3 DEF Probe, Goes, Crawls, NoCrawl
  <2>4. ASSUME NEW challenge \in Challenges, LoadPage(challenge) PROVE QuotaInv'
    <3>1. CASE Remaining
      BY <1>1, <1>5, <1>6, <2>1, <2>4, <3>1 DEF LoadPage, Goes
    <3>2. CASE ~Remaining
      BY <1>1, <1>4, <2>1, <2>4, <3>2 DEF LoadPage, Goes, NoCrawl, Crawls
    <3> QED
      BY <3>1, <3>2
  <2>5. ASSUME NEW challenge \in Challenges, TurnInPlace(challenge) PROVE QuotaInv'
    BY <1>1, <1>6, <1>7, <2>1, <2>5 DEF TurnInPlace, MayTurn, Take
  <2>6. ASSUME NEW challenge \in Challenges, TurnToUrl(challenge) PROVE QuotaInv'
    BY <1>1, <1>5, <1>6, <2>1, <2>6 DEF TurnToUrl, MayTurn, Goes
  <2>7. ASSUME NEW passed \in BOOLEAN, Challenged(passed) PROVE QuotaInv'
    BY <1>5, <2>1, <2>7 DEF Challenged, Goes
  <2>8. CASE Collect
    <3>1. crawl'.at \in {"turn", "save"} /\ quota' = Recorded
      BY <1>1, <2>8 DEF Collect, Take, Crawls
    <3>2. Fetched <= Cap
      BY <2>8 DEF Collect
    <3> QED
      BY <1>1, <1>7, <2>1, <3>1, <3>2
  <2>9. CASE Stop \/ Capped
    BY <1>1, <1>4, <2>1, <2>9 DEF Stop, Capped, Goes, Crawls, NoCrawl
  <2>10. ASSUME NEW empty \in BOOLEAN, Save(empty) PROVE QuotaInv'
    BY <1>1, <1>4, <2>1, <2>10 DEF Save, Crawls
  <2>11. CASE Return
    BY <1>4, <2>1, <2>11 DEF Return, Goes, NoCrawl
  <2> QED
    BY <1>8, <2>2, <2>3, <2>4, <2>5, <2>6, <2>7, <2>8, <2>9, <2>10, <2>11 DEF CrawlSteps
<1>9. CASE NextDay
  BY <1>1, <1>9 DEF NextDay, Fetched
<1>10. ASSUME NEW u \in Urls,
              NEW skips \in {CheckSkips(u, sheet[u]), DiffSkips(u, sheet[u])}, Scan(u, skips)
       PROVE QuotaInv'
  BY <1>4, <1>10, ScanBegins DEF world
<1>11. ASSUME NEW u \in Urls, MarkLoads(u) PROVE QuotaInv'
  BY <1>4, <1>11 DEF MarkLoads, NoCrawl, world
<1>12. ASSUME NEW u \in Urls,
              \/ MarkCopies(u) \/ MarkReplaces(u) \/ MarkDies(u) \/ CopyIsCut(u)
              \/ ListChanges(u) \/ RowIsEdited(u)
       PROVE QuotaInv'
  BY <1>3, <1>12 DEF MarkCopies, MarkReplaces, MarkDies, CopyIsCut, ListChanges, RowIsEdited,
                     world
<1>13. CASE UNCHANGED vars \/ LiveIsDamaged
  BY <1>3, <1>13 DEF vars, LiveIsDamaged, world
<1> QED
  BY <1>8, <1>9, <1>10, <1>11, <1>12, <1>13, Cases

\* The texts: a crawl that was let past the first page had it in the tab.
LEMMA TextsPreserved == IInv /\ [Next]_vars => TextsInv'
<1> SUFFICES ASSUME IInv, [Next]_vars PROVE TextsInv'
  OBVIOUS
<1> USE DEF IInv, TextsInv
<1>1. crawl \in Crawls /\ crawl.texts \in Seq(Nat)
  BY DEF CrawlOK, Crawls
<1>2. ASSUME crawl'.at \notin {"list", "turn", "save", "ok"}, crawl'.texts \in {<<>>, crawl.texts}
      PROVE TextsInv'
  BY <1>2
<1>3. ASSUME NEW x \in Nat
      PROVE  /\ Append(crawl.texts, x) # <<>>
             /\ Head(Append(crawl.texts, x)) = IF crawl.texts = <<>> THEN x
                                              ELSE Head(crawl.texts)
  <2>1. /\ Append(crawl.texts, x) \in Seq(Nat) /\ Append(crawl.texts, x) # <<>>
        /\ \A i \in 1..Len(crawl.texts) : Append(crawl.texts, x)[i] = crawl.texts[i]
        /\ Append(crawl.texts, x)[Len(crawl.texts) + 1] = x
    BY <1>1, AppendProperties
  <2>2. Head(Append(crawl.texts, x)) = Append(crawl.texts, x)[1]
    BY <2>1
  <2>3. CASE crawl.texts = <<>>
    <3>1. Len(crawl.texts) + 1 = 1
      BY <2>3
    <3> QED
      BY <2>1, <2>2, <2>3, <3>1
  <2>4. CASE crawl.texts # <<>>
    <3>1. 1 \in 1..Len(crawl.texts) /\ Head(crawl.texts) = crawl.texts[1]
      BY <1>1, <2>4
    <3> QED
      BY <2>1, <2>2, <2>4, <3>1
  <2> QED
    BY <2>3, <2>4
<1>4. ASSUME NEW next \in {"list", "turn"}, NEW shown \in Nat, Take(next, shown),
             crawl.texts = <<>> => shown = 1
      PROVE TextsInv'
  BY <1>1, <1>3, <1>4 DEF Take, Crawls
<1>5. CASE CrawlSteps
  <2>1. CASE FromCache
    BY <1>1, <2>1 DEF FromCache, Goes, Crawls
  <2>2. ASSUME NEW out \in BOOLEAN, Probe(out) PROVE TextsInv'
    BY <1>1, <1>2, <2>2 DEF Probe, Goes, Crawls, NoCrawl
  <2>3. ASSUME NEW challenge \in Challenges, LoadPage(challenge) PROVE TextsInv'
    BY <1>1, <1>2, <2>3 DEF LoadPage, AfterLoad, Goes, Crawls, NoCrawl
  <2>4. ASSUME NEW challenge \in Challenges, TurnInPlace(challenge) PROVE TextsInv'
    <3>1. (IF challenge = "none" THEN crawl.tab + 1 ELSE Wall) \in Nat
      BY <1>1 DEF Crawls, Wall
    <3> QED
      BY <1>4, <2>4, <3>1 DEF TurnInPlace, MayTurn
  <2>5. ASSUME NEW challenge \in Challenges, TurnToUrl(challenge) PROVE TextsInv'
    BY <1>1, <2>5 DEF TurnToUrl, MayTurn, Goes, Crawls
  <2>6. ASSUME NEW passed \in BOOLEAN, Challenged(passed) PROVE TextsInv'
    BY <1>1, <1>2, <2>6 DEF Challenged, Goes, Crawls, NoCrawl
  <2>7. CASE Collect
    BY <1>1, <1>4, <2>7 DEF Collect, Crawls
  <2>8. CASE Stop
    BY <1>1, <2>8 DEF Stop, Goes, Crawls
  <2>9. CASE Capped
    BY <1>1, <1>2, <2>9 DEF Capped, Goes, Crawls, NoCrawl
  <2>10. ASSUME NEW empty \in BOOLEAN, Save(empty) PROVE TextsInv'
    BY <1>1, <2>10 DEF Save, Crawls
  <2>11. CASE Return
    BY <1>2, <2>11 DEF Return, Goes, NoCrawl
  <2> QED
    BY <1>5, <2>1, <2>2, <2>3, <2>4, <2>5, <2>6, <2>7, <2>8, <2>9, <2>10, <2>11
       DEF CrawlSteps
<1>6. ASSUME NEW u \in Urls,
             NEW skips \in {CheckSkips(u, sheet[u]), DiffSkips(u, sheet[u])}, Scan(u, skips)
      PROVE TextsInv'
  BY <1>2, <1>6, ScanBegins
<1>10. ASSUME NEW u \in Urls, MarkLoads(u) PROVE TextsInv'
  BY <1>2, <1>10 DEF MarkLoads, NoCrawl
<1>7. ASSUME NEW u \in Urls,
             \/ MarkCopies(u) \/ MarkReplaces(u) \/ MarkDies(u) \/ CopyIsCut(u)
             \/ ListChanges(u) \/ RowIsEdited(u)
      PROVE UNCHANGED crawl
  BY <1>7 DEF MarkCopies, MarkReplaces, MarkDies, CopyIsCut, ListChanges, RowIsEdited
<1>8. ASSUME UNCHANGED vars \/ LiveIsDamaged \/ NextDay PROVE UNCHANGED crawl
  BY <1>8 DEF vars, LiveIsDamaged, NextDay
<1>9. CASE UNCHANGED crawl
  BY <1>9
<1> QED
  BY <1>5, <1>6, <1>7, <1>8, <1>9, <1>10, Cases

\* The content: what a row is due is what the list showed, and a crawl that read
\* the site read no less.
LEMMA ContentPreserved == IInv /\ [Next]_vars => ContentInv'
<1> SUFFICES ASSUME IInv, [Next]_vars PROVE ContentInv'
  OBVIOUS
<1> USE DEF IInv, ContentInv
<1>1. crawl \in Crawls /\ (crawl.at \notin {"idle", "failed"} => crawl.url \in Urls)
  BY DEF CrawlOK
<1>2. sheet \in [Urls -> Nat] /\ version \in [Urls -> Nat] /\ due \in [Urls -> Nat]
  BY DEF WorldOK
<1>3. ASSUME UNCHANGED world, crawl'.at \in {"idle", "failed"} PROVE ContentInv'
  BY <1>3 DEF world
<1>4. ASSUME UNCHANGED world,
             crawl'.url = crawl.url /\ crawl'.want = crawl.want
               /\ crawl'.cached = crawl.cached /\ crawl'.hash = crawl.hash,
             crawl.at \in {"list", "challenged", "turn", "save"}
      PROVE ContentInv'
  BY <1>4 DEF world, UpToDate
<1>5. CASE CrawlSteps
  <2>1. UNCHANGED world
    BY <1>5, CrawlFrame
  <2>2. CASE FromCache
    BY <1>1, <2>1, <2>2 DEF FromCache, Goes, Crawls, world
  <2>3. ASSUME NEW out \in BOOLEAN, Probe(out) PROVE ContentInv'
    <3>1. CASE out
      BY <1>3, <1>1, <2>1, <2>3, <3>1 DEF Probe, Goes, Crawls, NoCrawl
    <3>2. CASE ~out
      BY <1>1, <2>1, <2>3, <3>2 DEF Probe, Goes, Crawls, world
    <3> QED
      BY <3>1, <3>2
  <2>4. ASSUME NEW challenge \in Challenges, LoadPage(challenge) PROVE ContentInv'
    <3>1. crawl.at = "load" /\ crawl.url \in Urls
      BY <1>1, <2>4 DEF LoadPage
    <3>2. version[crawl.url] # 0 /\ UpToDate(crawl.url, crawl.want, version[crawl.url])
      BY <1>2, <3>1 DEF UpToDate
    <3>3. \/ crawl'.at = "failed"
          \/ crawl'.url = crawl.url /\ crawl'.want = crawl.want
               /\ crawl'.hash = version[crawl.url]
      BY <1>1, <2>4 DEF LoadPage, Goes, NoCrawl, Crawls
    <3> QED
      BY <1>3, <2>1, <3>1, <3>2, <3>3 DEF UpToDate, world
  <2>5. ASSUME NEW challenge \in Challenges, TurnInPlace(challenge) PROVE ContentInv'
    BY <1>1, <1>4, <2>1, <2>5 DEF TurnInPlace, MayTurn, Take, Crawls
  <2>6. ASSUME NEW challenge \in Challenges, TurnToUrl(challenge) PROVE ContentInv'
    BY <1>1, <1>4, <2>1, <2>6 DEF TurnToUrl, MayTurn, Goes, Crawls
  <2>7. ASSUME NEW passed \in BOOLEAN, Challenged(passed) PROVE ContentInv'
    <3>1. \/ crawl'.at = "failed"
          \/ crawl'.url = crawl.url /\ crawl'.want = crawl.want
               /\ crawl'.cached = crawl.cached /\ crawl'.hash = crawl.hash
      BY <1>1, <2>7 DEF Challenged, Goes, NoCrawl, Crawls
    <3> QED
      BY <1>3, <1>4, <2>1, <2>7, <3>1 DEF Challenged
  <2>8. CASE Collect
    BY <1>1, <1>4, <2>1, <2>8 DEF Collect, Take, Crawls
  <2>9. CASE Stop
    BY <1>1, <1>4, <2>1, <2>9 DEF Stop, Goes, Crawls
  <2>10. CASE Capped
    BY <1>1, <1>3, <2>1, <2>10 DEF Capped, Goes, NoCrawl, Crawls
  <2>11. ASSUME NEW empty \in BOOLEAN, Save(empty) PROVE ContentInv'
    BY <1>1, <1>4, <2>1, <2>11 DEF Save, Crawls
  <2>12. CASE Return
    BY <1>3, <2>1, <2>12 DEF Return, Goes, NoCrawl
  <2> QED
    BY <1>5, <2>2, <2>3, <2>4, <2>5, <2>6, <2>7, <2>8, <2>9, <2>10, <2>11, <2>12
       DEF CrawlSteps
<1>6. ASSUME NEW u \in Urls,
             NEW skips \in {CheckSkips(u, sheet[u]), DiffSkips(u, sheet[u])}, Scan(u, skips)
      PROVE ContentInv'
  <2>1. UNCHANGED world /\ crawl'.at \in {"skipped", "start"}
        /\ crawl'.url = u /\ crawl'.want = sheet[u]
    BY <1>6, ScanBegins
  <2> QED
    BY <1>2, <2>1 DEF world
<1>7. ASSUME NEW u \in Urls, MarkLoads(u) PROVE ContentInv'
  BY <1>3, <1>7 DEF MarkLoads, NoCrawl
<1>8. ASSUME NEW u \in Urls, ListChanges(u) PROVE ContentInv'
  BY <1>1, <1>2, <1>8 DEF ListChanges, UpToDate
<1>9. ASSUME NEW u \in Urls, RowIsEdited(u) PROVE ContentInv'
  BY <1>1, <1>2, <1>9 DEF RowIsEdited, UpToDate, Crawls
<1>10. ASSUME NEW u \in Urls, MarkCopies(u) \/ MarkReplaces(u) \/ MarkDies(u) \/ CopyIsCut(u)
       PROVE UNCHANGED <<world, crawl>>
  BY <1>10 DEF MarkCopies, MarkReplaces, MarkDies, CopyIsCut
<1>11. ASSUME UNCHANGED vars \/ LiveIsDamaged PROVE UNCHANGED <<world, crawl>>
  BY <1>11 DEF vars, LiveIsDamaged, world
<1>12. CASE UNCHANGED <<world, crawl>>
  BY <1>12 DEF world, UpToDate
<1>13. CASE NextDay
  BY <1>13 DEF NextDay, UpToDate
<1> QED
  BY <1>5, <1>6, <1>7, <1>8, <1>9, <1>10, <1>11, <1>12, <1>13, Cases

\* The marks: what was up to date when it was read stays so, or its row was edited.
LEMMA StaysUpToDate ==
  ASSUME IInv, [Next]_vars, NEW u \in Urls, NEW t \in Nat, NEW h \in Nat
  PROVE  /\ t <= sheet[u] => t <= sheet'[u]
         /\ UpToDate(u, t, h) => t < sheet'[u] \/ h >= due'[u]
<1>1. sheet \in [Urls -> Nat] /\ due \in [Urls -> Nat]
  BY DEF IInv, WorldOK
<1>2. \/ sheet'[u] = sheet[u] /\ due'[u] = due[u]
      \/ sheet'[u] = sheet[u] + 1
  <2>1. ASSUME NEW v \in Urls, RowIsEdited(v)
        PROVE  \/ sheet'[u] = sheet[u] /\ due'[u] = due[u]
               \/ sheet'[u] = sheet[u] + 1
    BY <1>1, <2>1 DEF RowIsEdited
  <2>2. ASSUME NEW v \in Urls,
               \/ \E skips \in {CheckSkips(v, sheet[v]), DiffSkips(v, sheet[v])} : Scan(v, skips)
               \/ MarkLoads(v) \/ MarkCopies(v) \/ MarkReplaces(v) \/ MarkDies(v)
               \/ CopyIsCut(v) \/ ListChanges(v)
        PROVE  UNCHANGED <<sheet, due>>
    BY <2>2 DEF Scan, MarkLoads, MarkCopies, MarkReplaces, MarkDies, CopyIsCut, ListChanges,
                world
  <2>3. ASSUME UNCHANGED vars \/ CrawlSteps \/ LiveIsDamaged \/ NextDay
        PROVE  UNCHANGED <<sheet, due>>
    BY <2>3, CrawlFrame DEF vars, world, LiveIsDamaged, NextDay
  <2> QED
    BY <2>1, <2>2, <2>3, Cases
<1> QED
  BY <1>1, <1>2 DEF UpToDate

\* Every mark records content that was up to date, whatever happens after it was read.
LEMMA MarksPreserved == IInv /\ [Next]_vars => MarksInv'
<1> SUFFICES ASSUME IInv, [Next]_vars PROVE MarksInv'
  OBVIOUS
<1> DEFINE SafeThen(m) ==
      /\ m.entry.url \in Urls
      /\ m.entry.time <= sheet'[m.entry.url]
      /\ m.cached \/ m.entry.time < sheet'[m.entry.url]
           \/ m.entry.hash >= due'[m.entry.url]
<1>1. \A m : m.entry \in Entries /\ MarkIsSafe(m) => SafeThen(m)
  <2> SUFFICES ASSUME NEW m, m.entry \in Entries, MarkIsSafe(m) PROVE SafeThen(m)
    OBVIOUS
  <2>1. m.entry.url \in Urls /\ m.entry.time \in Nat /\ m.entry.hash \in Nat
    BY DEF MarkIsSafe, Entries
  <2> QED
    BY <2>1, StaysUpToDate DEF MarkIsSafe
<1>2. \A m : SafeThen(m) =>
        /\ m.entry.time <= sheet'[m.entry.url]
        /\ m.cached \/ (m.entry.time <= sheet'[m.entry.url]
             /\ (m.entry.time < sheet'[m.entry.url] \/ m.entry.hash >= due'[m.entry.url]))
  OBVIOUS
<1>3. /\ live \in Files /\ backup \in Files /\ marking \in [Urls -> Marks]
      /\ \A m \in marked : m.entry \in Entries /\ MarkIsSafe(m)
      /\ \A u \in Urls : marking[u].entry \in Entries
      /\ \A u \in Urls : marking[u].at # "idle" => MarkIsSafe(marking[u])
  BY DEF IInv, RegistryOK, MarksInv, Marks
<1> DEFINE FromThen(entries) ==
      \A i \in DOMAIN entries : \E m \in marked' : m.entry = entries[i]
<1>4. ASSUME marked \subseteq marked', NEW s, FromMarks(s) PROVE FromThen(s)
  BY <1>4 DEF FromMarks
<1>5. FromMarks(live.entries) /\ FromMarks(backup.entries)
      /\ \A u \in Urls : FromMarks(marking[u].found)
  BY DEF IInv, MarksInv
<1>6. ASSUME \A m \in marked' : SafeThen(m),
             \A u \in Urls : marking'[u].at # "idle" => SafeThen(marking'[u]),
             FromThen(live'.entries), FromThen(backup'.entries),
             \A u \in Urls : FromThen(marking'[u].found)
      PROVE MarksInv'
  BY <1>6, <1>2 DEF MarksInv, MarkIsSafe, UpToDate, FromMarks
<1>7. FromThen(<<>>)
  OBVIOUS
<1> HIDE DEF SafeThen, FromThen
<1>8. ASSUME NEW u \in Urls, MarkLoads(u) PROVE MarksInv'
  <2> DEFINE new == [at |-> "loaded", found |-> State, cached |-> crawl.cached,
                     entry |-> [url |-> u, hash |-> crawl.hash, time |-> crawl.want,
                                stamp |-> begun + 1]]
  <2>1. marked' = marked /\ live' = live /\ backup' = backup
        /\ marking' = [marking EXCEPT ![u] = new]
    BY <1>8 DEF MarkLoads
  <2>2. new.entry \in Entries
    BY DEF IInv, Entries, Links, CrawlOK, Crawls, WorldOK
  <2>3. crawl.at = "ok" /\ crawl.url = u
    BY <1>8 DEF MarkLoads
  <2>4. MarkIsSafe(new)
    BY <2>3 DEF IInv, ContentInv, MarkIsSafe
  <2>5. FromMarks(new.found)
    BY <1>5 DEF State
  <2> HIDE DEF new
  <2>6. SafeThen(new) /\ FromThen(new.found)
    BY <1>1, <1>4, <2>1, <2>2, <2>4, <2>5
  <2> QED
    BY <1>1, <1>3, <1>4, <1>5, <1>6, <2>1, <2>6
<1>9. ASSUME NEW u \in Urls, MarkReplaces(u) PROVE MarksInv'
  <2> DEFINE e == marking[u].entry
             new == [entry |-> e, cached |-> marking[u].cached]
             entries == Marked(marking[u].found, e)
  <2>1. /\ marked' = marked \cup {new} /\ live' = Readable(entries) /\ backup' = backup
        /\ marking' = [marking EXCEPT ![u] = NotMarking]
    BY <1>9 DEF MarkReplaces
  <2>2. SafeThen(new)
    <3>1. MarkIsSafe(marking[u])
      BY <1>3, <1>9 DEF MarkReplaces
    <3>2. MarkIsSafe(new) /\ new.entry \in Entries
      BY <1>3, <3>1 DEF MarkIsSafe
    <3> QED
      BY <1>1, <3>2
  <2>3. FromThen(entries)
    <3>1. marking[u].found \in Seq(Entries) /\ e \in Entries
      BY <1>3 DEF Marks
    <3>2. \A i \in DOMAIN entries :
            entries[i] = e \/ \E j \in DOMAIN marking[u].found : entries[i] = marking[u].found[j]
      BY <3>1, MarkedOK
    <3>3. new.entry = e /\ new \in marked'
      BY <2>1
    <3>4. FromThen(marking[u].found)
      BY <1>4, <1>5, <2>1
    <3> HIDE DEF e, new, entries
    <3> QED
      BY <3>2, <3>3, <3>4 DEF FromThen
  <2> HIDE DEF e, new, entries
  <2>4. FromThen(live'.entries)
    BY <2>1, <2>3 DEF Readable
  <2>5. FromThen(NotMarking.found) /\ NotMarking.at = "idle"
    BY <1>7 DEF NotMarking
  <2>6. \A m \in marked' : SafeThen(m)
    BY <1>1, <1>3, <2>1, <2>2
  <2> QED
    BY <1>1, <1>3, <1>4, <1>5, <1>6, <2>1, <2>4, <2>5, <2>6
<1>10. ASSUME NEW u \in Urls, MarkCopies(u) PROVE MarksInv'
  <2>1. /\ marked' = marked /\ live' = live /\ backup' \in {live, backup}
        /\ marking' = [marking EXCEPT ![u].at = "copied"]
        /\ marking[u].at = "loaded"
    BY <1>10 DEF MarkCopies, Backup
  <2>2. \A v \in Urls : /\ marking'[v].found = marking[v].found
                        /\ marking'[v].entry = marking[v].entry
                        /\ marking'[v].cached = marking[v].cached
                        /\ marking'[v].at # "idle" => marking[v].at # "idle"
    BY <1>3, <2>1 DEF Marks
  <2>3. \A v \in Urls : marking'[v].at # "idle" => SafeThen(marking'[v])
    <3>1. \A v \in Urls : marking[v].at # "idle" => SafeThen(marking[v])
      BY <1>1, <1>3
    <3> QED
      BY <2>2, <3>1 DEF SafeThen
  <2> QED
    BY <1>1, <1>3, <1>4, <1>5, <1>6, <2>1, <2>2, <2>3
<1>11. ASSUME NEW u \in Urls, MarkDies(u) \/ CopyIsCut(u) PROVE MarksInv'
  <2>1. /\ marked' = marked /\ live' = live /\ backup' \in {Unreadable, backup}
        /\ marking' = [marking EXCEPT ![u] = NotMarking]
    BY <1>11 DEF MarkDies, CopyIsCut
  <2>2. FromThen(NotMarking.found) /\ NotMarking.at = "idle" /\ FromThen(Unreadable.entries)
    BY <1>7 DEF NotMarking, Unreadable
  <2> QED
    BY <1>1, <1>3, <1>4, <1>5, <1>6, <2>1, <2>2
<1>12. CASE LiveIsDamaged
  <2>1. marked' = marked /\ live' = Unreadable /\ backup' = backup /\ marking' = marking
    BY <1>12 DEF LiveIsDamaged
  <2>2. FromThen(Unreadable.entries)
    BY <1>7 DEF Unreadable
  <2> QED
    BY <1>1, <1>3, <1>4, <1>5, <1>6, <2>1, <2>2
<1>13. CASE UNCHANGED registry
  <2>1. marked' = marked /\ live' = live /\ backup' = backup /\ marking' = marking
    BY <1>13 DEF registry
  <2> QED
    BY <1>1, <1>3, <1>4, <1>5, <1>6, <2>1
<1>14. ASSUME NEW u \in Urls,
              \/ \E skips \in {CheckSkips(u, sheet[u]), DiffSkips(u, sheet[u])} : Scan(u, skips)
              \/ ListChanges(u) \/ RowIsEdited(u)
       PROVE  UNCHANGED registry
  BY <1>14 DEF Scan, ListChanges, RowIsEdited
<1>15. ASSUME UNCHANGED vars \/ CrawlSteps \/ NextDay PROVE UNCHANGED registry
  BY <1>15, CrawlFrame DEF vars, registry, NextDay
<1> QED
  BY <1>8, <1>9, <1>10, <1>11, <1>12, <1>13, <1>14, <1>15, Cases

\* An answer of "skip" rests on a mark that has returned, at the time of the row.
LEMMA SkipIsRecorded ==
  ASSUME IInv, NEW u \in Urls, CheckSkips(u, sheet[u]) \/ DiffSkips(u, sheet[u])
  PROVE  \E m \in marked : m.entry.url = u /\ m.entry.time = sheet[u]
<1>1. State \in Seq(Entries) /\ FromMarks(State)
  BY DEF IInv, RegistryOK, MarksInv, State, Files
<1>2. Of(u) \in SUBSET Nat
  BY <1>1 DEF Of
<1>3. \E i \in Of(u) : State[i].time = sheet[u]
  BY <1>2, MinIsOne DEF CheckSkips, DiffSkips
<1> QED
  BY <1>1, <1>3 DEF Of, FromMarks

\* Only the scan of a row skips it.
LEMMA CrawlsDoNotSkip == CrawlSteps /\ CrawlOK => crawl'.at # "skipped"
<1> SUFFICES ASSUME CrawlSteps, crawl \in Crawls PROVE crawl'.at # "skipped"
  BY DEF CrawlOK
<1>1. ASSUME NEW challenge \in Challenges, LoadPage(challenge) PROVE crawl'.at # "skipped"
  BY <1>1 DEF LoadPage, AfterLoad, Goes, NoCrawl, Crawls
<1>2. ASSUME NEW challenge \in Challenges, TurnInPlace(challenge) PROVE crawl'.at # "skipped"
  BY <1>2 DEF TurnInPlace, Take, Crawls
<1>3. ASSUME NEW challenge \in Challenges, TurnToUrl(challenge) PROVE crawl'.at # "skipped"
  BY <1>3 DEF TurnToUrl, Goes, NoCrawl, Crawls
<1>4. ASSUME NEW passed \in BOOLEAN, Challenged(passed) PROVE crawl'.at # "skipped"
  BY <1>4 DEF Challenged, Goes, NoCrawl, Crawls
<1>5. ASSUME NEW out \in BOOLEAN, Probe(out) PROVE crawl'.at # "skipped"
  BY <1>5 DEF Probe, Goes, NoCrawl, Crawls
<1>6. ASSUME NEW empty \in BOOLEAN, Save(empty) PROVE crawl'.at # "skipped"
  BY <1>6 DEF Save, Crawls
<1>7. ASSUME FromCache PROVE crawl'.at # "skipped"
  BY <1>7 DEF FromCache, Goes, Crawls
<1>8. ASSUME Collect PROVE crawl'.at # "skipped"
  BY <1>8 DEF Collect, Take, Crawls
<1>9. ASSUME Stop \/ Capped PROVE crawl'.at # "skipped"
  BY <1>9 DEF Stop, Capped, Goes, NoCrawl, Crawls
<1>10. ASSUME Return PROVE crawl'.at # "skipped"
  BY <1>10 DEF Return, Goes, NoCrawl
<1> QED
  BY <1>1, <1>2, <1>3, <1>4, <1>5, <1>6, <1>7, <1>8, <1>9, <1>10 DEF CrawlSteps

\* What a mark recorded stays on record.
LEMMA MarkedGrows == [Next]_vars => marked \subseteq marked'
<1> SUFFICES ASSUME [Next]_vars PROVE marked \subseteq marked'
  OBVIOUS
<1>1. ASSUME NEW u \in Urls, MarkReplaces(u) PROVE marked \subseteq marked'
  BY <1>1 DEF MarkReplaces
<1>2. ASSUME NEW u \in Urls,
             \/ \E skips \in {CheckSkips(u, sheet[u]), DiffSkips(u, sheet[u])} : Scan(u, skips)
             \/ MarkLoads(u) \/ MarkCopies(u) \/ MarkDies(u) \/ CopyIsCut(u)
             \/ ListChanges(u) \/ RowIsEdited(u)
      PROVE  UNCHANGED marked
  BY <1>2 DEF Scan, MarkLoads, MarkCopies, MarkDies, CopyIsCut, ListChanges, RowIsEdited,
              registry
<1>3. ASSUME UNCHANGED vars \/ CrawlSteps \/ LiveIsDamaged \/ NextDay PROVE UNCHANGED marked
  BY <1>3, CrawlFrame DEF vars, registry, LiveIsDamaged, NextDay
<1>4. CASE UNCHANGED marked
  BY <1>4
<1> QED
  BY <1>1, <1>2, <1>3, <1>4, Cases

\* A skip stays safe while marks, edits and contents go on beside it.
LEMMA SkipPreserved == IInv /\ [Next]_vars => SkipIsSafe'
<1> SUFFICES ASSUME IInv, [Next]_vars, crawl'.at = "skipped" PROVE SkipIsSafe'
  BY DEF SkipIsSafe
<1>1. \E m \in marked : m.entry.url = crawl'.url /\ m.entry.time = crawl'.want
  <2>1. ASSUME NEW u \in Urls,
               NEW skips \in {CheckSkips(u, sheet[u]), DiffSkips(u, sheet[u])}, Scan(u, skips)
        PROVE  \E m \in marked : m.entry.url = crawl'.url /\ m.entry.time = crawl'.want
    BY <2>1, ScanBegins, SkipIsRecorded
  <2>2. CASE UNCHANGED crawl
    BY <2>2 DEF IInv, SkipIsSafe
  <2>3. ASSUME NEW u \in Urls, MarkLoads(u) PROVE FALSE
    BY <2>3 DEF MarkLoads, NoCrawl
  <2>4. ASSUME CrawlSteps PROVE FALSE
    BY <2>4, CrawlsDoNotSkip DEF IInv
  <2>5. ASSUME NEW u \in Urls,
               \/ MarkCopies(u) \/ MarkReplaces(u) \/ MarkDies(u) \/ CopyIsCut(u)
               \/ ListChanges(u) \/ RowIsEdited(u)
        PROVE  UNCHANGED crawl
    BY <2>5 DEF MarkCopies, MarkReplaces, MarkDies, CopyIsCut, ListChanges, RowIsEdited
  <2>6. ASSUME UNCHANGED vars \/ LiveIsDamaged \/ NextDay PROVE UNCHANGED crawl
    BY <2>6 DEF vars, LiveIsDamaged, NextDay
  <2> QED
    BY <2>1, <2>2, <2>3, <2>4, <2>5, <2>6, Cases
<1>2. PICK m \in marked : m.entry.url = crawl'.url /\ m.entry.time = crawl'.want
  BY <1>1
<1>3. m \in marked' /\ MarkIsSafe(m)'
  BY <1>2, MarkedGrows, MarksPreserved DEF MarksInv
<1> QED
  BY <1>2, <1>3 DEF SkipIsSafe, MarkIsSafe, UpToDate

\* The invariant holds at first ...
LEMMA InitIInv == Init => IInv
<1> SUFFICES ASSUME Init PROVE IInv
  OBVIOUS
<1>1. WorldOK /\ CrawlOK /\ RegistryOK
  BY EmptyOK DEF Init, WorldOK, CrawlOK, RegistryOK, NoCrawl
<1>2. QuotaInv /\ TextsInv /\ SkipIsSafe
  BY SiteCrawlAssumption DEF Init, QuotaInv, TextsInv, SkipIsSafe, Fetched, NoCrawl
<1>3. ContentInv
  BY DEF Init, ContentInv, NoCrawl
<1>4. MarksInv
  BY DEF Init, MarksInv, FromMarks, NotMarking, Readable, Unreadable
<1> QED
  BY <1>1, <1>2, <1>3, <1>4 DEF IInv

\* ... and after every step.
LEMMA Inductive == IInv /\ [Next]_vars => IInv'
BY WorldPreserved, CrawlPreserved, RegistryPreserved, QuotaPreserved, TextsPreserved,
   ContentPreserved, MarksPreserved, SkipPreserved DEF IInv

\* So it holds always.
LEMMA AlwaysIInv == Spec => []IInv
BY InitIInv, Inductive, PTL DEF Spec

----------------------------------------------------------------------------
(* The theorems.                                                           *)

(***************************************************************************)
(* However many crawls, kills and days, the pages counted on a day exceed  *)
(* the cap by one at most (pacing.py, crawl.py).                           *)
(***************************************************************************)
THEOREM CapIsHeld == Spec => []CapHolds
<1>1. IInv => CapHolds
  BY DEF IInv, QuotaInv, CapHolds
<1> QED
  BY <1>1, AlwaysIInv, PTL

(***************************************************************************)
(* Whatever challenges come and on whatever page, a crawl that reports     *)
(* "ok" from the site has the first page as its first text (crawl.py).     *)
(***************************************************************************)
THEOREM BeginsOnFirstPage == Spec => []FirstPageIsClear
<1>1. IInv => FirstPageIsClear
  BY DEF IInv, TextsInv, ContentInv, FirstPageIsClear
<1> QED
  BY <1>1, AlwaysIInv, PTL

(***************************************************************************)
(* Whatever marks overlap, die or are undone by a return to the backup, a  *)
(* list is skipped only if a mark recorded it, at the time of its row,     *)
(* with content no older than the row or with that of the cache            *)
(* (state.py).                                                             *)
(***************************************************************************)
THEOREM SkipsAreSafe == Spec => []SkipIsSafe
<1>1. IInv => SkipIsSafe
  BY DEF IInv
<1> QED
  BY <1>1, AlwaysIInv, PTL

\* While nothing was damaged the live file is whole, and with it the backup.
RegistryInv ==
  /\ faults \in Nat
  /\ live.ok \in BOOLEAN /\ backup.ok \in BOOLEAN /\ kept \in BOOLEAN
  /\ faults = 0 => live.ok /\ (kept => backup.ok)
  /\ StateIsRecoverable

(***************************************************************************)
(* One damaged or half-copied file never loses the registry, for any       *)
(* number of overlapping marks (_save_state of state.py).                  *)
(***************************************************************************)
THEOREM RegistrySurvivesOneFault ==
  ASSUME MaxFaults <= 1 PROVE Spec => []StateIsRecoverable
<1>1. Init => RegistryInv
  <2>1. Init => live.ok = TRUE /\ backup.ok = FALSE /\ kept = FALSE /\ faults = 0
    BY DEF Init, Readable, Unreadable
  <2>2. 0 \in Nat
    OBVIOUS
  <2> QED
    BY <2>1, <2>2, Zenon DEF RegistryInv, StateIsRecoverable
<1>2. RegistryInv /\ [Next]_vars => RegistryInv'
  <2> SUFFICES ASSUME RegistryInv, [Next]_vars PROVE RegistryInv'
    OBVIOUS
  <2> MaxFaults \in Nat
    BY SiteCrawlAssumption
  <2> USE DEF RegistryInv, StateIsRecoverable
  <2>1. ASSUME NEW u \in Urls, MarkCopies(u) PROVE RegistryInv'
    BY <2>1 DEF MarkCopies, Backup
  <2>2. ASSUME NEW u \in Urls, MarkReplaces(u) PROVE RegistryInv'
    BY <2>2 DEF MarkReplaces, Readable
  <2>3. ASSUME NEW u \in Urls, CopyIsCut(u) PROVE RegistryInv'
    <3>1. faults = 0 /\ faults' \in Nat /\ faults' # 0
      BY <2>3 DEF CopyIsCut
    <3>2. backup'.ok = FALSE /\ live' = live /\ kept' = kept
      BY <2>3 DEF CopyIsCut, Unreadable
    <3> QED
      BY <3>1, <3>2, Zenon
  <2>4. CASE LiveIsDamaged
    <3>1. faults = 0 /\ faults' \in Nat /\ faults' # 0
      BY <2>4 DEF LiveIsDamaged
    <3>2. live'.ok = FALSE /\ backup' = backup /\ kept' = kept
      BY <2>4 DEF LiveIsDamaged, Unreadable
    <3> QED
      BY <3>1, <3>2, Zenon
  <2>5. CASE UNCHANGED <<live, backup, kept, faults>>
    BY <2>5
  <2>6. ASSUME NEW u \in Urls,
               \/ \E skips \in {CheckSkips(u, sheet[u]), DiffSkips(u, sheet[u])} : Scan(u, skips)
               \/ MarkLoads(u) \/ MarkDies(u) \/ ListChanges(u) \/ RowIsEdited(u)
        PROVE  UNCHANGED <<live, backup, kept, faults>>
    BY <2>6 DEF Scan, MarkLoads, MarkDies, ListChanges, RowIsEdited, registry
  <2>7. ASSUME UNCHANGED vars \/ CrawlSteps \/ NextDay
        PROVE  UNCHANGED <<live, backup, kept, faults>>
    BY <2>7, CrawlFrame DEF vars, registry, NextDay
  <2> QED
    BY <2>1, <2>2, <2>3, <2>4, <2>5, <2>6, <2>7, Cases
<1>3. RegistryInv => StateIsRecoverable
  BY DEF RegistryInv
<1> QED
  BY <1>1, <1>2, <1>3, PTL DEF Spec

-----------------------------------------------------------------------------
\* A set of numbers has a least one.
LEMMA Least ==
  ASSUME NEW S \in SUBSET Nat, S # {}
  PROVE  \E x \in S : \A y \in S : x <= y
<1>1. PICK x \in S : \A y \in S : ~ (<<y, x>> \in OpToRel(<, Nat))
  BY WFMin, NatLessThanWellFounded
<1>2. \A y \in S : ~ (y < x)
  BY <1>1, Zenon DEF OpToRel
<1>3. \A y \in S : x <= y
  BY <1>2
<1> QED
  BY <1>3

----------------------------------------------------------------------------
(* A capture of a public list: the invariant.                              *)

USE BrowseAssumption DEF BrowseAssumption

\* A tab in which a list of n pages is read.
Tabs(n) ==
  [at : 1..n, filtered : BOOLEAN, texts : Seq(SUBSET (1..n)), seen : SUBSET (1..n),
   opened : SUBSET (1..n), found : Nat, clicked : Nat, tries : Nat, terms : Nat,
   path : Paths \ {"parallel"}]

TabTyped == board \in Boards /\ tab \in Tabs(board.size)

\* The pool works on the pages up to the total, and only in its stage.
PoolOK ==
  /\ total \in 0..PageLimit
  /\ fetched \in [AllPages -> {"none", "queued", "page", "blank", "error", "wall"}]
  /\ worker \in [Workers -> [state : {"off", "starting", "idle", "busy"}, page : {0} \cup AllPages]]
  /\ \A p \in AllPages : fetched[p] # "none" => p <= total
  /\ \A w \in Workers : worker[w].state = "busy" => worker[w].page \in 1..total
  /\ stage # "pool" => \A w \in Workers : worker[w].state = "off"

\* Where the tab is and what its texts show.  A walk shows the pages up to the
\* one it is at, unless it began where a probe left the tab, or it missed that the
\* list was not loaded again.
TabTells ==
  /\ stage \in {"load", "search"} => tab.at = 1 /\ (tab.terms = 0 => ~tab.filtered)
  /\ stage \in {"load", "probe", "record", "first", "cards", "turn", "read"} => ~tab.filtered
  /\ stage = "paging" /\ missed = {} =>
       /\ ~tab.filtered
       /\ tab.at \in Jobs(tab.texts)
       /\ tab.path # "click_fallback_no_detect" => Jobs(tab.texts) = 1..tab.at

BrowseInv ==
  /\ TabTyped /\ PoolOK /\ TabTells
  /\ result # NoResult => stage = "done"
  /\ WallWins /\ CapturedInOrder /\ GateIsSound

----------------------------------------------------------------------------
(* The texts of a capture.                                                 *)

\* A list has a page; one that cannot be turned has no second.
LEMMA BoardOK ==
  ASSUME board \in Boards
  PROVE  /\ board \in BoardType /\ board.size \in Nat \ {0}
         /\ board.pager = "none" => board.size = 1
  BY DEF BoardType

\* The jobs of one text more.
LEMMA JobsGrow ==
  ASSUME NEW S, NEW s \in Seq(S), NEW t \in S
  PROVE  Jobs(Append(s, t)) = Jobs(s) \cup t
<1> DEFINE a == Append(s, t)
<1>1. /\ a \in Seq(S) /\ Len(a) = Len(s) + 1 /\ a[Len(s) + 1] = t
      /\ \A i \in 1..Len(s) : a[i] = s[i]
  BY AppendProperties
<1>2. DOMAIN a = 1..Len(a) /\ DOMAIN s = 1..Len(s) /\ Len(s) \in Nat
  BY <1>1
<1> HIDE DEF a
<1>3. \A i \in 1..Len(a) : i \in 1..Len(s) \/ i = Len(s) + 1
  BY <1>1, <1>2
<1>4. (\A i \in 1..Len(s) : i \in 1..Len(a)) /\ Len(s) + 1 \in 1..Len(a)
  BY <1>1, <1>2
<1>5. {a[i] : i \in 1..Len(a)} = {s[i] : i \in 1..Len(s)} \cup {t}
  BY <1>1, <1>3, <1>4
<1>6. ToSet(a) = ToSet(s) \cup {t}
  <2>1. ToSet(a) = {a[i] : i \in 1..Len(a)} /\ ToSet(s) = {s[i] : i \in 1..Len(s)}
    BY <1>2, Zenon DEF ToSet
  <2> QED
    BY <1>5, <2>1
<1>7. UNION ToSet(a) = (UNION ToSet(s)) \cup t
  BY <1>6, Zenon
<1> QED
  BY <1>7, Zenon DEF Jobs, a

\* The jobs of one text.
LEMMA JobsOfOne ==
  ASSUME NEW t
  PROVE  Jobs(<<t>>) = t
<1>1. ToSet(<<t>>) = {t}
  BY DEF ToSet
<1> QED
  BY <1>1 DEF Jobs

\* The text of the page shown is of the list, and has that page.
LEMMA TextOK ==
  ASSUME board \in Boards, NEW t \in Tabs(board.size)
  PROVE  /\ Text(t) \in SUBSET (1..board.size)
         /\ ~t.filtered => t.at \in Text(t) /\ Text(t) \in {1..t.at, {t.at}}
<1>1. t.at \in 1..board.size /\ board.size \in Nat
  BY BoardOK DEF Tabs
<1> QED
  BY <1>1 DEF Text

\* Another page is shown.
LEMMA ShowOK ==
  ASSUME board \in Boards, NEW t \in Tabs(board.size), NEW p \in 1..board.size
  PROVE  /\ Show(t, p) \in Tabs(board.size) /\ Show(t, p).at = p
         /\ Show(t, p).filtered = t.filtered /\ Show(t, p).texts = t.texts
         /\ Show(t, p).path = t.path /\ Show(t, p).terms = t.terms
<1> DEFINE s == IF board.json THEN t.seen \cup {p} ELSE t.seen
<1>1. s \in SUBSET (1..board.size)
  BY DEF Tabs
<1>2. Show(t, p) = [t EXCEPT !.at = p, !.seen = s]
  BY DEF Show
<1> HIDE DEF s
<1> QED
  BY <1>1, <1>2 DEF Tabs

\* The texts of a tab are set.
LEMMA TextsOK ==
  ASSUME NEW n, NEW t \in Tabs(n), NEW s \in Seq(SUBSET (1..n))
  PROVE  [t EXCEPT !.texts = s] \in Tabs(n)
  BY DEF Tabs

\* The page is turned: its text is added.
LEMMA TurnedOK ==
  ASSUME board \in Boards, NEW t \in Tabs(board.size), Turns(t)
  PROVE  /\ Turned(t) \in Tabs(board.size)
         /\ Turned(t).at = t.at + 1 /\ Turned(t).filtered = t.filtered
         /\ Turned(t).path = t.path
         /\ ~t.filtered => /\ t.at + 1 \in Jobs(Turned(t).texts)
                           /\ Jobs(t.texts) = 1..t.at => Jobs(Turned(t).texts) = 1..t.at + 1
<1>1. board.size \in Nat /\ t.at \in 1..board.size /\ t.texts \in Seq(SUBSET (1..board.size))
  BY BoardOK DEF Tabs
<1>2. t.at + 1 \in 1..board.size /\ t.at \in Nat
  BY <1>1 DEF Turns
<1> DEFINE n == Show(t, t.at + 1)
<1>3. /\ n \in Tabs(board.size) /\ n.at = t.at + 1 /\ n.filtered = t.filtered
      /\ n.texts = t.texts /\ n.path = t.path
  BY <1>2, ShowOK
<1> HIDE DEF n
<1> DEFINE x == Text(n)
           s == Append(t.texts, x)
<1>4. /\ x \in SUBSET (1..board.size)
      /\ ~t.filtered => t.at + 1 \in x /\ x \in {1..t.at + 1, {t.at + 1}}
  BY <1>3, TextOK
<1> HIDE DEF x
<1>5. s \in Seq(SUBSET (1..board.size)) /\ Jobs(s) = Jobs(t.texts) \cup x
  <2> DEFINE S == SUBSET (1..board.size)
  <2>1. t.texts \in Seq(S) /\ x \in S
    BY <1>1, <1>4
  <2> HIDE DEF S
  <2>2. s \in Seq(S) /\ Jobs(s) = Jobs(t.texts) \cup x
    BY <2>1, JobsGrow, AppendProperties
  <2> QED
    BY <2>2 DEF S
<1>6. Turned(t) = [n EXCEPT !.texts = s]
  BY <1>3 DEF Turned, n, x
<1> HIDE DEF s
<1>7. /\ Turned(t) \in Tabs(board.size) /\ Turned(t).at = n.at
      /\ Turned(t).filtered = n.filtered /\ Turned(t).path = n.path /\ Turned(t).texts = s
  BY <1>3, <1>5, <1>6, TextsOK DEF Tabs
<1>8. Jobs(t.texts) = 1..t.at /\ x \in {1..t.at + 1, {t.at + 1}} => Jobs(s) = 1..t.at + 1
  <2>1. 1..t.at \cup {t.at + 1} = 1..t.at + 1 /\ 1..t.at \cup (1..t.at + 1) = 1..t.at + 1
    BY <1>2
  <2> QED
    BY <1>5, <2>1
<1> QED
  BY <1>3, <1>4, <1>5, <1>7, <1>8

----------------------------------------------------------------------------
(* The texts of the pool.                                                  *)

\* One step of Rendered: the texts of the first n pages.
UptoOf(echo, f, n) ==
  IF n = 0 THEN <<>>
  ELSE IF fetched[n] = "page" THEN DedupAdjacent(f[n - 1], Shown(n, echo))
  ELSE f[n - 1]

\* The function that Rendered describes by recursion exists.
LEMMA UptoExists ==
  ASSUME NEW echo, NEW k \in Nat
  PROVE  \E f : f = [n \in 0..k |-> UptoOf(echo, f, n)]
<1> DEFINE Ex(m) == \E f : f = [n \in 0..m |-> UptoOf(echo, f, n)]
           None == {m \in Nat : ~Ex(m)}
<1> SUFFICES ASSUME None # {} PROVE FALSE
  BY Zenon
<1>1. PICK m \in None : \A y \in None : m <= y
  <2> HIDE DEF None
  <2>1. None \in SUBSET Nat
    BY DEF None
  <2> QED
    BY <2>1, Least
<1>2. Ex(0)
  <2> DEFINE f == [n \in 0..0 |-> <<>>]
  <2>1. f = [n \in 0..0 |-> UptoOf(echo, f, n)]
    BY DEF UptoOf
  <2> QED
    BY <2>1
<1>3. m # 0
  BY <1>1, <1>2
<1>4. Ex(m - 1)
  <2>1. m - 1 \in Nat /\ ~ (m <= m - 1)
    BY <1>3
  <2>2. m - 1 \notin None
    <3> HIDE DEF None
    <3> QED
      BY <1>1, <2>1
  <2> QED
    BY <2>1, <2>2
<1>5. PICK f : f = [n \in 0..m - 1 |-> UptoOf(echo, f, n)]
  BY <1>4
<1> DEFINE g == [n \in 0..m |-> IF n = m THEN UptoOf(echo, f, m) ELSE f[n]]
<1>6. ASSUME NEW n \in 0..m PROVE g[n] = UptoOf(echo, g, n)
  <2>1. n # 0 => n - 1 \in 0..m /\ n - 1 # m
    OBVIOUS
  <2>2. n # 0 => g[n - 1] = f[n - 1]
    BY <2>1
  <2>3. UptoOf(echo, g, n) = UptoOf(echo, f, n)
    <3> HIDE DEF g
    <3> QED
      BY <2>2 DEF UptoOf
  <2>4. n # m => n \in 0..m - 1
    OBVIOUS
  <2>5. n # m => f[n] = UptoOf(echo, f, n)
    BY <1>5, <2>4
  <2> QED
    BY <2>3, <2>5
<1>7. g = [n \in 0..m |-> UptoOf(echo, g, n)]
  <2>1. DOMAIN g = 0..m /\ g = [n \in 0..m |-> g[n]]
    OBVIOUS
  <2> HIDE DEF g
  <2> QED
    BY <1>6, <2>1
<1>8. Ex(m)
  <2> HIDE DEF g
  <2> QED
    BY <1>7
<1> QED
  BY <1>1, <1>8

\* The texts of the first n pages: each is one page, no later than n; if none is
\* missing they are all of them; and they are in the order of the list, but for
\* the first page as an echo of a URL beyond the last.
UptoWell(echo, s, n) ==
  /\ s \in Seq(SUBSET (1..board.size)) /\ Len(s) <= n
  /\ \A i \in 1..Len(s) : \E a \in 1..board.size : s[i] = {a} /\ (n <= board.size => a <= n)
  /\ n <= board.size /\ Len(s) = n => \A i \in 1..n : s[i] = {i}
  /\ \A i, j \in 1..Len(s) :
       i < j => \/ \A a \in s[i], b \in s[j] : a < b
                \/ s[j] = {1} /\ echo = 1 /\ n > board.size

\* A page more.
LEMMA UptoGrows ==
  ASSUME board \in Boards, NEW echo \in {1, board.size}, NEW n \in Nat, n > 0,
         NEW s, UptoWell(echo, s, n - 1)
  PROVE  UptoWell(echo, s, n) /\ UptoWell(echo, DedupAdjacent(s, Shown(n, echo)), n)
<1> DEFINE N == board.size
<1>1. N \in Nat \ {0}
  BY BoardOK
<1>2. /\ s \in Seq(SUBSET (1..N)) /\ Len(s) \in Nat /\ Len(s) <= n - 1
      /\ \A i \in 1..Len(s) : \E a \in 1..N : s[i] = {a} /\ (n - 1 <= N => a <= n - 1)
      /\ n - 1 <= N /\ Len(s) = n - 1 => \A i \in 1..n - 1 : s[i] = {i}
      /\ \A i, j \in 1..Len(s) :
           i < j => \/ \A a \in s[i], b \in s[j] : a < b
                    \/ s[j] = {1} /\ echo = 1 /\ n - 1 > N
  BY DEF UptoWell
<1> DEFINE v == IF n <= N THEN n ELSE echo
           t == {v}
<1>3. v \in 1..N /\ (n <= N => v = n) /\ (n > N => v = echo) /\ Shown(n, echo) = t
  BY <1>1 DEF Shown
<1> HIDE DEF v
<1>a. t \in SUBSET (1..N)
  BY <1>3
<1> HIDE DEF N
<1>4. UptoWell(echo, s, n)
  <2>1. Len(s) <= n /\ Len(s) # n
    BY <1>2
  <2>2. \A i \in 1..Len(s) : \E a \in 1..N : s[i] = {a} /\ (n <= N => a <= n)
    <3>1. n <= N => n - 1 <= N
      BY <1>1
    <3> QED
      BY <1>1, <1>2, <3>1
  <2>3. n - 1 > N => n > N
    BY <1>1
  <2>4. \A i, j \in 1..Len(s) :
           i < j => \/ \A a \in s[i], b \in s[j] : a < b
                    \/ s[j] = {1} /\ echo = 1 /\ n > N
    BY <1>2, <2>3
  <2> QED
    BY <1>2, <2>1, <2>2, <2>4, Zenon DEF UptoWell, N
<1>5. ASSUME ~ (s # <<>> /\ Last(s) = t) PROVE UptoWell(echo, Append(s, t), n)
  <2> DEFINE x == Append(s, t)
             S == SUBSET (1..N)
  <2>1. /\ x \in Seq(S) /\ Len(x) = Len(s) + 1 /\ x[Len(s) + 1] = t
        /\ \A i \in 1..Len(s) : x[i] = s[i]
    <3>1. s \in Seq(S) /\ t \in S
      BY <1>2, <1>a
    <3> HIDE DEF S, t
    <3> QED
      BY <3>1, AppendProperties
  <2> HIDE DEF x
  <2>2. \A i \in 1..Len(x) : i \in 1..Len(s) \/ i = Len(s) + 1
    BY <1>2, <2>1
  <2>3. Len(x) <= n
    BY <1>2, <2>1
  <2>4. ASSUME NEW i \in 1..Len(x) PROVE \E a \in 1..N : x[i] = {a} /\ (n <= N => a <= n)
    <3>1. CASE i \in 1..Len(s)
      <4>1. PICK a \in 1..N : s[i] = {a} /\ (n - 1 <= N => a <= n - 1)
        BY <1>2, <3>1
      <4>2. n <= N => a <= n
        BY <1>1, <4>1
      <4> QED
        BY <2>1, <3>1, <4>1, <4>2
    <3>2. CASE i = Len(s) + 1
      <4>1. n <= N => v <= n
        BY <1>3
      <4> QED
        BY <1>3, <2>1, <3>2, <4>1
    <3> QED
      BY <2>2, <3>1, <3>2
  <2>5. ASSUME n <= N, Len(x) = n, NEW i \in 1..n PROVE x[i] = {i}
    <3>1. Len(s) = n - 1 /\ n - 1 <= N
      BY <1>1, <1>2, <2>1, <2>5
    <3>2. CASE i = n
      BY <1>3, <2>1, <2>5, <3>1, <3>2
    <3>3. CASE i # n
      <4>1. i \in 1..n - 1 /\ i \in 1..Len(s)
        BY <3>1, <3>3
      <4> QED
        BY <1>2, <2>1, <3>1, <4>1
    <3> QED
      BY <3>2, <3>3
  <2>6. ASSUME NEW i \in 1..Len(s), ~ (echo = 1 /\ n > N), NEW a \in s[i] PROVE a < v
    <3>1. PICK c \in 1..N : s[i] = {c} /\ (n - 1 <= N => c <= n - 1)
      BY <1>2
    <3>2. a = c
      BY <3>1
    <3>3. CASE n <= N
      BY <1>1, <1>3, <3>1, <3>2, <3>3
    <3>4. CASE n > N
      <4>1. v = N /\ echo # 1
        BY <1>3, <2>6, <3>4 DEF N
      <4>2. Len(s) \in 1..Len(s) /\ i <= Len(s) /\ s # <<>>
        BY <1>2
      <4>3. PICK d \in 1..N : s[Len(s)] = {d}
        BY <1>2, <4>2
      <4>4. Last(s) = {d}
        BY <4>3 DEF Last
      <4>5. d # N
        BY <1>5, <4>1, <4>2, <4>4
      <4>6. d < N
        BY <1>1, <4>5
      <4>7. i < Len(s) => c < d
        <5>1. \A e \in s[i], b \in s[Len(s)] : i < Len(s) => e < b
          BY <1>2, <4>1, <4>2
        <5> QED
          BY <3>1, <4>3, <5>1
      <4>8. i = Len(s) => c = d
        BY <3>1, <4>3
      <4>9. c <= d
        <5>1. i < Len(s) \/ i = Len(s)
          BY <1>2
        <5> QED
          BY <4>7, <4>8, <5>1
      <4> QED
        BY <1>1, <3>2, <4>1, <4>6, <4>9
    <3> QED
      BY <1>1, <3>3, <3>4
  <2>7. ASSUME NEW i \in 1..Len(x), NEW j \in 1..Len(x), i < j
        PROVE  \/ \A a \in x[i], b \in x[j] : a < b
               \/ x[j] = {1} /\ echo = 1 /\ n > N
    <3>1. i \in 1..Len(s)
      BY <1>2, <2>1, <2>7
    <3>2. CASE j \in 1..Len(s)
      <4>1. n - 1 > N => n > N
        BY <1>1
      <4> QED
        BY <1>2, <2>1, <2>7, <3>1, <3>2, <4>1
    <3>3. CASE j = Len(s) + 1
      <4>1. x[j] = t /\ x[i] = s[i]
        BY <2>1, <3>1, <3>3
      <4>2. CASE echo = 1 /\ n > N
        BY <1>3, <4>1, <4>2
      <4>3. CASE ~ (echo = 1 /\ n > N)
        BY <2>6, <3>1, <4>1, <4>3
      <4> QED
        BY <4>2, <4>3
    <3> QED
      BY <2>2, <3>2, <3>3
  <2>8. UptoWell(echo, x, n)
    BY <2>1, <2>3, <2>4, <2>5, <2>7, Zenon DEF UptoWell, N
  <2> QED
    BY <2>8 DEF x
<1>6. UptoWell(echo, DedupAdjacent(s, t), n)
  BY <1>4, <1>5, Zenon DEF DedupAdjacent
<1> QED
  BY <1>3, <1>4, <1>6

\* So are the texts of all pages.
LEMMA RenderedOK ==
  ASSUME board \in Boards, NEW echo \in {1, board.size}, total \in Nat
  PROVE  UptoWell(echo, Rendered(echo), total)
<1> DEFINE F == CHOOSE f : f = [n \in 0..total |-> UptoOf(echo, f, n)]
<1>1. Rendered(echo) = F[total]
  BY Zenon DEF Rendered, UptoOf
<1>2. F = [n \in 0..total |-> UptoOf(echo, F, n)]
  <2>1. \E f : f = [n \in 0..total |-> UptoOf(echo, f, n)]
    BY UptoExists
  <2> QED
    BY <2>1, Zenon
<1> HIDE DEF F
<1>3. \A n \in 0..total : F[n] = UptoOf(echo, F, n)
  BY <1>2
<1> DEFINE Wrong == {n \in 0..total : ~UptoWell(echo, F[n], n)}
<1>4. Wrong = {}
  <2> SUFFICES ASSUME Wrong # {} PROVE FALSE
    OBVIOUS
  <2>1. PICK n \in Wrong : \A y \in Wrong : n <= y
    <3>1. Wrong \in SUBSET Nat
      OBVIOUS
    <3> HIDE DEF Wrong
    <3> QED
      BY <3>1, Least
  <2>2. n \in 0..total /\ ~UptoWell(echo, F[n], n) /\ F[n] = UptoOf(echo, F, n)
    BY <1>3, <2>1
  <2>3. n # 0
    <3>1. UptoWell(echo, <<>>, 0)
      BY DEF UptoWell
    <3> QED
      BY <2>2, <3>1 DEF UptoOf
  <2>4. n - 1 \in 0..total /\ n \in Nat /\ n > 0 /\ ~ (n <= n - 1)
    BY <2>2, <2>3
  <2>5. UptoWell(echo, F[n - 1], n - 1)
    <3>1. n - 1 \notin Wrong
      <4> HIDE DEF Wrong
      <4> QED
        BY <2>1, <2>4
    <3> QED
      BY <2>4, <3>1
  <2>6. UptoWell(echo, F[n - 1], n) /\ UptoWell(echo, DedupAdjacent(F[n - 1], Shown(n, echo)), n)
    BY <2>4, <2>5, UptoGrows
  <2> QED
    BY <2>2, <2>3, <2>6 DEF UptoOf
<1>5. total \in 0..total
  OBVIOUS
<1> QED
  BY <1>1, <1>4, <1>5

----------------------------------------------------------------------------
(* A step outside the pool.                                                *)

\* The results stay what they were.
LEMMA ResultStays ==
  ASSUME CapturedInOrder, GateIsSound, UNCHANGED <<board, total, result>>,
         missed' = {} => missed = {}
  PROVE  CapturedInOrder' /\ GateIsSound'
<1>1. board' = board /\ total' = total /\ result' = result
  OBVIOUS
<1>2. CapturedInOrder'
  BY <1>1 DEF CapturedInOrder
<1>3. GateIsSound'
  BY <1>1 DEF GateIsSound, Verified
<1> QED
  BY <1>2, <1>3

\* The pool is not under way and met no wall.
LEMMA PoolStays ==
  ASSUME PoolOK, WallWins, stage \notin {"pool", "done"}, stage' # "pool",
         UNCHANGED <<total, pool>>
  PROVE  PoolOK' /\ WallWins'
<1>1. fetched' = fetched /\ worker' = worker /\ total' = total
  BY DEF pool
<1>2. \A p \in AllPages : fetched[p] # "wall"
  BY DEF WallWins
<1>3. WallWins'
  BY <1>1, <1>2 DEF WallWins
<1>4. PoolOK'
  BY <1>1 DEF PoolOK
<1> QED
  BY <1>3, <1>4

\* The invocation goes on.
LEMMA GoesOn ==
  ASSUME BrowseInv, stage \notin {"pool", "done"}, stage' \notin {"pool", "done"},
         UNCHANGED <<board, total, pool, result>>, missed' = {} => missed = {},
         tab' \in Tabs(board.size), TabTells'
  PROVE  BrowseInv'
<1>1. PoolOK' /\ WallWins'
  BY PoolStays DEF BrowseInv
<1>2. CapturedInOrder' /\ GateIsSound'
  BY ResultStays DEF BrowseInv
<1>3. TabTyped'
  BY DEF TabTyped, BrowseInv
<1>4. result' = NoResult
  <2>1. result = NoResult /\ result' = result
    BY DEF BrowseInv
  <2> QED
    BY <2>1
<1> QED
  BY <1>1, <1>2, <1>3, <1>4 DEF BrowseInv

\* The invocation ends without a capture of the pool.
LEMMA EndsHere ==
  ASSUME BrowseInv, stage \notin {"pool", "done"}, stage' = "done",
         UNCHANGED <<board, total, pool>>, tab' \in Tabs(board.size),
         result'.path # "parallel",
         Verified(result') /\ missed' = {} =>
           \/ result'.jobs = 1..board.size
           \/ result'.path = "click_fallback_no_detect" /\ board.size \in result'.jobs
  PROVE  BrowseInv'
<1>1. PoolOK' /\ WallWins'
  BY PoolStays DEF BrowseInv
<1>2. CapturedInOrder'
  BY DEF CapturedInOrder
<1>3. GateIsSound'
  BY DEF GateIsSound, Verified
<1>4. TabTyped'
  BY DEF TabTyped, BrowseInv
<1>5. TabTells'
  BY DEF TabTells
<1> QED
  BY <1>1, <1>2, <1>3, <1>4, <1>5 DEF BrowseInv

\* A result that is not "ok", or names no end, is not passed.
LEMMA Unverified ==
  ASSUME NEW r, r.status # "ok" \/ r.end = "none" \/ r.cut
  PROVE  ~Verified(r)
  BY DEF Verified

\* Stop: the invocation ends with nothing.
LEMMA HaltOK ==
  ASSUME BrowseInv, stage \notin {"pool", "done"}, NEW status, NEW path,
         Halt(status, path), path # "parallel", status # "ok",
         UNCHANGED <<board, total, pool>>
  PROVE  BrowseInv'
<1>1. /\ stage' = "done" /\ tab' = tab
      /\ result' = [status |-> status, path |-> path, end |-> "none", jobs |-> {},
                    texts |-> <<>>, listing |-> 0, files |-> FALSE, cut |-> FALSE]
  BY DEF Halt, Finish
<1>2. result'.path = path /\ result'.status = status
  BY <1>1
<1>3. ~Verified(result')
  BY <1>2 DEF Verified
<1>4. tab' \in Tabs(board.size)
  BY <1>1 DEF BrowseInv, TabTyped
<1> QED
  BY <1>1, <1>2, <1>3, <1>4, EndsHere

----------------------------------------------------------------------------
(* The steps of a capture.                                                 *)

\* The tab as the invariant knows it.
LEMMA TabKnown ==
  ASSUME BrowseInv
  PROVE  /\ board \in Boards /\ board.size \in Nat \ {0} /\ 1 \in 1..board.size
         /\ tab \in Tabs(board.size)
         /\ tab.at \in 1..board.size /\ tab.path # "parallel" /\ tab.path \in Paths
         /\ tab.texts \in Seq(SUBSET (1..board.size))
         /\ tab.opened \in SUBSET (1..board.size)
         /\ TabTells
<1>1. board \in Boards /\ tab \in Tabs(board.size) /\ TabTells
  BY DEF BrowseInv, TabTyped
<1>2. board.size \in Nat \ {0}
  BY <1>1, BoardOK
<1> QED
  BY <1>1, <1>2 DEF Tabs

\* The texts begin with that of the page shown.
LEMMA FirstText ==
  ASSUME board \in Boards, NEW t \in Tabs(board.size)
  PROVE  LET n == [t EXCEPT !.texts = <<Text(t)>>] IN
         /\ n \in Tabs(board.size)
         /\ n.at = t.at /\ n.filtered = t.filtered /\ n.path = t.path /\ n.terms = t.terms
         /\ ~t.filtered => t.at \in Jobs(n.texts) /\ (t.at = 1 => Jobs(n.texts) = 1..t.at)
<1> DEFINE x == Text(t)
<1>1. /\ x \in SUBSET (1..board.size)
      /\ ~t.filtered => t.at \in x /\ x \in {1..t.at, {t.at}}
  BY TextOK
<1> HIDE DEF x
<1>2. <<x>> \in Seq(SUBSET (1..board.size)) /\ Jobs(<<x>>) = x
  BY <1>1, JobsOfOne
<1> DEFINE n == [t EXCEPT !.texts = <<x>>]
<1>3. n \in Tabs(board.size) /\ n.texts = <<x>> /\ n.at = t.at /\ n.filtered = t.filtered
      /\ n.path = t.path /\ n.terms = t.terms
  BY <1>2, TextsOK DEF Tabs
<1>4. {1} = 1..1
  OBVIOUS
<1>5. ~t.filtered /\ t.at = 1 => x = 1..t.at
  BY <1>1, <1>4
<1> HIDE DEF n
<1>6. /\ n \in Tabs(board.size)
      /\ n.at = t.at /\ n.filtered = t.filtered /\ n.path = t.path /\ n.terms = t.terms
      /\ ~t.filtered => t.at \in Jobs(n.texts) /\ (t.at = 1 => Jobs(n.texts) = 1..t.at)
  BY <1>1, <1>2, <1>3, <1>5
<1> QED
  BY <1>6 DEF n, x

\* A new tab has read nothing.
LEMMA NewTabOK ==
  ASSUME board \in Boards
  PROVE  NewTab \in Tabs(board.size) /\ NewTab.at = 1 /\ ~NewTab.filtered
<1>1. board.size \in Nat \ {0}
  BY BoardOK
<1>2. 1 \in 1..board.size /\ <<>> \in Seq(SUBSET (1..board.size))
  BY <1>1
<1> QED
  BY <1>2 DEF NewTab, Tabs, Paths

\* The page loads, or shows a wall.
LEMMA LoadOK == BrowseInv /\ Load => BrowseInv'
<1> SUFFICES ASSUME BrowseInv, Load PROVE BrowseInv'
  OBVIOUS
<1>1. stage = "load" /\ UNCHANGED <<board, mode, total, pool, missed>>
  BY DEF Load
<1>2. board \in Boards /\ 1 \in 1..board.size /\ tab \in Tabs(board.size) /\ ~tab.filtered
      /\ tab.path # "parallel"
  BY <1>1, TabKnown DEF TabTells
<1> DEFINE t == Show(tab, 1)
           body == IF board.shell = "empty" THEN {} ELSE {1}
           observed == IF t.seen # {} THEN t.seen ELSE body
<1>3. t \in Tabs(board.size) /\ t.at = 1 /\ ~t.filtered
  BY <1>2, ShowOK
<1>4. \/ Halt("blocked", "spa_shell")
      \/ Finish("ok", "spa_shell", t, "none", observed, <<observed>>, 0, TRUE, FALSE)
      \/ Finish("ok", "", t, "none", body, <<body>>, 0, FALSE, FALSE)
      \/ /\ tab' = [t EXCEPT !.texts = IF mode \in {"search", "parallel"}
                                       THEN <<>> ELSE <<Text(t)>>]
         /\ stage' = CASE mode = "parallel" -> "probe"
                       [] mode = "interact" -> "record"
                       [] mode = "search"   -> "search"
                       [] OTHER             -> "paging"
         /\ UNCHANGED result
  BY Zenon DEF Load
<1> HIDE DEF t, observed, body
<1>5. CASE Halt("blocked", "spa_shell")
  BY <1>1, <1>5, HaltOK
<1>6. CASE \/ Finish("ok", "spa_shell", t, "none", observed, <<observed>>, 0, TRUE, FALSE)
           \/ Finish("ok", "", t, "none", body, <<body>>, 0, FALSE, FALSE)
  <2>1. stage' = "done" /\ tab' = t /\ result'.path # "parallel" /\ result'.end = "none"
    <3>1. CASE Finish("ok", "spa_shell", t, "none", observed, <<observed>>, 0, TRUE, FALSE)
      BY <3>1 DEF Finish
    <3>2. CASE Finish("ok", "", t, "none", body, <<body>>, 0, FALSE, FALSE)
      BY <3>2 DEF Finish
    <3> QED
      BY <1>6, <3>1, <3>2
  <2>2. ~Verified(result')
    BY <2>1 DEF Verified
  <2> QED
    BY <1>1, <1>3, <2>1, <2>2, EndsHere
<1>7. CASE /\ tab' = [t EXCEPT !.texts = IF mode \in {"search", "parallel"}
                                         THEN <<>> ELSE <<Text(t)>>]
           /\ stage' = CASE mode = "parallel" -> "probe"
                         [] mode = "interact" -> "record"
                         [] mode = "search"   -> "search"
                         [] OTHER             -> "paging"
           /\ UNCHANGED result
  <2>1. stage' \in {"probe", "record", "search", "paging"}
        /\ (stage' \in {"record", "paging"} => mode \notin {"search", "parallel"})
    BY <1>7
  <2> DEFINE n == [t EXCEPT !.texts = <<Text(t)>>]
             e == [t EXCEPT !.texts = <<>>]
  <2>2. n \in Tabs(board.size) /\ n.at = 1 /\ ~n.filtered /\ 1 \in Jobs(n.texts) /\ Jobs(n.texts) = 1..1
    BY <1>2, <1>3, FirstText
  <2>3. e \in Tabs(board.size) /\ e.at = 1 /\ ~e.filtered
    <3>1. <<>> \in Seq(SUBSET (1..board.size))
      OBVIOUS
    <3> QED
      BY <1>3, <3>1, TextsOK DEF Tabs
  <2>4. tab' = IF mode \in {"search", "parallel"} THEN e ELSE n
    BY <1>7
  <2> HIDE DEF n, e
  <2>5. tab' \in Tabs(board.size) /\ tab'.at = 1 /\ ~tab'.filtered
    BY <2>2, <2>3, <2>4
  <2>6. stage' = "paging" => tab' = n
    BY <2>1, <2>4
  <2>7. TabTells'
    <3>1. stage' = "paging" => tab'.at \in Jobs(tab'.texts) /\ Jobs(tab'.texts) = 1..tab'.at
      BY <2>2, <2>6
    <3> QED
      BY <2>1, <2>5, <3>1, Zenon DEF TabTells
  <2> QED
    BY <1>1, <1>7, <2>1, <2>5, <2>7, GoesOn
<1> QED
  BY <1>4, <1>5, <1>6, <1>7

\* The page does not load.
LEMMA LoadFailsOK == BrowseInv /\ LoadFails => BrowseInv'
<1> SUFFICES ASSUME BrowseInv, LoadFails PROVE BrowseInv'
  OBVIOUS
<1>1. PICK status \in {"blocked", "error"} : Halt(status, "")
  BY DEF LoadFails
<1>2. stage = "load" /\ UNCHANGED <<board, mode, total, pool, missed>>
  BY DEF LoadFails
<1> QED
  BY <1>1, <1>2, HaltOK

\* The probe found no page number: the capture goes on where it was left.
LEMMA UndetectedOK ==
  ASSUME BrowseInv, stage = "probe", NEW t \in Tabs(board.size), ~t.filtered, Undetected(t),
         UNCHANGED missed
  PROVE  BrowseInv'
<1> DEFINE n == [t EXCEPT !.texts = <<Text(t)>>]
<1>1. n \in Tabs(board.size) /\ ~n.filtered
  BY TabKnown, FirstText
<1>2. stage' = "record" /\ tab' = n /\ UNCHANGED <<board, mode, total, pool, result>>
  BY DEF Undetected
<1> HIDE DEF n
<1>3. TabTells'
  BY <1>1, <1>2 DEF TabTells
<1> QED
  BY <1>1, <1>2, <1>3, GoesOn

\* The probe finds no control of a next page.
LEMMA ProbeFindsNothingOK == BrowseInv /\ ProbeFindsNothing => BrowseInv'
<1> SUFFICES ASSUME BrowseInv, ProbeFindsNothing PROVE BrowseInv'
  OBVIOUS
<1>1. stage = "probe" /\ Undetected(tab) /\ UNCHANGED missed
  BY DEF ProbeFindsNothing
<1>2. tab \in Tabs(board.size) /\ ~tab.filtered
  BY <1>1, TabKnown DEF TabTells
<1> QED
  BY <1>1, <1>2, UndetectedOK

\* The probe raises.
LEMMA ProbeRaisesOK == BrowseInv /\ ProbeRaises => BrowseInv'
<1> SUFFICES ASSUME BrowseInv, ProbeRaises PROVE BrowseInv'
  OBVIOUS
<1>1. stage = "probe" /\ UNCHANGED missed
  BY DEF ProbeRaises
<1>2. tab \in Tabs(board.size) /\ ~tab.filtered
  BY <1>1, TabKnown DEF TabTells
<1>3. CASE Undetected(tab)
  BY <1>1, <1>2, <1>3, UndetectedOK
<1>4. CASE /\ tab' = [tab EXCEPT !.tries = @ + 1]
           /\ UNCHANGED <<board, mode, stage, total, pool, result, missed>>
  <2> DEFINE k == tab.tries + 1
  <2>1. k \in Nat /\ tab' = [tab EXCEPT !.tries = k]
    BY <1>2, <1>4 DEF Tabs
  <2> HIDE DEF k
  <2>2. tab' \in Tabs(board.size) /\ ~tab'.filtered
    BY <1>2, <2>1 DEF Tabs
  <2>3. TabTells'
    BY <1>1, <1>4, <2>2 DEF TabTells
  <2> QED
    BY <1>1, <1>4, <2>2, <2>3, GoesOn
<1> QED
  BY <1>3, <1>4, Zenon DEF ProbeRaises

\* The next page is shown.
LEMMA ShowNext ==
  ASSUME board \in Boards, NEW t \in Tabs(board.size), Turns(t)
  PROVE  /\ t.at + 1 \in 1..board.size
         /\ Show(t, t.at + 1) \in Tabs(board.size)
         /\ Show(t, t.at + 1).filtered = t.filtered
<1>1. t.at \in 1..board.size /\ board.size \in Nat
  BY BoardOK DEF Tabs
<1>2. t.at + 1 \in 1..board.size
  BY <1>1 DEF Turns
<1> QED
  BY <1>2, ShowOK

\* The probe clicks and the URL stays.
LEMMA ProbeStaysOnUrlOK == BrowseInv /\ ProbeStaysOnUrl => BrowseInv'
<1> SUFFICES ASSUME BrowseInv, ProbeStaysOnUrl PROVE BrowseInv'
  OBVIOUS
<1>1. /\ stage = "probe" /\ UNCHANGED missed
      /\ Undetected(tab) \/ (Turns(tab) /\ Undetected(Show(tab, tab.at + 1)))
  BY DEF ProbeStaysOnUrl
<1>2. tab \in Tabs(board.size) /\ ~tab.filtered /\ board \in Boards
  BY <1>1, TabKnown DEF TabTells
<1>3. CASE Undetected(tab)
  BY <1>1, <1>2, <1>3, UndetectedOK
<1>4. CASE Turns(tab) /\ Undetected(Show(tab, tab.at + 1))
  <2> DEFINE t == Show(tab, tab.at + 1)
  <2>1. t \in Tabs(board.size) /\ ~t.filtered /\ Undetected(t)
    BY <1>2, <1>4, ShowNext
  <2> HIDE DEF t
  <2> QED
    BY <1>1, <2>1, UndetectedOK
<1> QED
  BY <1>1, <1>3, <1>4

\* The pool starts, with every page up to the total queued.
LEMMA ProbeReadsUrlOK == BrowseInv /\ ProbeReadsUrl => BrowseInv'
<1> SUFFICES ASSUME BrowseInv, ProbeReadsUrl PROVE BrowseInv'
  OBVIOUS
<1>1. stage = "probe" /\ UNCHANGED missed /\ Turns(tab)
  BY DEF ProbeReadsUrl
<1>2. tab \in Tabs(board.size) /\ ~tab.filtered /\ board \in Boards
  BY <1>1, TabKnown DEF TabTells
<1>3. CASE board.pager = "keyed"
  <2>1. /\ stage' = "pool"
        /\ total' = TotalPages
        /\ fetched' = [p \in AllPages |-> IF p <= TotalPages THEN "queued" ELSE "none"]
        /\ UNCHANGED <<board, mode, tab, attempts, result>>
    BY <1>3 DEF ProbeReadsUrl
  <2>2. PICK W \in SUBSET Workers :
          worker' = [w \in Workers |-> IF w \in W THEN Worker("starting", 0) ELSE WorkerOff]
    BY <1>3 DEF ProbeReadsUrl
  <2>3. total' \in 0..PageLimit
    <3>1. board.size \in Nat \ {0} /\ PageLimit \in Nat
      BY <1>2, BoardOK
    <3> QED
      BY <2>1, <3>1 DEF TotalPages
  <2>4. result' = NoResult
    BY <1>1, <2>1 DEF BrowseInv
  <2>5. fetched' = [p \in AllPages |-> IF p <= total' THEN "queued" ELSE "none"]
    BY <2>1
  <2>6. \A p \in AllPages : fetched'[p] # "wall" /\ (fetched'[p] # "none" => p <= total')
    BY <2>5
  <2>7. \A w \in Workers : worker'[w] \in {Worker("starting", 0), WorkerOff}
    BY <2>2
  <2>8. PoolOK'
    <3>1. worker' \in [Workers -> [state : {"off", "starting", "idle", "busy"}, page : {0} \cup AllPages]]
      BY <2>2 DEF Worker, WorkerOff
    <3>2. \A w \in Workers : worker'[w].state # "busy"
      BY <2>7 DEF Worker, WorkerOff
    <3>3. fetched' \in [AllPages -> {"none", "queued", "page", "blank", "error", "wall"}]
      BY <2>5
    <3> QED
      BY <2>1, <2>3, <2>6, <3>1, <3>2, <3>3 DEF PoolOK
  <2>9. WallWins'
    BY <2>6 DEF WallWins
  <2>10. CapturedInOrder' /\ GateIsSound'
    BY <2>4 DEF CapturedInOrder, GateIsSound
  <2>11. TabTells' /\ TabTyped'
    BY <1>2, <2>1 DEF TabTells, TabTyped
  <2> QED
    BY <2>4, <2>8, <2>9, <2>10, <2>11 DEF BrowseInv
<1>4. CASE board.pager # "keyed"
  <2> DEFINE t == Show(tab, tab.at + 1)
             u == Show(t, 1)
  <2>1. Undetected(u) \/ Undetected(t)
    BY <1>4 DEF ProbeReadsUrl
  <2>2. t \in Tabs(board.size) /\ ~t.filtered
    BY <1>1, <1>2, ShowNext
  <2> HIDE DEF t
  <2>3. u \in Tabs(board.size) /\ ~u.filtered
    BY <1>2, <2>2, TabKnown, ShowOK
  <2> HIDE DEF u
  <2> QED
    BY <1>1, <2>1, <2>2, <2>3, UndetectedOK
<1> QED
  BY <1>3, <1>4

----------------------------------------------------------------------------
(* The pool.                                                               *)

\* A step of the pool that does not end it.
LEMMA PoolGoesOn ==
  ASSUME BrowseInv, stage = "pool", PoolOK', UNCHANGED <<board, stage, tab, result, total, missed>>
  PROVE  BrowseInv'
<1>1. result = NoResult /\ result' = result
  BY DEF BrowseInv
<1>2. WallWins'
  BY <1>1 DEF WallWins
<1>3. CapturedInOrder' /\ GateIsSound'
  BY <1>1 DEF CapturedInOrder, GateIsSound
<1>4. TabTyped'
  BY DEF BrowseInv, TabTyped
<1>5. TabTells'
  BY DEF TabTells
<1> QED
  BY <1>1, <1>2, <1>3, <1>4, <1>5 DEF BrowseInv

\* A thread changes its state.
LEMMA WorkerSet ==
  ASSUME PoolOK, NEW w \in Workers, NEW state \in {"off", "starting", "idle", "busy"},
         NEW page \in {0} \cup AllPages, state = "busy" => page \in 1..total,
         worker' = [worker EXCEPT ![w] = Worker(state, page)], total' = total
  PROVE  /\ worker' \in [Workers -> [state : {"off", "starting", "idle", "busy"}, page : {0} \cup AllPages]]
         /\ \A u \in Workers : worker'[u].state = "busy" => worker'[u].page \in 1..total'
<1>1. Worker(state, page) \in [state : {"off", "starting", "idle", "busy"}, page : {0} \cup AllPages]
      /\ Worker(state, page).state = state /\ Worker(state, page).page = page
  BY DEF Worker
<1>2. worker \in [Workers -> [state : {"off", "starting", "idle", "busy"}, page : {0} \cup AllPages]]
  BY DEF PoolOK
<1>3. /\ worker'[w] = Worker(state, page)
      /\ \A u \in Workers : u # w => worker'[u] = worker[u]
  BY <1>2
<1>4. worker' \in [Workers -> [state : {"off", "starting", "idle", "busy"}, page : {0} \cup AllPages]]
  BY <1>1, <1>2
<1>5. \A u \in Workers : worker'[u].state = "busy" => worker'[u].page \in 1..total'
  BY <1>1, <1>3 DEF PoolOK
<1> QED
  BY <1>4, <1>5

\* A thread that is not off shows that the pool is under way.
LEMMA PoolRuns ==
  ASSUME BrowseInv, NEW w \in Workers, worker[w].state # "off"
  PROVE  stage = "pool" /\ PoolOK
  BY DEF BrowseInv, PoolOK

\* A page settles.
LEMMA PageSet ==
  ASSUME PoolOK, NEW p \in AllPages, p <= total,
         NEW outcome \in {"none", "queued", "page", "blank", "error", "wall"},
         Settles(p, outcome), total' = total
  PROVE  /\ fetched' \in [AllPages -> {"none", "queued", "page", "blank", "error", "wall"}]
         /\ \A q \in AllPages : fetched'[q] # "none" => q <= total'
  BY DEF PoolOK, Settles

\* A thread of the pool gets its browser.
LEMMA WorkerStartsOK == ASSUME NEW w \in Workers PROVE BrowseInv /\ WorkerStarts(w) => BrowseInv'
<1> SUFFICES ASSUME BrowseInv, WorkerStarts(w) PROVE BrowseInv'
  OBVIOUS
<1>1. /\ worker[w].state = "starting" /\ worker' = [worker EXCEPT ![w] = Worker("idle", 0)]
      /\ UNCHANGED <<board, mode, stage, tab, total, fetched, attempts, result, missed>>
  BY DEF WorkerStarts
<1>2. stage = "pool" /\ PoolOK
  BY <1>1, PoolRuns
<1>3. /\ worker' \in [Workers -> [state : {"off", "starting", "idle", "busy"}, page : {0} \cup AllPages]]
      /\ \A u \in Workers : worker'[u].state = "busy" => worker'[u].page \in 1..total'
  BY <1>1, <1>2, WorkerSet
<1>4. PoolOK'
  BY <1>1, <1>2, <1>3 DEF PoolOK
<1> QED
  BY <1>1, <1>2, <1>4, PoolGoesOn

\* A thread of the pool gets none: it keeps its exception.
LEMMA WorkerFailsOK == ASSUME NEW w \in Workers PROVE BrowseInv /\ WorkerFails(w) => BrowseInv'
<1> SUFFICES ASSUME BrowseInv, WorkerFails(w) PROVE BrowseInv'
  OBVIOUS
<1>1. /\ worker[w].state = "starting" /\ worker' = [worker EXCEPT ![w] = Worker("off", 0)]
      /\ fetched' = [p \in AllPages |-> IF fetched[p] = "queued" THEN "error" ELSE fetched[p]]
      /\ UNCHANGED <<board, mode, stage, tab, total, attempts, result, missed>>
  BY DEF WorkerFails, WorkerOff
<1>2. stage = "pool" /\ PoolOK
  BY <1>1, PoolRuns
<1>3. /\ worker' \in [Workers -> [state : {"off", "starting", "idle", "busy"}, page : {0} \cup AllPages]]
      /\ \A u \in Workers : worker'[u].state = "busy" => worker'[u].page \in 1..total'
  BY <1>1, <1>2, WorkerSet
<1>4. /\ fetched' \in [AllPages -> {"none", "queued", "page", "blank", "error", "wall"}]
      /\ \A q \in AllPages : fetched'[q] # "none" => q <= total'
  BY <1>1, <1>2 DEF PoolOK
<1>5. PoolOK'
  BY <1>1, <1>2, <1>3, <1>4 DEF PoolOK
<1> QED
  BY <1>1, <1>2, <1>5, PoolGoesOn

\* A thread takes a page off the queue.
LEMMA TakesOK == ASSUME NEW w \in Workers PROVE BrowseInv /\ Takes(w) => BrowseInv'
<1> SUFFICES ASSUME BrowseInv, Takes(w) PROVE BrowseInv'
  OBVIOUS
<1> DEFINE p == Min(Queued)
<1>1. /\ worker[w].state = "idle" /\ Queued # {}
      /\ worker' = [worker EXCEPT ![w] = Worker("busy", p)]
      /\ Settles(p, "none")
      /\ UNCHANGED <<board, mode, stage, tab, total, attempts, result, missed>>
  BY DEF Takes
<1>2. stage = "pool" /\ PoolOK
  BY <1>1, PoolRuns
<1>3. p \in Queued
  <2>1. Queued \in SUBSET Nat
    BY DEF Queued, AllPages
  <2>2. PICK x \in Queued : \A y \in Queued : x <= y
    BY <1>1, <2>1, Least
  <2> QED
    BY <2>2 DEF Min
<1> HIDE DEF p
<1>4. p \in AllPages /\ fetched[p] = "queued" /\ p <= total /\ p \in 1..total
  <2>1. p \in AllPages /\ fetched[p] = "queued"
    BY <1>3 DEF Queued
  <2>2. p <= total /\ total \in Nat
    BY <1>2, <2>1 DEF PoolOK
  <2> QED
    BY <2>1, <2>2 DEF AllPages
<1>5. /\ worker' \in [Workers -> [state : {"off", "starting", "idle", "busy"}, page : {0} \cup AllPages]]
      /\ \A u \in Workers : worker'[u].state = "busy" => worker'[u].page \in 1..total'
  BY <1>1, <1>2, <1>4, WorkerSet
<1>6. /\ fetched' \in [AllPages -> {"none", "queued", "page", "blank", "error", "wall"}]
      /\ \A q \in AllPages : fetched'[q] # "none" => q <= total'
  BY <1>1, <1>2, <1>4, PageSet
<1>7. PoolOK'
  BY <1>1, <1>2, <1>5, <1>6 DEF PoolOK
<1> QED
  BY <1>1, <1>2, <1>7, PoolGoesOn

\* The fetch of a page ends, or is tried again.
LEMMA FetchEndsOK == ASSUME NEW w \in Workers PROVE BrowseInv /\ FetchEnds(w) => BrowseInv'
<1> SUFFICES ASSUME BrowseInv, FetchEnds(w) PROVE BrowseInv'
  OBVIOUS
<1> DEFINE p == worker[w].page
<1>1. /\ worker[w].state = "busy"
      /\ UNCHANGED <<board, mode, stage, tab, total, result, missed>>
  BY DEF FetchEnds
<1>2. stage = "pool" /\ PoolOK
  BY <1>1, PoolRuns
<1>3. PICK outcome \in {"page"} \cup (Faults \cap {"blank", "wall", "error"}) :
        \/ UNCHANGED <<fetched, worker>>
        \/ Settles(p, outcome) /\ worker' = [worker EXCEPT ![w] = Worker("idle", 0)]
  BY Zenon DEF FetchEnds
<1>4. p \in AllPages /\ p <= total
  <2>1. p \in 1..total /\ total \in 0..PageLimit
    BY <1>1, <1>2 DEF PoolOK
  <2> QED
    BY <2>1 DEF AllPages
<1> HIDE DEF p
<1>5. CASE UNCHANGED <<fetched, worker>>
  <2>1. PoolOK'
    BY <1>1, <1>2, <1>5 DEF PoolOK
  <2> QED
    BY <1>1, <1>2, <2>1, PoolGoesOn
<1>6. CASE Settles(p, outcome) /\ worker' = [worker EXCEPT ![w] = Worker("idle", 0)]
  <2>1. /\ worker' \in [Workers -> [state : {"off", "starting", "idle", "busy"}, page : {0} \cup AllPages]]
        /\ \A u \in Workers : worker'[u].state = "busy" => worker'[u].page \in 1..total'
    BY <1>1, <1>2, <1>6, WorkerSet
  <2>2. outcome \in {"none", "queued", "page", "blank", "error", "wall"}
    OBVIOUS
  <2>3. /\ fetched' \in [AllPages -> {"none", "queued", "page", "blank", "error", "wall"}]
        /\ \A q \in AllPages : fetched'[q] # "none" => q <= total'
    BY <1>1, <1>2, <1>4, <1>6, <2>2, PageSet
  <2>4. PoolOK'
    BY <1>1, <1>2, <2>1, <2>3 DEF PoolOK
  <2> QED
    BY <1>1, <1>2, <2>4, PoolGoesOn
<1> QED
  BY <1>3, <1>5, <1>6

\* The pool is closed.
LEMMA PoolCloses ==
  ASSUME PoolOK, Close, UNCHANGED <<total, fetched>>
  PROVE  PoolOK'
<1>1. worker' = [w \in Workers |-> [state |-> "off", page |-> 0]]
  BY DEF Close, WorkerOff, Worker
<1>2. /\ worker' \in [Workers -> [state : {"off", "starting", "idle", "busy"}, page : {0} \cup AllPages]]
      /\ \A w \in Workers : worker'[w].state = "off"
  BY <1>1
<1>3. /\ total' \in 0..PageLimit
      /\ fetched' \in [AllPages -> {"none", "queued", "page", "blank", "error", "wall"}]
      /\ \A p \in AllPages : fetched'[p] # "none" => p <= total'
  BY DEF PoolOK
<1> QED
  BY <1>2, <1>3 DEF PoolOK

\* A wall is among the outcomes.
LEMMA WallIsOutcome ==
  ASSUME PoolOK, NEW p \in AllPages, fetched[p] = "wall"
  PROVE  "wall" \in Outcomes
<1>1. p \in Nat /\ p >= 1 /\ p <= total /\ total \in Nat
  BY DEF PoolOK, AllPages
<1>2. p \in 1..total
  BY <1>1
<1> QED
  BY <1>2 DEF Outcomes

\* The pool is closed with a wall among its outcomes.
LEMMA PoolBlockedOK == BrowseInv /\ PoolBlocked => BrowseInv'
<1> SUFFICES ASSUME BrowseInv, PoolBlocked PROVE BrowseInv'
  OBVIOUS
<1>1. /\ stage = "pool" /\ Close /\ UNCHANGED <<board, mode, total, fetched, attempts, missed>>
      /\ stage' = "done" /\ tab' = tab
      /\ result' = [status |-> "blocked", path |-> "parallel", end |-> "none", jobs |-> {},
                    texts |-> <<>>, listing |-> 0, files |-> FALSE, cut |-> FALSE]
  BY DEF PoolBlocked, Settled, Halt, Finish
<1>2. result'.status = "blocked" /\ result'.texts = <<>> /\ DOMAIN result'.texts = {}
  BY <1>1
<1>3. PoolOK'
  BY <1>1, PoolCloses DEF BrowseInv
<1>4. WallWins'
  BY <1>1, <1>2 DEF WallWins
<1>5. CapturedInOrder'
  BY <1>2 DEF CapturedInOrder
<1>6. GateIsSound'
  BY <1>2 DEF GateIsSound, Verified
<1>7. TabTyped' /\ TabTells'
  BY <1>1 DEF BrowseInv, TabTyped, TabTells
<1> QED
  BY <1>1, <1>3, <1>4, <1>5, <1>6, <1>7 DEF BrowseInv

\* The pool is closed with an error and no wall.
LEMMA PoolFailedOK == BrowseInv /\ PoolFailed => BrowseInv'
<1> SUFFICES ASSUME BrowseInv, PoolFailed PROVE BrowseInv'
  OBVIOUS
<1>1. /\ stage = "pool" /\ Close /\ "wall" \notin Outcomes /\ stage' = "reopen"
      /\ UNCHANGED <<board, mode, tab, total, fetched, attempts, result, missed>>
  BY DEF PoolFailed, Settled
<1>2. PoolOK'
  BY <1>1, PoolCloses DEF BrowseInv
<1>3. WallWins'
  BY <1>1, WallIsOutcome DEF WallWins, BrowseInv
<1>4. result' = NoResult
  BY <1>1 DEF BrowseInv
<1>5. CapturedInOrder' /\ GateIsSound'
  BY <1>4 DEF CapturedInOrder, GateIsSound
<1>6. TabTyped' /\ TabTells'
  BY <1>1 DEF BrowseInv, TabTyped, TabTells
<1> QED
  BY <1>2, <1>3, <1>4, <1>5, <1>6 DEF BrowseInv

\* The greatest of one.
LEMMA MaxOfOne == ASSUME NEW a \in Nat PROVE Max({a}) = a
  BY DEF Max

\* The texts are the result, in order and, if the gate passes them, complete.
LEMMA PoolGatheredOK == BrowseInv /\ PoolGathered => BrowseInv'
<1> SUFFICES ASSUME BrowseInv, PoolGathered PROVE BrowseInv'
  OBVIOUS
<1> DEFINE N == board.size
           Result(texts) == [status |-> "ok", path |-> "parallel",
              end |-> IF board.declared /\ total = N THEN "finite_page_range_exhausted" ELSE "none",
              jobs |-> Jobs(texts), texts |-> texts, listing |-> 0, files |-> texts # <<>>,
              cut |-> board.declared /\ N > Len(texts)]
<1>1. /\ stage = "pool" /\ Close /\ Outcomes \subseteq {"page", "blank"}
      /\ stage' = "done" /\ tab' = tab
      /\ UNCHANGED <<board, mode, total, fetched, attempts, missed>>
  BY DEF PoolGathered, Settled, Finish
<1>2. PICK echo \in {1, N} : result' = Result(Rendered(echo))
  BY Zenon DEF PoolGathered, Finish
<1>3. board \in Boards /\ N \in Nat \ {0} /\ total \in Nat
  BY TabKnown DEF BrowseInv, PoolOK
<1>4. UptoWell(echo, Rendered(echo), total)
  BY <1>3, RenderedOK
<1> DEFINE texts == Rendered(echo)
           jobs == Jobs(texts)
<1> HIDE DEF texts
<1>5. UptoWell(echo, texts, total) /\ result' = Result(texts)
  BY <1>2, <1>4 DEF texts
<1>6. /\ texts \in Seq(SUBSET (1..N)) /\ Len(texts) \in Nat /\ Len(texts) <= total
      /\ \A i \in 1..Len(texts) : \E a \in 1..N : texts[i] = {a}
      /\ total <= N /\ Len(texts) = total => \A i \in 1..total : texts[i] = {i}
      /\ \A i, j \in 1..Len(texts) :
           i < j => \/ \A a \in texts[i], b \in texts[j] : a < b
                    \/ texts[j] = {1} /\ total > N
  <2>1. /\ texts \in Seq(SUBSET (1..N)) /\ Len(texts) <= total
        /\ \A i \in 1..Len(texts) : \E a \in 1..N : texts[i] = {a}
    BY <1>5 DEF UptoWell
  <2>2. Len(texts) \in Nat
    BY <2>1
  <2>3. total <= N /\ Len(texts) = total => \A i \in 1..total : texts[i] = {i}
    BY <1>5 DEF UptoWell
  <2>4. \A i, j \in 1..Len(texts) :
           i < j => \/ \A a \in texts[i], b \in texts[j] : a < b
                    \/ texts[j] = {1} /\ total > N
    BY <1>5 DEF UptoWell
  <2> QED
    BY <2>1, <2>2, <2>3, <2>4
<1>7. DOMAIN texts = 1..Len(texts)
  BY <1>6
<1> HIDE DEF jobs
<1>8. /\ result'.status = "ok" /\ result'.texts = texts /\ result'.jobs = jobs
      /\ result'.end = IF board.declared /\ total = N THEN "finite_page_range_exhausted" ELSE "none"
  BY <1>5 DEF jobs
<1>9. ~result'.cut => ~ (board.declared /\ N > Len(texts))
  BY <1>5
<1> HIDE DEF Result, N
<1>10. PoolOK'
  BY <1>1, PoolCloses DEF BrowseInv
<1>11. WallWins'
  <2>1. \A p \in AllPages : fetched[p] # "wall"
    BY <1>1, WallIsOutcome DEF BrowseInv
  <2> QED
    BY <1>1, <2>1 DEF WallWins
<1>12. CapturedInOrder'
  <2>1. ASSUME NEW i \in 1..Len(texts), NEW j \in 1..Len(texts), i < j
        PROVE  Max(texts[i]) < Max(texts[j]) \/ (texts[j] = {1} /\ total > N)
    <3>1. PICK a \in 1..N : texts[i] = {a}
      BY <1>6
    <3>2. PICK b \in 1..N : texts[j] = {b}
      BY <1>6
    <3>3. a \in Nat /\ b \in Nat
      BY <1>3
    <3>4. Max(texts[i]) = a /\ Max(texts[j]) = b
      BY <3>1, <3>2, <3>3, MaxOfOne
    <3>5. a < b \/ (texts[j] = {1} /\ total > N)
      BY <1>6, <2>1, <3>1, <3>2
    <3> QED
      BY <3>4, <3>5
  <2>2. \A i, j \in DOMAIN texts :
          i < j => Max(texts[i]) < Max(texts[j]) \/ (texts[j] = {1} /\ total > N)
    BY <1>7, <2>1
  <2>3. result'.texts = texts /\ total' = total /\ board'.size = N
    BY <1>1, <1>8 DEF N
  <2> QED
    BY <2>2, <2>3, Zenon DEF CapturedInOrder
<1>13. GateIsSound'
  <2>1. ASSUME Verified(result') PROVE result'.jobs = 1..N
    <3>1. result'.end # "none" /\ ~result'.cut
      BY <2>1 DEF Verified
    <3>2. board.declared /\ total = N
      BY <1>8, <3>1
    <3>3. Len(texts) = N
      <4>1. ~ (N > Len(texts))
        BY <1>9, <3>1, <3>2
      <4> QED
        BY <1>3, <1>6, <3>2, <4>1
    <3>4. \A i \in 1..N : texts[i] = {i}
      BY <1>3, <1>6, <3>2, <3>3
    <3>5. ToSet(texts) = {texts[i] : i \in 1..N}
      BY <1>7, <3>3, Zenon DEF ToSet
    <3>6. UNION {texts[i] : i \in 1..N} = 1..N
      BY <3>4
    <3> QED
      BY <1>8, <3>5, <3>6 DEF Jobs, jobs
  <2>2. board'.size = N
    BY <1>1 DEF N
  <2> QED
    BY <2>1, <2>2, Zenon DEF GateIsSound, Verified
<1>14. TabTyped' /\ TabTells'
  BY <1>1 DEF BrowseInv, TabTyped, TabTells
<1> QED
  BY <1>1, <1>10, <1>11, <1>12, <1>13, <1>14 DEF BrowseInv

\* The page is opened again, in a new tab.
LEMMA ReopenOK == BrowseInv /\ Reopen => BrowseInv'
<1> SUFFICES ASSUME BrowseInv, Reopen PROVE BrowseInv'
  OBVIOUS
<1>1. stage = "reopen" /\ UNCHANGED <<board, mode, total, pool, missed>>
  BY DEF Reopen
<1>2. CASE Halt("error", "")
  BY <1>1, <1>2, HaltOK
<1> DEFINE t == Show(NewTab, 1)
           n == [t EXCEPT !.texts = <<Text(t)>>]
<1>3. CASE /\ tab' = [t EXCEPT !.texts = <<Text(t)>>, !.path = "click_fallback_fetch_error"]
           /\ stage' = "paging" /\ UNCHANGED result
  <2>1. t \in Tabs(board.size) /\ t.at = 1 /\ ~t.filtered /\ board \in Boards
    BY TabKnown, NewTabOK, ShowOK
  <2> HIDE DEF t
  <2>2. n \in Tabs(board.size) /\ n.at = 1 /\ ~n.filtered /\ 1 \in Jobs(n.texts) /\ Jobs(n.texts) = 1..1
    BY <2>1, FirstText
  <2>3. tab' = [n EXCEPT !.path = "click_fallback_fetch_error"]
    BY <1>3
  <2> HIDE DEF n
  <2>4. tab' \in Tabs(board.size) /\ tab'.at = n.at /\ tab'.filtered = n.filtered /\ tab'.texts = n.texts
    BY <2>2, <2>3 DEF Tabs, Paths
  <2>5. TabTells'
    BY <1>3, <2>2, <2>4 DEF TabTells
  <2> QED
    BY <1>1, <1>3, <2>4, <2>5, GoesOn
<1> QED
  BY <1>2, <1>3, Zenon DEF Reopen

----------------------------------------------------------------------------
(* Clicking, cards and searches.                                           *)

\* A walk ends: what was walked shows the list if it came to its last page.
LEMMA WalkedOK ==
  ASSUME BrowseInv, stage = "paging", NEW end, NEW cut, Walked(end, cut),
         UNCHANGED <<board, total, pool>>,
         end # "none" /\ missed' = {} => missed = {} /\ tab.at = board.size
  PROVE  BrowseInv'
<1> DEFINE list == IF Listed THEN 0 ELSE Listing
           jobs == Jobs(tab.texts)
<1>1. /\ stage' = "done" /\ tab' = tab
      /\ result' = [status |-> "ok", path |-> tab.path, end |-> end, jobs |-> jobs,
                    texts |-> tab.texts, listing |-> list, files |-> TRUE, cut |-> cut]
  BY DEF Walked, Finish
<1> HIDE DEF list, jobs
<1>2. result'.path = tab.path /\ result'.end = end /\ result'.jobs = jobs
  BY <1>1
<1>3. tab \in Tabs(board.size) /\ tab.path # "parallel" /\ TabTells
  BY TabKnown
<1>4. Verified(result') => end # "none"
  BY <1>2 DEF Verified
<1>5. Verified(result') /\ missed' = {} =>
           \/ result'.jobs = 1..board.size
           \/ result'.path = "click_fallback_no_detect" /\ board.size \in result'.jobs
  BY <1>2, <1>3, <1>4 DEF TabTells, jobs
<1> QED
  BY <1>1, <1>2, <1>3, <1>5, EndsHere

\* The walk ends at its limit of pages.
LEMMA PagingCutOK == BrowseInv /\ PagingCut => BrowseInv'
<1> SUFFICES ASSUME BrowseInv, PagingCut PROVE BrowseInv'
  OBVIOUS
<1>1. stage = "paging" /\ Walked("none", TRUE) /\ UNCHANGED <<board, total, pool>>
  BY DEF PagingCut
<1> QED
  BY <1>1, WalkedOK

\* Without a control the last page is shown, if the list is.
LEMMA PagingEndsOK == BrowseInv /\ PagingEnds => BrowseInv'
<1> SUFFICES ASSUME BrowseInv, PagingEnds PROVE BrowseInv'
  OBVIOUS
<1>1. stage = "paging" /\ Walked("next_control_absent", FALSE) /\ ~NextControl(tab)
      /\ UNCHANGED <<board, total, pool, missed>>
  BY DEF PagingEnds, Paging
<1>2. /\ board \in Boards /\ board.size \in Nat /\ tab.at \in 1..board.size /\ TabTells
  BY TabKnown
<1>3. missed = {} => ~tab.filtered
  BY <1>1, <1>2 DEF TabTells
<1>4. board.pager = "none" => board.size = 1
  BY <1>2, BoardOK
<1>5. ~tab.filtered => tab.at = board.size
  BY <1>1, <1>2, <1>4 DEF NextControl
<1> QED
  BY <1>1, <1>3, <1>5, WalkedOK

\* The walk ends as turning a page raises.
LEMMA PagingRaisesOK == BrowseInv /\ PagingRaises => BrowseInv'
<1> SUFFICES ASSUME BrowseInv, PagingRaises PROVE BrowseInv'
  OBVIOUS
<1>1. stage = "paging" /\ Walked("none", FALSE) /\ UNCHANGED <<board, total, pool>>
  BY DEF PagingRaises, Paging
<1> QED
  BY <1>1, WalkedOK

\* The walk ends at a page it has seen.
LEMMA PagingRepeatsOK == BrowseInv /\ PagingRepeats => BrowseInv'
<1> SUFFICES ASSUME BrowseInv, PagingRepeats PROVE BrowseInv'
  OBVIOUS
<1>1. /\ stage = "paging" /\ Walked("page_content_repeated", FALSE)
      /\ missed' = IF Turns(tab) THEN missed \cup {"click"} ELSE missed
      /\ UNCHANGED <<board, total, pool>>
  BY DEF PagingRepeats, Paging
<1>2. board.size \in Nat /\ tab.at \in 1..board.size
  BY TabKnown
<1>3. missed' = {} => missed = {} /\ tab.at = board.size
  BY <1>1, <1>2 DEF Turns
<1> QED
  BY <1>1, <1>3, WalkedOK

\* The walk takes one page more.
LEMMA PagingTurnsOK == BrowseInv /\ PagingTurns => BrowseInv'
<1> SUFFICES ASSUME BrowseInv, PagingTurns PROVE BrowseInv'
  OBVIOUS
<1>1. /\ stage = "paging" /\ Turns(tab) /\ tab' = Turned(tab)
      /\ UNCHANGED <<board, mode, stage, total, pool, result, missed>>
  BY DEF PagingTurns, Paging
<1>2. board \in Boards /\ tab \in Tabs(board.size) /\ TabTells
  BY TabKnown
<1>3. /\ tab' \in Tabs(board.size)
      /\ tab'.at = tab.at + 1 /\ tab'.filtered = tab.filtered
      /\ tab'.path = tab.path
      /\ ~tab.filtered => /\ tab.at + 1 \in Jobs(tab'.texts)
                          /\ Jobs(tab.texts) = 1..tab.at => Jobs(tab'.texts) = 1..tab.at + 1
  BY <1>1, <1>2, TurnedOK
<1>4. TabTells'
  <2>1. missed = {} => /\ ~tab.filtered
                       /\ tab.path # "click_fallback_no_detect" => Jobs(tab.texts) = 1..tab.at
    BY <1>1, <1>2 DEF TabTells
  <2>2. missed' = {} => /\ ~tab'.filtered
                        /\ tab'.at \in Jobs(tab'.texts)
                        /\ tab'.path # "click_fallback_no_detect" => Jobs(tab'.texts) = 1..tab'.at
    BY <1>1, <1>3, <2>1
  <2> QED
    BY <1>1, <2>2, Zenon DEF TabTells
<1> QED
  BY <1>1, <1>3, <1>4, GoesOn

\* The records are those of every page.
LEMMA RecordsCompleteOK == BrowseInv /\ RecordsComplete => BrowseInv'
<1> SUFFICES ASSUME BrowseInv, RecordsComplete PROVE BrowseInv'
  OBVIOUS
<1> DEFINE path == IF mode = "parallel" THEN "interact_fallback_no_detect" ELSE ""
<1>1. /\ stage = "record" /\ tab.seen = 1..board.size /\ stage' = "done" /\ tab' = tab
      /\ UNCHANGED <<board, mode, total, pool, missed>>
      /\ result' = [status |-> "ok", path |-> path, end |-> "public_json_pages_exhausted",
                    jobs |-> tab.seen, texts |-> tab.texts, listing |-> board.size,
                    files |-> TRUE, cut |-> FALSE]
  BY DEF RecordsComplete, Finish
<1>2. path # "parallel"
  OBVIOUS
<1> HIDE DEF path
<1>3. result'.path = path /\ result'.jobs = 1..board.size
  BY <1>1
<1>4. tab' \in Tabs(board.size)
  BY <1>1, TabKnown
<1> QED
  BY <1>1, <1>2, <1>3, <1>4, EndsHere

\* A page is turned before the cards of a page are opened, or after.
LEMMA TurnsBeforeCards ==
  ASSUME BrowseInv, stage \in {"record", "turn"}, stage' \in {"record", "cards"},
         Turns(tab), tab' = Turned(tab), UNCHANGED <<board, total, pool, result, missed>>
  PROVE  BrowseInv'
<1>1. board \in Boards /\ tab \in Tabs(board.size) /\ ~tab.filtered
  BY TabKnown DEF TabTells
<1>2. tab' \in Tabs(board.size) /\ ~tab'.filtered
  BY <1>1, TurnedOK
<1>3. TabTells'
  BY <1>2 DEF TabTells
<1> QED
  BY <1>2, <1>3, GoesOn

\* The records of a page are read and the next is shown.
LEMMA RecordsTurnOK == BrowseInv /\ RecordsTurn => BrowseInv'
<1> SUFFICES ASSUME BrowseInv, RecordsTurn PROVE BrowseInv'
  OBVIOUS
<1>1. /\ stage = "record" /\ Turns(tab) /\ tab' = Turned(tab)
      /\ UNCHANGED <<board, mode, stage, total, pool, result, missed>>
  BY DEF RecordsTurn
<1> QED
  BY <1>1, TurnsBeforeCards

\* The next page is shown for its cards.
LEMMA CardsTurnOK == BrowseInv /\ CardsTurn => BrowseInv'
<1> SUFFICES ASSUME BrowseInv, CardsTurn PROVE BrowseInv'
  OBVIOUS
<1>1. /\ stage = "turn" /\ stage' = "cards" /\ Turns(tab) /\ tab' = Turned(tab)
      /\ UNCHANGED <<board, mode, total, pool, result, missed>>
  BY DEF CardsTurn
<1> QED
  BY <1>1, TurnsBeforeCards

\* The tab is left as it is.
LEMMA TabRests ==
  ASSUME BrowseInv, stage \in {"record", "turn"}, stage' \in {"first", "read"},
         UNCHANGED <<board, tab, total, pool, result, missed>>
  PROVE  BrowseInv'
<1>1. tab' = tab /\ tab \in Tabs(board.size) /\ ~tab.filtered
  BY TabKnown DEF TabTells
<1>2. TabTells'
  BY <1>1 DEF TabTells
<1> QED
  BY <1>1, <1>2, GoesOn

\* The records do not show the whole list.
LEMMA RecordsEndOK == BrowseInv /\ RecordsEnd => BrowseInv'
<1> SUFFICES ASSUME BrowseInv, RecordsEnd PROVE BrowseInv'
  OBVIOUS
<1>1. /\ stage = "record" /\ stage' = "first"
      /\ UNCHANGED <<board, mode, tab, total, pool, result, missed>>
  BY DEF RecordsEnd
<1> QED
  BY <1>1, TabRests

\* No page is left to be shown for its cards.
LEMMA CardsEndOK == BrowseInv /\ CardsEnd => BrowseInv'
<1> SUFFICES ASSUME BrowseInv, CardsEnd PROVE BrowseInv'
  OBVIOUS
<1>1. /\ stage = "turn" /\ stage' = "read"
      /\ UNCHANGED <<board, mode, tab, total, pool, result, missed>>
  BY DEF CardsEnd
<1> QED
  BY <1>1, TabRests

\* Some pages of the list are finitely many.
LEMMA PagesAreFinite ==
  ASSUME NEW n \in Nat, NEW S \in SUBSET (1..n)
  PROVE  IsFiniteSet(S) /\ Cardinality(S) \in Nat /\ (Cardinality(S) = n => S = 1..n)
<1>1. IsFiniteSet(1..n) /\ Cardinality(1..n) = n
  BY FS_Interval
<1>2. IsFiniteSet(S) /\ (Cardinality(S) = Cardinality(1..n) => S = 1..n)
  BY <1>1, FS_Subset
<1>3. Cardinality(S) \in Nat
  BY <1>2, FS_CardinalityType
<1> QED
  BY <1>1, <1>2, <1>3

\* The cards of a page are opened.
LEMMA OpenCardsOK == BrowseInv /\ OpenCards => BrowseInv'
<1> SUFFICES ASSUME BrowseInv, OpenCards PROVE BrowseInv'
  OBVIOUS
<1> DEFINE cards == FirstOf(Visible, MaxCards - tab.found)
           n == board.size
<1>1. /\ stage \in {"first", "cards"} /\ stage' \in {"read", "turn"}
      /\ UNCHANGED <<board, mode, total, pool, result, missed>>
  BY DEF OpenCards
<1>2. PICK open \in IF Raises THEN SUBSET cards ELSE {cards} :
        tab' = [tab EXCEPT !.found = @ + Cardinality(cards),
                           !.clicked = @ + Cardinality(open),
                           !.opened = @ \cup open]
  BY Zenon DEF OpenCards
<1>3. board \in Boards /\ n \in Nat /\ tab \in Tabs(n) /\ ~tab.filtered
  BY <1>1, TabKnown DEF TabTells
<1>4. cards \in SUBSET (1..n)
  <2>1. Visible \in SUBSET (1..n)
    BY <1>3, TextOK DEF Visible
  <2> QED
    BY <2>1 DEF FirstOf
<1>5. open \in SUBSET (1..n)
  <2> HIDE DEF cards, n
  <2> QED
    BY <1>4
<1> DEFINE f == tab.found + Cardinality(cards)
           c == tab.clicked + Cardinality(open)
           o == tab.opened \cup open
<1> HIDE DEF cards, n
<1>6. Cardinality(cards) \in Nat /\ Cardinality(open) \in Nat
  BY <1>3, <1>4, <1>5, PagesAreFinite
<1>7. f \in Nat /\ c \in Nat /\ o \in SUBSET (1..n)
  <2>1. tab.found \in Nat /\ tab.clicked \in Nat /\ tab.opened \in SUBSET (1..n)
    BY <1>3 DEF Tabs
  <2>2. f \in Nat /\ c \in Nat
    BY <1>6, <2>1
  <2>3. o \in SUBSET (1..n)
    BY <1>5, <2>1
  <2> QED
    BY <2>2, <2>3
<1>8. tab' = [tab EXCEPT !.found = f, !.clicked = c, !.opened = o]
  BY <1>2
<1> HIDE DEF f, c, o
<1>9. tab' \in Tabs(n) /\ tab'.filtered = tab.filtered
  BY <1>3, <1>7, <1>8 DEF Tabs
<1>10. TabTells'
  BY <1>1, <1>3, <1>9 DEF TabTells
<1> QED
  BY <1>1, <1>9, <1>10, GoesOn DEF n

\* The cards were read: the capture ends or goes on with the list.
LEMMA CardsReadOK == BrowseInv /\ CardsRead => BrowseInv'
<1> SUFFICES ASSUME BrowseInv, CardsRead PROVE BrowseInv'
  OBVIOUS
<1>1. stage = "read" /\ UNCHANGED <<board, mode, total, pool, missed>>
  BY DEF CardsRead
<1>2. board \in Boards /\ tab \in Tabs(board.size) /\ ~tab.filtered /\ board.size \in Nat \ {0}
      /\ tab.opened \in SUBSET (1..board.size)
  BY <1>1, TabKnown DEF TabTells
<1> DEFINE path == IF mode = "parallel" THEN "interact_fallback_no_detect" ELSE ""
           end == IF DetailComplete THEN "detail_links_exhausted" ELSE "none"
<1>3. CASE /\ stage' = "paging"
           /\ tab' = [tab EXCEPT !.texts = <<Text(tab)>>, !.path = "click_fallback_no_detect"]
           /\ UNCHANGED result
  <2> DEFINE m == [tab EXCEPT !.texts = <<Text(tab)>>]
  <2>1. m \in Tabs(board.size) /\ m.at = tab.at /\ ~m.filtered /\ tab.at \in Jobs(m.texts)
    BY <1>2, FirstText
  <2>2. tab' = [m EXCEPT !.path = "click_fallback_no_detect"]
    BY <1>3
  <2> HIDE DEF m
  <2>3. /\ tab' \in Tabs(board.size) /\ tab'.at = m.at /\ tab'.filtered = m.filtered
        /\ tab'.texts = m.texts /\ tab'.path = "click_fallback_no_detect"
    BY <2>1, <2>2 DEF Tabs, Paths
  <2>4. TabTells'
    BY <1>3, <2>1, <2>3 DEF TabTells
  <2> QED
    BY <1>1, <1>3, <2>3, <2>4, GoesOn
<1>4. CASE Finish("ok", "", tab, "none", {}, tab.texts, 0, FALSE, FALSE)
  <2>1. stage' = "done" /\ tab' = tab /\ result'.path # "parallel" /\ result'.end = "none"
    BY <1>4 DEF Finish
  <2>2. ~Verified(result')
    BY <2>1 DEF Verified
  <2> QED
    BY <1>1, <1>2, <2>1, <2>2, EndsHere
<1>5. CASE Finish("ok", path, tab, end, tab.opened, tab.texts, Listing, TRUE, FALSE)
  <2>1. /\ stage' = "done" /\ tab' = tab
        /\ result' = [status |-> "ok", path |-> path, end |-> end, jobs |-> tab.opened,
                      texts |-> tab.texts, listing |-> Listing, files |-> TRUE, cut |-> FALSE]
    BY <1>5 DEF Finish
  <2>2. path # "parallel" /\ (end # "none" => board.counted)
    BY DEF DetailComplete
  <2> HIDE DEF path, end
  <2>3. /\ result'.path = path /\ result'.end = end /\ result'.jobs = tab.opened
        /\ result'.listing = Listing
    BY <2>1
  <2>4. ASSUME Verified(result') PROVE result'.jobs = 1..board.size
    <3>1. end # "none" /\ (Listing # 0 => Cardinality(tab.opened) = Listing)
      BY <2>3, <2>4 DEF Verified
    <3>2. Listing = board.size
      BY <2>2, <3>1 DEF Listing
    <3>3. Cardinality(tab.opened) = board.size
      BY <1>2, <3>1, <3>2
    <3> QED
      BY <1>2, <2>3, <3>3, PagesAreFinite
  <2> QED
    BY <1>1, <1>2, <2>1, <2>2, <2>3, <2>4, EndsHere
<1> QED
  BY <1>3, <1>4, <1>5, Zenon DEF CardsRead

\* The whole list is walked instead of a search.
LEMMA ListInstead ==
  ASSUME BrowseInv, stage = "search", stage' = "paging",
         NEW t \in Tabs(board.size), tab' = [t EXCEPT !.texts = <<Text(t)>>],
         missed' = {} => t.at = 1 /\ ~t.filtered,
         UNCHANGED <<board, total, pool, result>>, missed' = {} => missed = {}
  PROVE  BrowseInv'
<1>1. /\ tab' \in Tabs(board.size)
      /\ tab'.at = t.at /\ tab'.filtered = t.filtered
      /\ ~t.filtered => t.at \in Jobs(tab'.texts) /\ (t.at = 1 => Jobs(tab'.texts) = 1..t.at)
  BY TabKnown, FirstText
<1>2. TabTells'
  <2>1. missed' = {} => /\ ~tab'.filtered
                        /\ tab'.at \in Jobs(tab'.texts) /\ Jobs(tab'.texts) = 1..tab'.at
    BY <1>1
  <2> QED
    BY <2>1, Zenon DEF TabTells
<1> QED
  BY <1>1, <1>2, GoesOn

\* The page has no field to search in.
LEMMA SearchMissingOK == BrowseInv /\ SearchMissing => BrowseInv'
<1> SUFFICES ASSUME BrowseInv, SearchMissing PROVE BrowseInv'
  OBVIOUS
<1>1. stage = "search" /\ tab.terms = 0 /\ UNCHANGED <<board, mode, total, pool, missed>>
  BY DEF SearchMissing
<1>2. tab \in Tabs(board.size) /\ tab.at = 1 /\ ~tab.filtered
  BY <1>1, TabKnown DEF TabTells
<1>3. CASE Halt("empty", "")
  BY <1>1, <1>3, HaltOK
<1>4. CASE /\ tab' = [tab EXCEPT !.texts = <<Text(tab)>>, !.path = "list_fallback"]
           /\ stage' = "paging" /\ UNCHANGED result
  <2> DEFINE t == [tab EXCEPT !.path = "list_fallback"]
  <2>1. t \in Tabs(board.size) /\ t.at = 1 /\ ~t.filtered
    BY <1>2 DEF Tabs, Paths
  <2>2. Text(t) = Text(tab)
    BY <1>2, <2>1 DEF Text
  <2>3. tab' = [t EXCEPT !.texts = <<Text(t)>>]
    BY <1>2, <1>4, <2>2 DEF Tabs
  <2> HIDE DEF t
  <2> QED
    BY <1>1, <1>4, <2>1, <2>3, ListInstead
<1> QED
  BY <1>3, <1>4, Zenon DEF SearchMissing

\* A term is searched for.
LEMMA SearchTermOK == BrowseInv /\ SearchTerm => BrowseInv'
<1> SUFFICES ASSUME BrowseInv, SearchTerm PROVE BrowseInv'
  OBVIOUS
<1>1. stage = "search" /\ UNCHANGED <<board, mode, stage, total, pool, result, missed>>
  BY DEF SearchTerm
<1>2. tab \in Tabs(board.size) /\ tab.at = 1
  BY <1>1, TabKnown DEF TabTells
<1> DEFINE k == tab.terms + 1
           s == Append(tab.texts, {})
<1>3. k \in Nat /\ k # 0 /\ s \in Seq(SUBSET (1..board.size))
  BY <1>2 DEF Tabs
<1>4. \/ tab' = [tab EXCEPT !.terms = k]
      \/ tab' = [tab EXCEPT !.terms = k, !.filtered = TRUE]
      \/ tab' = [tab EXCEPT !.terms = k, !.filtered = TRUE, !.texts = s]
  BY DEF SearchTerm
<1> HIDE DEF k, s
<1>5. tab' \in Tabs(board.size) /\ tab'.at = 1 /\ tab'.terms = k
  <2> DEFINE t == [tab EXCEPT !.terms = k]
             u == [t EXCEPT !.filtered = TRUE]
  <2>1. t \in Tabs(board.size) /\ t.at = 1 /\ t.terms = k
    BY <1>2, <1>3 DEF Tabs
  <2>2. u = [tab EXCEPT !.terms = k, !.filtered = TRUE]
    BY <1>2 DEF Tabs
  <2>3. [u EXCEPT !.texts = s] = [tab EXCEPT !.terms = k, !.filtered = TRUE, !.texts = s]
    BY <1>2 DEF Tabs
  <2> HIDE DEF t
  <2>4. u \in Tabs(board.size) /\ u.at = 1 /\ u.terms = k
    BY <2>1 DEF Tabs
  <2> HIDE DEF u
  <2>5. LET v == [u EXCEPT !.texts = s]
        IN  v \in Tabs(board.size) /\ v.at = 1 /\ v.terms = k
    BY <1>3, <2>4 DEF Tabs
  <2> QED
    BY <1>4, <2>1, <2>2, <2>3, <2>4, <2>5 DEF t
<1>6. TabTells'
  BY <1>1, <1>3, <1>5 DEF TabTells
<1> QED
  BY <1>1, <1>5, <1>6, GoesOn

\* The terms were searched for: what was found is the capture.
LEMMA SearchEndsOK == BrowseInv /\ SearchEnds => BrowseInv'
<1> SUFFICES ASSUME BrowseInv, SearchEnds PROVE BrowseInv'
  OBVIOUS
<1>1. /\ stage = "search" /\ UNCHANGED <<board, mode, total, pool, missed>>
      /\ stage' = "done" /\ tab' = tab /\ result'.path # "parallel" /\ result'.end = "none"
  BY DEF SearchEnds, Finish
<1>2. ~Verified(result')
  BY <1>1 DEF Verified
<1>3. tab' \in Tabs(board.size)
  BY <1>1, TabKnown
<1> QED
  BY <1>1, <1>2, <1>3, EndsHere

\* The search raises.
LEMMA SearchFailsOK == BrowseInv /\ SearchFails => BrowseInv'
<1> SUFFICES ASSUME BrowseInv, SearchFails PROVE BrowseInv'
  OBVIOUS
<1>1. stage = "search" /\ UNCHANGED <<board, mode, total, pool>>
  BY DEF SearchFails
<1>2. board \in Boards /\ tab \in Tabs(board.size) /\ 1 \in 1..board.size
  BY TabKnown
<1> DEFINE t == [Show(tab, 1) EXCEPT !.filtered = FALSE, !.path = "list_fallback"]
           u == [tab EXCEPT !.path = "list_fallback"]
<1>3. CASE Halt("empty", "") /\ UNCHANGED missed
  BY <1>1, <1>3, HaltOK
<1>4. CASE stage' = "paging" /\ tab' = [t EXCEPT !.texts = <<Text(t)>>] /\ UNCHANGED <<missed, result>>
  <2>1. Show(tab, 1) \in Tabs(board.size) /\ Show(tab, 1).at = 1
    BY <1>2, ShowOK
  <2>2. t \in Tabs(board.size) /\ t.at = 1 /\ ~t.filtered
    <3> DEFINE x == Show(tab, 1)
    <3>1. x \in Tabs(board.size) /\ x.at = 1
      BY <2>1
    <3> HIDE DEF x
    <3>2. /\ [x EXCEPT !.filtered = FALSE, !.path = "list_fallback"] \in Tabs(board.size)
          /\ [x EXCEPT !.filtered = FALSE, !.path = "list_fallback"].at = 1
          /\ ~[x EXCEPT !.filtered = FALSE, !.path = "list_fallback"].filtered
      BY <3>1 DEF Tabs, Paths
    <3> QED
      BY <3>2 DEF x
  <2> HIDE DEF t
  <2> QED
    BY <1>1, <1>4, <2>2, ListInstead
<1>5. CASE /\ stage' = "paging" /\ tab' = [tab EXCEPT !.texts = <<Text(tab)>>, !.path = "list_fallback"]
           /\ missed' = missed \cup {"return"} /\ UNCHANGED result
  <2>1. u \in Tabs(board.size)
    BY <1>2 DEF Tabs, Paths
  <2>2. Text(u) = Text(tab)
    BY <1>2 DEF Text, Tabs
  <2>3. tab' = [u EXCEPT !.texts = <<Text(u)>>]
    BY <1>2, <1>5, <2>2 DEF Tabs
  <2> HIDE DEF u
  <2>4. missed' # {}
    BY <1>5
  <2> QED
    BY <1>1, <1>5, <2>1, <2>3, <2>4, ListInstead
<1> QED
  BY <1>3, <1>4, <1>5, Zenon DEF SearchFails

\* A stuttering step.
LEMMA BrowseStutters == BrowseInv /\ UNCHANGED browseVars => BrowseInv'
<1> SUFFICES ASSUME BrowseInv, UNCHANGED browseVars PROVE BrowseInv'
  OBVIOUS
<1>1. UNCHANGED <<board, mode, stage, tab, total, fetched, attempts, worker, result, missed>>
  BY DEF browseVars, pool
<1>2. TabTyped' /\ TabTells'
  BY <1>1 DEF BrowseInv, TabTyped, TabTells
<1>3. PoolOK'
  BY <1>1 DEF BrowseInv, PoolOK
<1>4. WallWins'
  BY <1>1 DEF BrowseInv, WallWins
<1>5. CapturedInOrder' /\ GateIsSound'
  BY <1>1, ResultStays DEF BrowseInv
<1> QED
  BY <1>1, <1>2, <1>3, <1>4, <1>5 DEF BrowseInv

\* The invariant holds at first.
LEMMA BrowseStarts == BrowseInit => BrowseInv
<1> SUFFICES ASSUME BrowseInit PROVE BrowseInv
  OBVIOUS
<1>1. board \in Boards /\ tab = NewTab /\ stage = "load" /\ result = NoResult
  BY DEF BrowseInit
<1>2. TabTyped /\ TabTells
  BY <1>1, NewTabOK DEF TabTyped, TabTells
<1>3. PoolOK
  <2>1. worker = [w \in Workers |-> [state |-> "off", page |-> 0]]
    BY DEF BrowseInit, WorkerOff, Worker
  <2>2. total \in 0..PageLimit
    BY DEF BrowseInit
  <2> QED
    BY <2>1, <2>2 DEF PoolOK, BrowseInit
<1>4. WallWins
  BY DEF WallWins, BrowseInit
<1>5. CapturedInOrder /\ GateIsSound
  BY <1>1 DEF CapturedInOrder, GateIsSound
<1> QED
  BY <1>1, <1>2, <1>3, <1>4, <1>5 DEF BrowseInv

----------------------------------------------------------------------------
(* Theorems about a capture.                                               *)

\* The invariant of an invocation of browse.py in any mode.
THEOREM Browses == BrowseSpec => []BrowseInv
<1>1. BrowseInv /\ [BrowseNext]_browseVars => BrowseInv'
  <2> SUFFICES ASSUME BrowseInv, [BrowseNext]_browseVars PROVE BrowseInv'
    OBVIOUS
  <2>1. CASE UNCHANGED browseVars
    BY <2>1, BrowseStutters
  <2>2. CASE BrowseNext
    <3>1. CASE \E w \in Workers : WorkerStarts(w) \/ WorkerFails(w) \/ Takes(w) \/ FetchEnds(w)
      BY <3>1, WorkerStartsOK, WorkerFailsOK, TakesOK, FetchEndsOK, Zenon
    <3>2. CASE ~ (\E w \in Workers : WorkerStarts(w) \/ WorkerFails(w) \/ Takes(w) \/ FetchEnds(w))
      BY <2>2, <3>2, LoadOK, LoadFailsOK, ProbeFindsNothingOK, ProbeRaisesOK,
         ProbeStaysOnUrlOK, ProbeReadsUrlOK, PoolBlockedOK, PoolFailedOK, PoolGatheredOK,
         ReopenOK, PagingCutOK, PagingEndsOK, PagingRaisesOK, PagingRepeatsOK, PagingTurnsOK,
         RecordsCompleteOK, RecordsTurnOK, RecordsEndOK, OpenCardsOK, CardsTurnOK, CardsEndOK,
         CardsReadOK, SearchMissingOK, SearchTermOK, SearchEndsOK, SearchFailsOK,
         BrowseStutters, Zenon DEF BrowseNext, Done
    <3> QED
      BY <3>1, <3>2
  <2> QED
    BY <2>1, <2>2
<1> QED
  BY <1>1, BrowseStarts, PTL DEF BrowseSpec

\* A wall in any page of the pool ends the invocation blocked.
THEOREM WallWinsAlways == BrowseSpec => []WallWins
<1>1. BrowseInv => WallWins
  BY DEF BrowseInv
<1> QED
  BY <1>1, Browses, PTL

\* The texts of a parallel capture are pages in the order of the list.
THEOREM CapturedInOrderAlways == BrowseSpec => []CapturedInOrder
<1>1. BrowseInv => CapturedInOrder
  BY DEF BrowseInv
<1> QED
  BY <1>1, Browses, PTL

\* What the gate passes is complete, but for what went unnoticed.
THEOREM GateIsSoundAlways == BrowseSpec => []GateIsSound
<1>1. BrowseInv => GateIsSound
  BY DEF BrowseInv
<1> QED
  BY <1>1, Browses, PTL
=============================================================================
