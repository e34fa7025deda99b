------------------------- MODULE SkillRuntimeProofs -------------------------
(***************************************************************************)
(* Proofs about the skill runtime of job discovery.                        *)
(*                                                                         *)
(* The fetch of a batch of public pages, for any number of threads, any    *)
(* batch and any site: nothing that was requested is missing from the      *)
(* answer, no failure in it is made up, and each item of the batch ends in *)
(* its own page or in an error; each step of a thread leaves less of its   *)
(* item, and only the thread that renders holds the browser.               *)
(*                                                                         *)
(* The recovery of a step the model stalled in, for any URLs, queries and  *)
(* budgets: it stops at a complete page, the searches of a pass are shared *)
(* by its steps and their recoveries, and no search of a recovery is       *)
(* refused as long as its queries differ; it cannot go round, and asks for *)
(* four batches at most.                                                   *)
(***************************************************************************)
EXTENDS PublicFetch, DiscoveryRecovery, SequenceTheorems, FiniteSetTheorems,
        WellFoundedInduction, TLAPS

----------------------------------------------------------------------------
(* The fetch of a batch.                                                   *)

USE FetchAssumption DEF FetchAssumption

\* What a thread holds.
Locals ==
  [phase : Phases, item : Items \cup {0}, stage : {"url", "index", "link"},
   page : Pages \cup {NoPage}, links : Seq(Pages), index : Nat, quality : Good,
   copy : SUBSET Domains, image : Nat]

Shape ==
  /\ next \in 1..(Len(Batch) + 1)
  /\ thread \in [Threads -> Locals]
  /\ blocked \subseteq Domains
  /\ found \in [Items -> SUBSET Pages]
  /\ error \in [Items -> Errors]
  /\ failures \subseteq Items \X Pages \X Errors
  /\ asked \in [Items -> SUBSET Pages]
  /\ gathered \in BOOLEAN

Busy(t) == thread[t].phase # "idle"

\* A domain is paused for a reason: a refusal that is a failure already, or an
\* item that was refused with its own URL.
Cause(d) ==
  \/ \E j \in Items, q \in Pages : <<j, q, "blocked">> \in failures /\ Site[q].domain = d
  \/ \E j \in Items : error[j] = "blocked" /\ Site[Batch[j]].domain = d

\* A thread is at the URL of its item until that has given a page; from then on
\* the item cannot fail.  What it waits for, renders or records was requested.
OnePage(t) ==
  LET r == thread[t] IN
  Busy(t) =>
    /\ r.item \in Items /\ r.item < next
    /\ r.page \in Pages
    /\ error[r.item] = NoError
    /\ IF r.stage = "url"
       THEN r.page = Batch[r.item] /\ asked[r.item] \subseteq {r.page} /\ found[r.item] = {}
       ELSE Batch[r.item] \in found[r.item]
    /\ r.phase \in {"image", "ocr"} => r.stage = "url" /\ r.image \in 1..Site[r.page].images
    /\ r.phase \notin {"check", "request"} => r.page \in asked[r.item]
    /\ r.phase = "record" => \A d \in r.copy : d = Site[r.page].domain \/ Cause(d)

\* Two threads never work on the same item.
Apart == \A t, u \in Threads : t # u /\ Busy(t) /\ Busy(u) => thread[t].item # thread[u].item

\* Where a page that was requested for an item has gone: it was captured, or it
\* failed, or a thread is at it, or it is the item's own and the item failed.
Known(i, p) ==
  \/ p \in found[i]
  \/ \E e \in Errors : <<i, p, e>> \in failures
  \/ \E t \in Threads : Busy(t) /\ thread[t].item = i /\ thread[t].page = p
  \/ p = Batch[i] /\ error[i] # NoError

Served(i) == \E t \in Threads : Busy(t) /\ thread[t].item = i

OneItem(i) ==
  /\ i >= next => asked[i] = {} /\ found[i] = {} /\ error[i] = NoError
  /\ error[i] # NoError => found[i] = {} /\ asked[i] \subseteq {Batch[i]}
  /\ error[i] \notin {NoError, "paused"} => Batch[i] \in asked[i]
  /\ error[i] = "paused" => Cause(Site[Batch[i]].domain)
  /\ i < next /\ error[i] = NoError /\ ~Served(i) => Batch[i] \in found[i]
  /\ gathered /\ error[i] # NoError => <<i, Batch[i], error[i]>> \in failures
  /\ \A p \in asked[i] : Known(i, p)

OneFailure(i, p, e) ==
  <<i, p, e>> \in failures =>
    IF e = "paused" THEN Cause(Site[p].domain) ELSE p \in asked[i]

Answer == gathered => next = Len(Batch) + 1 /\ \A t \in Threads : ~Busy(t)

IInv ==
  /\ Shape
  /\ \A t \in Threads : OnePage(t)
  /\ Apart
  /\ \A i \in Items : OneItem(i)
  /\ \A i \in Items, p \in Pages, e \in Errors : OneFailure(i, p, e)
  /\ \A d \in blocked : Cause(d)
  /\ Answer

----------------------------------------------------------------------------
(* The links that are followed.                                            *)

\* A set of numbers has a least one: what fails for some number fails for a
\* first one, which is how induction on the length of a sequence is done here.
LEMMA Least ==
  ASSUME NEW S \in SUBSET Nat, S # {}
  PROVE  \E x \in S : \A y \in S : x <= y
<1>1. PICK x \in S : \A y \in S : ~ (<<y, x>> \in OpToRel(<, Nat))
  BY WFMin, NatLessThanWellFounded
<1>2. \A y \in S : ~ (y < x)
  BY <1>1, Zenon DEF OpToRel
<1>3. \A y \in S : x <= y
  BY <1>2
<1> QED
  BY <1>3

\* One step of Collected: what is kept of the first n links of a page.
KeptOf(p, links, f, n) ==
  IF n = 0 THEN <<>>
  ELSE IF /\ Site[links[n]].domain \in Site[p].hosts
          /\ \A j \in 1..n - 1 : links[j] # links[n]
  THEN Append(f[n - 1], links[n])
  ELSE f[n - 1]

\* The function that Collected describes by recursion exists.
LEMMA KeptExists ==
  ASSUME NEW p, NEW links, NEW k \in Nat
  PROVE  \E f : f = [n \in 0..k |-> KeptOf(p, links, f, n)]
<1> DEFINE Ex(m) == \E f : f = [n \in 0..m |-> KeptOf(p, links, f, n)]
           None == {m \in Nat : ~Ex(m)}
<1> SUFFICES ASSUME None # {} PROVE FALSE
  BY Zenon
<1>1. PICK m \in None : \A y \in None : m <= y
  <2> HIDE DEF None
  <2>1. None \in SUBSET Nat
    BY DEF None
  <2> QED
    BY <2>1, Least
<1>2. Ex(0)
  <2> DEFINE f == [n \in 0..0 |-> <<>>]
  <2>1. f = [n \in 0..0 |-> KeptOf(p, links, f, n)]
    BY DEF KeptOf
  <2> QED
    BY <2>1
<1>3. m # 0
  BY <1>1, <1>2
<1>4. Ex(m - 1)
  <2>1. m - 1 \in Nat /\ ~ (m <= m - 1)
    BY <1>3
  <2>2. m - 1 \notin None
    <3> HIDE DEF None
    <3> QED
      BY <1>1, <2>1
  <2> QED
    BY <2>1, <2>2
<1>5. PICK f : f = [n \in 0..m - 1 |-> KeptOf(p, links, f, n)]
  BY <1>4
<1> DEFINE g == [n \in 0..m |-> IF n = m THEN KeptOf(p, links, f, m) ELSE f[n]]
<1>6. ASSUME NEW n \in 0..m PROVE g[n] = KeptOf(p, links, g, n)
  <2>1. n # 0 => n - 1 \in 0..m /\ n - 1 # m
    OBVIOUS
  <2>2. n # 0 => g[n - 1] = f[n - 1]
    BY <2>1
  <2>3. KeptOf(p, links, g, n) = KeptOf(p, links, f, n)
    <3> HIDE DEF g
    <3> QED
      BY <2>2 DEF KeptOf
  <2>4. n # m => n \in 0..m - 1
    OBVIOUS
  <2>5. n # m => f[n] = KeptOf(p, links, f, n)
    BY <1>5, <2>4
  <2> QED
    BY <2>3, <2>5
<1>7. g = [n \in 0..m |-> KeptOf(p, links, g, n)]
  <2>1. DOMAIN g = 0..m /\ g = [n \in 0..m |-> g[n]]
    OBVIOUS
  <2> HIDE DEF g
  <2> QED
    BY <1>6, <2>1
<1>8. Ex(m)
  <2> HIDE DEF g
  <2> QED
    BY <1>7
<1> QED
  BY <1>1, <1>8

\* What is behind a page.
LEMMA SiteOK ==
  ASSUME NEW p \in Pages
  PROVE  /\ Site[p].links \in Seq(Pages) /\ Site[p].indexes \in Seq(Pages)
         /\ Site[p].domain \in Domains /\ Site[p].images \in Nat
<1>1. Site[p] \in SiteType
  OBVIOUS
<1>2. /\ Site[p].links \in Seq(Pages) /\ Site[p].indexes \in Seq(Pages)
      /\ Site[p].domain \in Domains /\ Site[p].images \in Nat
  BY <1>1, Zenon DEF SiteType
<1> QED
  BY <1>2

\* What is kept of pages is pages.
LEMMA KeptOK ==
  ASSUME NEW p, NEW links \in Seq(Pages)
  PROVE  LET F == CHOOSE f : f = [n \in 0..Len(links) |-> KeptOf(p, links, f, n)]
         IN  F[Len(links)] \in Seq(Pages)
<1> DEFINE F == CHOOSE f : f = [n \in 0..Len(links) |-> KeptOf(p, links, f, n)]
           k == Len(links)
<1>1. k \in Nat
  OBVIOUS
<1>2. F = [n \in 0..k |-> KeptOf(p, links, F, n)]
  <2> HIDE DEF k
  <2>1. \E f : f = [n \in 0..k |-> KeptOf(p, links, f, n)]
    BY <1>1, KeptExists
  <2> QED
    BY <2>1
<1> HIDE DEF F
<1>3. \A n \in 0..Len(links) : F[n] = KeptOf(p, links, F, n)
  BY <1>2
<1> DEFINE Wrong == {n \in 0..Len(links) : F[n] \notin Seq(Pages)}
<1>4. Wrong = {}
  <2> SUFFICES ASSUME Wrong # {} PROVE FALSE
    OBVIOUS
  <2>1. PICK n \in Wrong : \A y \in Wrong : n <= y
    <3>1. Wrong \in SUBSET Nat
      BY <1>1
    <3> HIDE DEF Wrong
    <3> QED
      BY <3>1, Least
  <2>2. n \in 0..Len(links) /\ F[n] \notin Seq(Pages) /\ F[n] = KeptOf(p, links, F, n)
    BY <1>3, <2>1
  <2>3. n # 0
    <3>1. <<>> \in Seq(Pages)
      OBVIOUS
    <3> QED
      BY <2>2, <3>1 DEF KeptOf
  <2>4. n - 1 \in 0..Len(links) /\ n \in 1..Len(links) /\ ~ (n <= n - 1)
    BY <2>2, <2>3, <1>1
  <2>5. F[n - 1] \in Seq(Pages)
    <3>1. n - 1 \notin Wrong
      <4> HIDE DEF Wrong
      <4> QED
        BY <2>1, <2>4
    <3> QED
      BY <2>4, <3>1
  <2>6. links[n] \in Pages
    BY <2>4, ElementOfSeq
  <2>7. Append(F[n - 1], links[n]) \in Seq(Pages)
    BY <2>5, <2>6, AppendProperties
  <2> QED
    BY <2>2, <2>3, <2>5, <2>7 DEF KeptOf
<1>5. Len(links) \in 0..Len(links)
  BY <1>1
<1> QED
  BY <1>4, <1>5 DEF F

\* The links of a page that are collected are pages.
LEMMA CollectedOK ==
  ASSUME NEW p \in Pages
  PROVE  Collected(p) \in Seq(Pages)
<1> DEFINE links == Site[p].links
           F == CHOOSE f : f = [n \in 0..Len(links) |-> KeptOf(p, links, f, n)]
<1>1. links \in Seq(Pages)
  BY SiteOK
<1>2. Collected(p) = F[Len(links)]
  BY Zenon DEF Collected, KeptOf
<1>3. F[Len(links)] \in Seq(Pages)
  BY <1>1, KeptOK, Zenon
<1> HIDE DEF F, links
<1> QED
  BY <1>2, <1>3

\* So are those that are followed.
LEMMA ExpansionOK ==
  ASSUME NEW p \in Pages, NEW quality, NEW limit \in Nat
  PROVE  Expansion(p, quality, limit) \in Seq(Pages)
<1> DEFINE s == Collected(p)
           n == IF Len(s) < limit THEN Len(s) ELSE limit
<1>1. s \in Seq(Pages)
  BY CollectedOK
<1> HIDE DEF s
<1>2. n \in Int /\ \A k \in 1..n : s[k] \in Pages
  BY <1>1, ElementOfSeq
<1>3. SubSeq(s, 1, n) \in Seq(Pages)
  <2> HIDE DEF n
  <2> QED
    BY <1>2, SubSeqProperties
<1> QED
  BY <1>3 DEF Expansion, Prefix, s

----------------------------------------------------------------------------
(* The next page of a thread.                                              *)

\* A thread that has nothing to do.
LEMMA IdleOK == Idle \in Locals /\ Idle.phase = "idle"
  BY DEF Idle, Locals, Phases, Good

\* What a thread that moves on to the rest of its item holds.
Onward(r, c) ==
  /\ c \in Locals
  /\ c.phase # "idle" =>
       /\ c.phase \in {"check", "request"} /\ c.stage \in {"index", "link"}
       /\ c.item = r.item /\ c.page \in Pages

\* The first of the links left is the next page.
LEMMA FollowOK ==
  ASSUME NEW r \in Locals, NEW links \in Seq(Pages), links # <<>>
  PROVE  Onward(r, Follow(r, links))
<1>1. Head(links) \in Pages /\ Tail(links) \in Seq(Pages)
  OBVIOUS
<1> DEFINE h == Head(links)
           l == Tail(links)
<1>2. Follow(r, links) = [r EXCEPT !.phase = "check", !.stage = "link", !.page = h,
                                   !.links = l]
  BY DEF Follow
<1>3. h \in Pages /\ l \in Seq(Pages)
  BY <1>1
<1> HIDE DEF h, l
<1>4. Follow(r, links) =
        [phase |-> "check", item |-> r.item, stage |-> "link", page |-> h, links |-> l,
         index |-> r.index, quality |-> r.quality, copy |-> r.copy, image |-> r.image]
  BY <1>2 DEF Locals
<1>5. Follow(r, links) \in Locals
  BY <1>3, <1>4 DEF Locals, Phases
<1> QED
  BY <1>3, <1>4, <1>5 DEF Onward

\* The rest of an item: a link, an index, a link of the posting, or nothing.
LEMMA ContinueOK ==
  ASSUME NEW r \in Locals, r.item \in Items, NEW pages
  PROVE  Onward(r, Continue(r, pages))
<1> DEFINE p == Batch[r.item]
           last == Expansion(p, r.quality, MaxExpansion)
<1>1. p \in Pages
  BY DEF Items
<1>2. last \in Seq(Pages) /\ r.links \in Seq(Pages) /\ r.index \in Nat
  BY <1>1, ExpansionOK DEF Locals
<1> DEFINE onIndex == [r EXCEPT !.phase = "request", !.stage = "index",
                                !.page = Site[p].indexes[r.index], !.index = r.index + 1]
           zero == [r EXCEPT !.index = 0]
<1>3. ASSUME r.index \in 1..Len(Site[p].indexes) PROVE Onward(r, onIndex)
  <2>1. Site[p].indexes[r.index] \in Pages
    BY <1>1, <1>3, SiteOK, ElementOfSeq
  <2> DEFINE h == Site[p].indexes[r.index]
             k == r.index + 1
  <2>2. h \in Pages /\ k \in Nat
    BY <1>2, <2>1
  <2>3. onIndex = [r EXCEPT !.phase = "request", !.stage = "index", !.page = h, !.index = k]
    OBVIOUS
  <2> HIDE DEF h, k, onIndex
  <2>4. onIndex =
          [phase |-> "request", item |-> r.item, stage |-> "index", page |-> h,
           links |-> r.links, index |-> k, quality |-> r.quality,
           copy |-> r.copy, image |-> r.image]
    BY <2>3 DEF Locals
  <2>5. onIndex \in Locals
    BY <2>2, <2>4 DEF Locals, Phases
  <2> QED
    BY <2>2, <2>4, <2>5 DEF Onward
<1>4. ASSUME last # <<>> PROVE Onward(r, Follow(zero, last))
  <2>1. zero \in Locals /\ zero.item = r.item
    BY DEF Locals
  <2> HIDE DEF zero, last
  <2>2. Onward(zero, Follow(zero, last))
    BY <1>2, <1>4, <2>1, FollowOK
  <2> QED
    BY <2>1, <2>2 DEF Onward
<1>5. Onward(r, Idle)
  BY IdleOK DEF Onward
<1>6. r.links # <<>> => Onward(r, Follow(r, r.links))
  BY <1>2, FollowOK
<1>7. \/ Continue(r, pages) = Follow(r, r.links) /\ r.links # <<>>
      \/ Continue(r, pages) = onIndex /\ r.index \in 1..Len(Site[p].indexes)
      \/ Continue(r, pages) = Follow(zero, last) /\ last # <<>>
      \/ Continue(r, pages) = Idle
  <2> DEFINE w1 == r.links # <<>>
             w2 == r.links = <<>> /\ r.index \in 1..Len(Site[p].indexes)
             w3 == r.links = <<>> /\ r.index > Len(Site[p].indexes) /\ pages = {p} /\ last # <<>>
  <2>1. Continue(r, pages) = CASE w1 -> Follow(r, r.links) [] w2 -> onIndex
                               [] w3 -> Follow(zero, last) [] OTHER -> Idle
    BY Zenon DEF Continue
  <2>2. (w1 => ~w2 /\ ~w3) /\ (w2 => ~w3)
    BY <1>1, <1>2, SiteOK
  <2> HIDE DEF onIndex, zero, last
  <2>3. (w1 => r.links # <<>>) /\ (w2 => r.index \in 1..Len(Site[p].indexes)) /\ (w3 => last # <<>>)
    OBVIOUS
  <2> HIDE DEF w1, w2, w3
  <2> QED
    BY <2>1, <2>2, <2>3
<1> HIDE DEF onIndex, zero, last
<1> QED
  BY <1>3, <1>4, <1>5, <1>6, <1>7

----------------------------------------------------------------------------
(* A step of a thread changes its own record and its own item.             *)

\* The item of a busy thread, and the page it is at.
LEMMA AtHand ==
  ASSUME IInv, NEW t \in Threads, Busy(t)
  PROVE  /\ thread[t] \in Locals /\ thread[t].item \in Items /\ thread[t].page \in Pages
         /\ thread[t].item < next /\ ~ (thread[t].item >= next)
         /\ error[thread[t].item] = NoError
         /\ ~gathered
         /\ \A u \in Threads \ {t} : Busy(u) => thread[u].item # thread[t].item
  BY DEF IInv, Shape, OnePage, Apart, Answer, Items

\* What a step of a busy thread leaves as it is.
Local(t) ==
  LET i == thread[t].item IN
  /\ thread' \in [Threads -> Locals]
  /\ \A u \in Threads \ {t} : thread'[u] = thread[u]
  /\ thread'[t].phase # "idle" => thread'[t].item = i
  /\ next' = next /\ gathered' = gathered
  /\ found' \in [Items -> SUBSET Pages] /\ error' \in [Items -> Errors]
  /\ asked' \in [Items -> SUBSET Pages] /\ blocked' \subseteq Domains
  /\ failures \subseteq failures' /\ failures' \subseteq Items \X Pages \X Errors
  /\ \A j \in Items \ {i} : found'[j] = found[j] /\ error'[j] = error[j] /\ asked'[j] = asked[j]
  /\ asked[i] \subseteq asked'[i]
  /\ \A j \in Items, p \in Pages, e \in Errors :
       <<j, p, e>> \in failures' \ failures => j = i /\ OneFailure(j, p, e)'
  /\ \A d \in blocked' : d \in blocked \/ Cause(d)'

\* A cause stays one.
LEMMA CauseStays ==
  ASSUME IInv, NEW t \in Threads, Busy(t), Local(t), NEW d, Cause(d)
  PROVE  Cause(d)'
<1>1. \A j \in Items : error[j] = "blocked" => error'[j] = "blocked"
  <2> SUFFICES ASSUME NEW j \in Items, error[j] = "blocked" PROVE error'[j] = "blocked"
    OBVIOUS
  <2>1. j # thread[t].item
    BY AtHand DEF NoError
  <2> QED
    BY <2>1 DEF Local
<1>2. failures \subseteq failures'
  BY DEF Local
<1> QED
  BY <1>1, <1>2 DEF Cause

\* So it is enough to look at the thread and at its item.
LEMMA LocalKeeps ==
  ASSUME IInv, NEW t \in Threads, Busy(t), NEW i \in Items, i = thread[t].item,
         Local(t), OnePage(t)', OneItem(i)'
  PROVE  IInv'
<1>1. /\ i \in Items /\ i < next /\ ~gathered
      /\ \A u \in Threads \ {t} : Busy(u) => thread[u].item # i
  BY AtHand
<1>2. /\ \A u \in Threads \ {t} : thread'[u] = thread[u]
      /\ thread'[t].phase # "idle" => thread'[t].item = i
      /\ next' = next /\ gathered' = gathered
      /\ failures \subseteq failures'
      /\ \A j \in Items \ {i} : found'[j] = found[j] /\ error'[j] = error[j] /\ asked'[j] = asked[j]
      /\ asked[i] \subseteq asked'[i]
  BY DEF Local
<1>3. Shape'
  BY DEF Local, IInv, Shape
<1>4. ASSUME NEW u \in Threads PROVE OnePage(u)'
  <2>1. CASE u # t
    <3>1. thread'[u] = thread[u] /\ OnePage(u)
      BY <1>2, <2>1 DEF IInv
    <3>2. CASE Busy(u)
      <4>1. thread[u].item \in Items \ {i}
        BY <1>1, <2>1, <3>1, <3>2 DEF OnePage
      <4>2. /\ found'[thread[u].item] = found[thread[u].item]
            /\ error'[thread[u].item] = error[thread[u].item]
            /\ asked'[thread[u].item] = asked[thread[u].item]
        BY <1>2, <4>1
      <4>3. \A d \in thread[u].copy : Cause(d) => Cause(d)'
        BY CauseStays
      <4> QED
        BY <1>2, <3>1, <3>2, <4>2, <4>3 DEF OnePage, Busy
    <3>3. CASE ~Busy(u)
      BY <3>1, <3>3 DEF OnePage, Busy
    <3> QED
      BY <3>2, <3>3
  <2> QED
    BY <2>1
<1>5. Apart'
  <2> SUFFICES ASSUME NEW u \in Threads, NEW v \in Threads, u # v, Busy(u)', Busy(v)'
               PROVE  thread'[u].item # thread'[v].item
    BY DEF Apart
  <2>1. ASSUME NEW w \in Threads \ {t}, Busy(w)'
        PROVE  thread'[w].item = thread[w].item /\ Busy(w) /\ thread[w].item # i
    BY <1>1, <1>2, <2>1 DEF Busy
  <2>2. Busy(t)' => thread'[t].item = i
    BY <1>2 DEF Busy
  <2>3. CASE u = t \/ v = t
    BY <2>1, <2>2, <2>3
  <2>4. CASE u # t /\ v # t
    BY <2>1, <2>4 DEF IInv, Apart
  <2> QED
    BY <2>3, <2>4
<1>6. ASSUME NEW j \in Items, j # i PROVE OneItem(j)'
  <2>1. OneItem(j) /\ found'[j] = found[j] /\ error'[j] = error[j] /\ asked'[j] = asked[j]
    BY <1>2, <1>6 DEF IInv
  <2>2. ASSUME NEW u \in Threads, Busy(u), thread[u].item = j
        PROVE  Busy(u)' /\ thread'[u] = thread[u]
    BY <1>2, <1>6, <2>2 DEF Busy
  <2>3. Served(j) => Served(j)'
    BY <2>2 DEF Served
  <2>4. ASSUME NEW p \in asked[j] PROVE Known(j, p)'
    <3>1. Known(j, p)
      BY <2>1, <2>4 DEF OneItem
    <3> QED
      BY <1>2, <2>1, <2>2, <3>1 DEF Known
  <2>5. Cause(Site[Batch[j]].domain) => Cause(Site[Batch[j]].domain)'
    BY CauseStays
  <2> QED
    BY <1>1, <1>2, <2>1, <2>3, <2>4, <2>5 DEF OneItem
<1>7. ASSUME NEW j \in Items, NEW p \in Pages, NEW e \in Errors PROVE OneFailure(j, p, e)'
  <2>1. CASE <<j, p, e>> \in failures
    <3>1. OneFailure(j, p, e)
      BY DEF IInv
    <3>2. Cause(Site[p].domain) => Cause(Site[p].domain)'
      BY CauseStays
    <3>3. asked[j] \subseteq asked'[j]
      BY <1>2
    <3> QED
      BY <2>1, <3>1, <3>2, <3>3 DEF OneFailure
  <2>2. CASE <<j, p, e>> \notin failures
    <3>1. CASE <<j, p, e>> \in failures'
      BY <2>2, <3>1 DEF Local
    <3>2. CASE <<j, p, e>> \notin failures'
      BY <3>2 DEF OneFailure
    <3> QED
      BY <3>1, <3>2
  <2> QED
    BY <2>1, <2>2
<1>8. \A d \in blocked' : Cause(d)'
  <2> SUFFICES ASSUME NEW d \in blocked' PROVE Cause(d)'
    OBVIOUS
  <2>1. d \in blocked => Cause(d)
    BY DEF IInv
  <2> QED
    BY <2>1, CauseStays DEF Local
<1>9. Answer'
  BY <1>1, <1>2 DEF Answer
<1> QED
  BY <1>3, <1>4, <1>5, <1>6, <1>7, <1>8, <1>9 DEF IInv

----------------------------------------------------------------------------
(* What may become of the page at hand.                                    *)

\* The page at hand may be requested by the step.
Asks(t) == asked' = asked \/ Ask(t)

\* A request is for the item of the thread.
LEMMA AskOne ==
  ASSUME IInv, NEW t \in Threads, Busy(t), Asks(t)
  PROVE  LET i == thread[t].item IN
         /\ asked' \in [Items -> SUBSET Pages]
         /\ \A j \in Items \ {i} : asked'[j] = asked[j]
         /\ asked[i] \subseteq asked'[i] /\ asked'[i] \subseteq asked[i] \cup {thread[t].page}
  BY AtHand DEF Asks, Ask, IInv, Shape

\* One record of the threads is replaced.
LEMMA PutThread ==
  ASSUME IInv, NEW t \in Threads, NEW c \in Locals, thread' = [thread EXCEPT ![t] = c]
  PROVE  /\ thread' \in [Threads -> Locals] /\ thread'[t] = c
         /\ \A u \in Threads \ {t} : thread'[u] = thread[u]
  BY DEF IInv, Shape

\* The page at hand is captured, and the thread moves on.
LEMMA CapturedKeeps ==
  ASSUME IInv, NEW t \in Threads, Busy(t), NEW c, Onward(thread[t], c),
         thread' = [thread EXCEPT ![t] = c],
         found' = [found EXCEPT ![thread[t].item] = found[thread[t].item] \cup {thread[t].page}],
         \/ failures' = failures
         \/ failures' = failures \cup {<<thread[t].item, thread[t].page, "denied">>},
         Asks(t), thread[t].page \in asked'[thread[t].item],
         next' = next, gathered' = gathered, error' = error, blocked' = blocked
  PROVE  IInv'
<1>0. PICK i \in Items, page \in Pages : i = thread[t].item /\ page = thread[t].page
  BY AtHand
<1>1. /\ i \in Items /\ page \in Pages /\ i < next /\ ~ (i >= next)
      /\ error[i] = NoError /\ ~gathered
      /\ \A u \in Threads \ {t} : Busy(u) => thread[u].item # i
  BY <1>0, AtHand
<1>2. /\ c \in Locals
      /\ c.phase # "idle" => /\ c.phase \in {"check", "request"} /\ c.stage \in {"index", "link"}
                             /\ c.item = i /\ c.page \in Pages
  BY <1>0 DEF Onward
<1>3. /\ thread' \in [Threads -> Locals] /\ thread'[t] = c
      /\ \A u \in Threads \ {t} : thread'[u] = thread[u]
  BY <1>2, PutThread
<1>4. /\ asked' \in [Items -> SUBSET Pages]
      /\ \A j \in Items \ {i} : asked'[j] = asked[j]
      /\ asked[i] \subseteq asked'[i] /\ asked'[i] \subseteq asked[i] \cup {page}
      /\ page \in asked'[i]
  BY <1>0, AskOne
<1>5. /\ found' \in [Items -> SUBSET Pages] /\ found'[i] = found[i] \cup {page}
      /\ \A j \in Items \ {i} : found'[j] = found[j]
  BY <1>0, <1>1 DEF IInv, Shape
<1>6. /\ failures \subseteq failures' /\ failures' \subseteq Items \X Pages \X Errors
      /\ failures' \subseteq failures \cup {<<i, page, "denied">>}
  BY <1>0, <1>1 DEF IInv, Shape, Errors
<1>7. Batch[i] \in found'[i]
  BY <1>0, <1>5 DEF IInv, OnePage
<1>8. Local(t)
  <2>1. ASSUME NEW j \in Items, NEW p \in Pages, NEW e \in Errors,
               <<j, p, e>> \in failures' \ failures
        PROVE  j = i /\ OneFailure(j, p, e)'
    <3>1. j = i /\ p = page /\ e = "denied"
      BY <1>6, <2>1
    <3> QED
      BY <1>4, <3>1 DEF OneFailure
  <2> QED
    BY <1>0, <1>1, <1>2, <1>3, <1>4, <1>5, <1>6, <2>1 DEF Local, IInv, Shape
<1>9. OnePage(t)'
  BY <1>1, <1>2, <1>3, <1>7 DEF OnePage, Busy
<1>10. OneItem(i)'
  <2>1. ASSUME NEW p \in asked'[i] PROVE Known(i, p)'
    <3>1. CASE p = page
      BY <1>5, <3>1 DEF Known
    <3>2. CASE p # page
      <4>1. Known(i, p)
        BY <1>1, <1>4, <2>1, <3>2 DEF IInv, OneItem
      <4>2. \A u \in Threads : Busy(u) /\ thread[u].item = i => thread[u].page # p
        BY <1>0, <1>1, <3>2
      <4> QED
        BY <1>1, <1>5, <1>6, <4>1, <4>2 DEF Known
    <3> QED
      BY <3>1, <3>2
  <2> QED
    BY <1>1, <1>7, <2>1 DEF OneItem, NoError
<1> QED
  BY <1>0, <1>8, <1>9, <1>10, LocalKeeps

\* The page at hand fails: the item with its own URL, or a failure is recorded.
LEMMA RejectKeeps ==
  ASSUME IInv, NEW t \in Threads, Busy(t), NEW e \in {"paused", "blocked", "unreadable", "final"},
         Reject(t, e), Asks(t),
         e # "paused" => thread[t].page \in asked'[thread[t].item],
         e = "paused" => Cause(Site[thread[t].page].domain),
         \/ blocked' = blocked
         \/ thread[t].phase = "record" /\ e = "blocked" /\ blocked' = thread[t].copy
  PROVE  IInv'
<1>0. PICK i \in Items, page \in Pages : i = thread[t].item /\ page = thread[t].page
  BY AtHand
<1>1. /\ thread[t] \in Locals /\ i \in Items /\ page \in Pages /\ i < next /\ ~ (i >= next)
      /\ error[i] = NoError /\ ~gathered
      /\ \A u \in Threads \ {t} : Busy(u) => thread[u].item # i
  BY <1>0, AtHand
<1>2. /\ asked' \in [Items -> SUBSET Pages]
      /\ \A j \in Items \ {i} : asked'[j] = asked[j]
      /\ asked[i] \subseteq asked'[i] /\ asked'[i] \subseteq asked[i] \cup {page}
  BY <1>0, AskOne
<1>3. next' = next /\ gathered' = gathered /\ found' = found
  BY DEF Reject
<1>4. e \in Errors /\ e # NoError
  BY DEF Errors, Bad, NoError
<1>5. blocked' \subseteq Domains
  BY <1>1 DEF IInv, Shape, Locals
<1>6. ASSUME NEW d \in blocked', d \notin blocked
      PROVE  e = "blocked" /\ (d = Site[page].domain \/ Cause(d))
  BY <1>0, <1>6 DEF IInv, OnePage
<1>7. OnePage(t)
  BY DEF IInv
<1>8. CASE /\ thread[t].stage = "url" /\ failures' = failures
           /\ error' = [error EXCEPT ![i] = e] /\ thread' = [thread EXCEPT ![t] = Idle]
  <2>1. /\ thread' \in [Threads -> Locals] /\ thread'[t] = Idle /\ Idle.phase = "idle"
        /\ \A u \in Threads \ {t} : thread'[u] = thread[u]
    BY <1>8, IdleOK, PutThread
  <2>2. /\ error' \in [Items -> Errors] /\ error'[i] = e
        /\ \A j \in Items \ {i} : error'[j] = error[j]
    BY <1>1, <1>4, <1>8 DEF IInv, Shape
  <2>3. page = Batch[i] /\ asked[i] \subseteq {page} /\ found[i] = {}
    BY <1>0, <1>7, <1>8 DEF OnePage
  <2>4. ASSUME NEW d, Cause(d) PROVE Cause(d)'
    BY <1>1, <1>8, <2>2, <2>4 DEF Cause, NoError
  <2>5. e = "blocked" => Cause(Site[page].domain)'
    BY <1>1, <2>2, <2>3 DEF Cause
  <2>6. Local(t)
    <3>1. \A d \in blocked' : d \in blocked \/ Cause(d)'
      BY <1>6, <2>4, <2>5
    <3> QED
      BY <1>0, <1>1, <1>2, <1>3, <1>5, <1>8, <2>1, <2>2, <3>1 DEF Local, IInv, Shape
  <2>7. OnePage(t)'
    BY <2>1 DEF OnePage, Busy
  <2>8. OneItem(i)'
    <3>1. e = "paused" => Cause(Site[Batch[i]].domain)'
      <4>1. e = "paused" => Cause(Site[Batch[i]].domain)
        BY <1>0, <2>3
      <4> QED
        BY <2>4, <4>1
    <3>2. e # "paused" => page \in asked'[i]
      BY <1>0
    <3>3. asked'[i] \subseteq {Batch[i]} /\ found'[i] = {}
      BY <1>2, <1>3, <2>3
    <3>4. \A p \in asked'[i] : Known(i, p)'
      BY <1>4, <2>2, <3>3 DEF Known
    <3> QED
      BY <1>1, <1>3, <1>4, <2>2, <2>3, <3>1, <3>2, <3>3, <3>4 DEF OneItem
  <2> QED
    BY <1>0, <2>6, <2>7, <2>8, LocalKeeps
<1>9. ASSUME NEW left \in Seq(Pages), thread[t].stage # "url", error' = error,
             failures' = failures \cup {<<i, page, e>>},
             thread' = [thread EXCEPT ![t] = Continue([thread[t] EXCEPT !.links = left], found[i])]
      PROVE  IInv'
  <2> DEFINE c == Continue([thread[t] EXCEPT !.links = left], found[i])
  <2>1. [thread[t] EXCEPT !.links = left] \in Locals
        /\ [thread[t] EXCEPT !.links = left].item = i
    BY <1>0, <1>1, <1>9 DEF Locals
  <2>2. Onward(thread[t], c)
    BY <1>0, <1>1, <2>1, ContinueOK DEF Onward
  <2> HIDE DEF c
  <2>3. /\ c \in Locals
        /\ c.phase # "idle" => /\ c.phase \in {"check", "request"} /\ c.stage \in {"index", "link"}
                               /\ c.item = i /\ c.page \in Pages
    BY <1>0, <2>2 DEF Onward
  <2>4. /\ thread' \in [Threads -> Locals] /\ thread'[t] = c
        /\ \A u \in Threads \ {t} : thread'[u] = thread[u]
    BY <1>9, <2>3, PutThread DEF c
  <2>5. Batch[i] \in found[i]
    BY <1>0, <1>7, <1>9 DEF OnePage
  <2>6. /\ failures \subseteq failures' /\ failures' \subseteq Items \X Pages \X Errors
        /\ <<i, page, e>> \in failures'
    BY <1>1, <1>4, <1>9 DEF IInv, Shape
  <2>7. ASSUME NEW d, Cause(d) PROVE Cause(d)'
    BY <1>9, <2>6, <2>7 DEF Cause
  <2>8. e = "blocked" => Cause(Site[page].domain)'
    BY <1>1, <2>6 DEF Cause
  <2>9. Local(t)
    <3>1. \A d \in blocked' : d \in blocked \/ Cause(d)'
      BY <1>6, <2>7, <2>8
    <3>2. ASSUME NEW j \in Items, NEW p \in Pages, NEW f \in Errors,
                 <<j, p, f>> \in failures' \ failures
          PROVE  j = i /\ OneFailure(j, p, f)'
      <4>1. j = i /\ p = page /\ f = e
        BY <1>9, <3>2
      <4>2. e = "paused" => Cause(Site[page].domain)'
        BY <1>0, <2>7
      <4>3. e # "paused" => page \in asked'[i]
        BY <1>0
      <4> QED
        BY <4>1, <4>2, <4>3 DEF OneFailure
    <3> QED
      BY <1>0, <1>1, <1>2, <1>3, <1>5, <1>9, <2>3, <2>4, <2>6, <3>1, <3>2 DEF Local, IInv, Shape
  <2>10. OnePage(t)'
    BY <1>1, <1>3, <1>9, <2>3, <2>4, <2>5 DEF OnePage, Busy
  <2>11. OneItem(i)'
    <3>1. ASSUME NEW p \in asked'[i] PROVE Known(i, p)'
      <4>1. CASE p = page
        BY <1>4, <2>6, <4>1 DEF Known
      <4>2. CASE p # page
        <5>1. Known(i, p)
          BY <1>1, <1>2, <3>1, <4>2 DEF IInv, OneItem
        <5>2. \A u \in Threads : Busy(u) /\ thread[u].item = i => thread[u].page # p
          BY <1>0, <1>1, <4>2
        <5> QED
          BY <1>1, <1>3, <2>6, <5>1, <5>2 DEF Known
      <4> QED
        BY <4>1, <4>2
    <3> QED
      BY <1>1, <1>3, <1>9, <2>5, <3>1 DEF OneItem, NoError
  <2> QED
    BY <1>0, <2>9, <2>10, <2>11, LocalKeeps
<1>10. CASE ~ (/\ thread[t].stage = "url" /\ failures' = failures
               /\ error' = [error EXCEPT ![i] = e] /\ thread' = [thread EXCEPT ![t] = Idle])
  <2> DEFINE left == IF e \in {"blocked", "paused"} THEN <<>> ELSE thread[t].links
  <2>1. left \in Seq(Pages)
    BY <1>1 DEF Locals
  <2>2. /\ thread[t].stage # "url" /\ error' = error
        /\ failures' = failures \cup {<<i, page, e>>}
        /\ thread' = [thread EXCEPT ![t] = Continue([thread[t] EXCEPT !.links = left], found[i])]
    BY <1>0, <1>10 DEF Reject
  <2> HIDE DEF left
  <2> QED
    BY <1>9, <2>1, <2>2
<1> QED
  BY <1>8, <1>10

\* The thread stays at its page, in another phase.
LEMMA StaysKeeps ==
  ASSUME IInv, NEW t \in Threads, Busy(t), NEW c \in Locals,
         thread' = [thread EXCEPT ![t] = c],
         c.item = thread[t].item, c.page = thread[t].page, c.stage = thread[t].stage,
         next' = next, gathered' = gathered, found' = found, error' = error,
         failures' = failures, blocked' = blocked, Asks(t), c.phase # "idle",
         c.phase \in {"image", "ocr"} => c.stage = "url" /\ c.image \in 1..Site[c.page].images,
         c.phase \notin {"check", "request"} => c.page \in asked'[c.item],
         c.phase = "record" => \A d \in c.copy : d = Site[c.page].domain \/ Cause(d)
  PROVE  IInv'
<1>0. PICK i \in Items, page \in Pages : i = thread[t].item /\ page = thread[t].page
  BY AtHand
<1>1. /\ i < next /\ ~ (i >= next) /\ error[i] = NoError /\ ~gathered
      /\ \A u \in Threads \ {t} : Busy(u) => thread[u].item # i
  BY <1>0, AtHand
<1>2. /\ asked' \in [Items -> SUBSET Pages]
      /\ \A j \in Items \ {i} : asked'[j] = asked[j]
      /\ asked[i] \subseteq asked'[i] /\ asked'[i] \subseteq asked[i] \cup {page}
  BY <1>0, AskOne
<1>3. /\ thread' \in [Threads -> Locals] /\ thread'[t] = c
      /\ \A u \in Threads \ {t} : thread'[u] = thread[u]
  BY PutThread
<1>4. c.item = i /\ c.page = page
  BY <1>0
<1>5. \A d : Cause(d) => Cause(d)'
  BY DEF Cause
<1>6. Local(t)
  <2>1. \A d \in blocked' : d \in blocked
    OBVIOUS
  <2> QED
    BY <1>0, <1>1, <1>2, <1>3, <1>4, <2>1 DEF Local, IInv, Shape
<1>7. OnePage(t)
  BY DEF IInv
<1>8. OnePage(t)'
  <2>1. c.phase = "record" => \A d \in c.copy : d = Site[c.page].domain \/ Cause(d)'
    BY <1>5
  <2> QED
    BY <1>0, <1>1, <1>2, <1>3, <1>4, <1>7, <2>1 DEF OnePage, Busy
<1>9. Busy(t)' /\ thread'[t].item = i /\ thread'[t].page = page
  BY <1>3, <1>4 DEF Busy
<1>10. OneItem(i)'
  <2>1. Served(i)'
    BY <1>9 DEF Served
  <2>2. ASSUME NEW p \in asked'[i] PROVE Known(i, p)'
    <3>1. CASE p = page
      BY <1>9, <3>1 DEF Known
    <3>2. CASE p # page
      <4>1. Known(i, p)
        BY <1>1, <1>2, <2>2, <3>2 DEF IInv, OneItem
      <4>2. \A u \in Threads : Busy(u) /\ thread[u].item = i => thread[u].page # p
        BY <1>0, <1>1, <3>2
      <4> QED
        BY <1>1, <4>1, <4>2 DEF Known
    <3> QED
      BY <3>1, <3>2
  <2> QED
    BY <1>1, <2>1, <2>2 DEF OneItem, NoError
<1> QED
  BY <1>0, <1>6, <1>8, <1>10, LocalKeeps

\* A page that was requested is captured, and what may follow it is pages.
LEMMA ServeKeeps ==
  ASSUME IInv, NEW t \in Threads, Busy(t), NEW quality \in Good, Serve(t, quality), Asks(t),
         thread[t].page \in asked'[thread[t].item], blocked' = blocked
  PROVE  IInv'
<1> DEFINE r == thread[t]
           pages == found[r.item] \cup {r.page}
           index == IF Site[r.page].details = "campus" /\ quality \in Complete THEN 1 ELSE 0
           first == IF index = 1 THEN <<>> ELSE Expansion(r.page, quality, MaxExpansion)
           below == Expansion(r.page, quality, MaxCampus)
<1>1. r \in Locals /\ r.item \in Items /\ r.page \in Pages
  BY AtHand
<1>2. index \in Nat
  OBVIOUS
<1>3. first \in Seq(Pages) /\ below \in Seq(Pages)
  <2> HIDE DEF index
  <2> QED
    BY <1>1, ExpansionOK
<1>4. /\ found' = [found EXCEPT ![r.item] = pages]
      /\ next' = next /\ blocked' = blocked /\ error' = error /\ gathered' = gathered
  BY Zenon DEF Serve
<1>5. \/ /\ thread' = [thread EXCEPT ![t] = Continue(
                [r EXCEPT !.quality = quality, !.index = index, !.links = first], pages)]
         /\ failures' = failures
      \/ /\ thread' = [thread EXCEPT ![t] = Idle]
         /\ failures' = failures \cup {<<r.item, r.page, "denied">>}
      \/ /\ thread' = [thread EXCEPT ![t] = Continue([r EXCEPT !.links = below], pages)]
         /\ failures' = failures
      \/ /\ thread' = [thread EXCEPT ![t] = Continue(r, pages)]
         /\ failures' = failures
  BY Zenon DEF Serve
<1>6. ASSUME NEW s \in Locals, s.item = r.item PROVE Onward(r, Continue(s, pages))
  <2> HIDE DEF pages
  <2>1. Onward(s, Continue(s, pages))
    BY <1>1, <1>6, ContinueOK
  <2> QED
    BY <1>6, <2>1 DEF Onward
<1> DEFINE s1 == [r EXCEPT !.quality = quality, !.index = index, !.links = first]
           s3 == [r EXCEPT !.links = below]
<1>7. s1 \in Locals /\ s1.item = r.item
  <2> HIDE DEF r, index, first
  <2> QED
    BY <1>1, <1>2, <1>3 DEF Locals
<1>8. s3 \in Locals /\ s3.item = r.item
  <2> HIDE DEF r, below
  <2> QED
    BY <1>1, <1>3 DEF Locals
<1> HIDE DEF s1, s3
<1>9. Onward(r, Continue(s1, pages)) /\ Onward(r, Continue(s3, pages))
      /\ Onward(r, Continue(r, pages)) /\ Onward(r, Idle)
  BY <1>1, <1>6, <1>7, <1>8, IdleOK, Zenon DEF Onward
<1>10. ASSUME NEW c, Onward(r, c), thread' = [thread EXCEPT ![t] = c],
              \/ failures' = failures
              \/ failures' = failures \cup {<<r.item, r.page, "denied">>}
       PROVE  IInv'
  BY <1>4, <1>10, CapturedKeeps
<1> HIDE DEF pages, index, first, below, r
<1> QED
  BY <1>5, <1>9, <1>10, Zenon DEF s1, s3

\* However a page that was requested is classified.
LEMMA BuildKeeps ==
  ASSUME IInv, NEW t \in Threads, Busy(t), Build(t), Asks(t),
         thread[t].page \in asked'[thread[t].item], blocked' = blocked
  PROVE  IInv'
<1>1. CASE \E quality \in Good : Serve(t, quality)
  BY <1>1, ServeKeeps
<1>2. CASE Refused(t)
  <2> DEFINE more == blocked \cup {Site[thread[t].page].domain}
             c == [thread[t] EXCEPT !.phase = "record", !.copy = more]
  <2>1. thread[t] \in Locals /\ thread[t].page \in Pages
    BY AtHand
  <2>2. more \subseteq Domains /\ \A d \in more : d = Site[thread[t].page].domain \/ Cause(d)
    BY <2>1, SiteOK DEF IInv, Shape
  <2>3. /\ thread' = [thread EXCEPT ![t] = c]
        /\ next' = next /\ found' = found /\ error' = error
        /\ failures' = failures /\ gathered' = gathered
    BY <1>2 DEF Refused
  <2> HIDE DEF more
  <2>4. /\ c \in Locals /\ c.phase = "record" /\ c.copy = more
        /\ c.item = thread[t].item /\ c.page = thread[t].page /\ c.stage = thread[t].stage
    BY <2>1, <2>2 DEF Locals, Phases
  <2> HIDE DEF c
  <2> QED
    BY <2>2, <2>3, <2>4, StaysKeeps
<1>3. CASE Reject(t, "final")
  BY <1>3, RejectKeeps
<1> QED
  BY <1>1, <1>2, <1>3 DEF Build

----------------------------------------------------------------------------
(* The actions.                                                            *)

\* A thread that takes an item finds it untouched.
LEMMA TakeKeeps ==
  ASSUME IInv, NEW t \in Threads, Take(t)
  PROVE  IInv'
<1>0. PICK i \in Items : i = next
  BY DEF Take, Items, IInv, Shape
<1> DEFINE c == [Idle EXCEPT !.phase = "check", !.item = next, !.page = Batch[next]]
<1>1. /\ ~Busy(t) /\ thread' = [thread EXCEPT ![t] = c] /\ next' = next + 1
      /\ next \in Nat /\ next <= Len(Batch) /\ ~gathered
      /\ blocked' = blocked /\ found' = found /\ error' = error /\ failures' = failures
      /\ asked' = asked /\ gathered' = gathered
  BY DEF Take, Busy, IInv, Shape, Answer
<1>2. Batch[i] \in Pages /\ Batch[next] = Batch[i]
  BY <1>0 DEF Items
<1>3. /\ c \in Locals /\ c.phase = "check" /\ c.item = i /\ c.page = Batch[i] /\ c.stage = "url"
  <2> DEFINE b == Batch[i]
  <2>1. c = [Idle EXCEPT !.phase = "check", !.item = i, !.page = b]
    BY <1>0, <1>2
  <2>2. b \in Pages
    BY <1>2
  <2> HIDE DEF b, c
  <2>3. c \in Locals /\ c.phase = "check" /\ c.item = i /\ c.page = b /\ c.stage = "url"
    <3>1. c = [phase |-> "check", item |-> i, stage |-> "url", page |-> b, links |-> <<>>,
               index |-> 0, quality |-> "list", copy |-> {}, image |-> 0]
      BY <2>1 DEF Idle
    <3>2. <<>> \in Seq(Pages) /\ "list" \in Good /\ "check" \in Phases /\ 0 \in Nat
      BY DEF Good, Phases
    <3> QED
      BY <2>2, <3>1, <3>2 DEF Locals
  <2> QED
    BY <2>3 DEF b
<1> HIDE DEF c
<1>4. /\ thread' \in [Threads -> Locals] /\ thread'[t] = c
      /\ \A u \in Threads \ {t} : thread'[u] = thread[u]
  BY <1>1, <1>3, PutThread
<1>5. Shape'
  BY <1>1, <1>4 DEF IInv, Shape
<1>6. asked[i] = {} /\ found[i] = {} /\ error[i] = NoError
  <2>1. i >= next /\ OneItem(i)
    BY <1>0, <1>1 DEF IInv
  <2> QED
    BY <2>1 DEF OneItem
<1>7. i < next' /\ ~ (i >= next')
  BY <1>0, <1>1
<1>8. \A u \in Threads : Busy(u) => thread[u].item < next /\ thread[u].item \in Items
  BY DEF IInv, OnePage
<1>9. \A j \in Items : j < next => j # i
  BY <1>0, <1>1 DEF Items
<1>10. ASSUME NEW u \in Threads PROVE OnePage(u)'
  <2>1. CASE u = t
    BY <1>0, <1>1, <1>2, <1>3, <1>4, <1>6, <1>7, <2>1 DEF OnePage, Busy
  <2>2. CASE u # t
    <3>1. thread'[u] = thread[u] /\ OnePage(u)
      BY <1>4, <2>2 DEF IInv
    <3>2. Busy(u) => thread[u].item < next'
      BY <1>1, <1>8 DEF Items
    <3>3. \A d : Cause(d) => Cause(d)'
      BY <1>1 DEF Cause
    <3> QED
      BY <1>1, <3>1, <3>2, <3>3 DEF OnePage, Busy
  <2> QED
    BY <2>1, <2>2
<1>11. Apart'
  <2> SUFFICES ASSUME NEW u \in Threads, NEW v \in Threads, u # v, Busy(u)', Busy(v)'
               PROVE  thread'[u].item # thread'[v].item
    BY DEF Apart
  <2>1. \A w \in Threads \ {t} : Busy(w)' => Busy(w) /\ thread'[w].item = thread[w].item
                                             /\ thread[w].item # i
    BY <1>4, <1>8, <1>9 DEF Busy
  <2>2. thread'[t].item = i
    BY <1>3, <1>4
  <2>3. CASE u = t \/ v = t
    BY <2>1, <2>2, <2>3
  <2>4. CASE u # t /\ v # t
    BY <2>1, <2>4 DEF IInv, Apart
  <2> QED
    BY <2>3, <2>4
<1>12. \A w \in Threads : Busy(w) => Busy(w)' /\ thread'[w] = thread[w]
  BY <1>1, <1>4 DEF Busy
<1>13. Busy(t)' /\ thread'[t].item = i
  BY <1>3, <1>4 DEF Busy
<1>14. ASSUME NEW j \in Items PROVE OneItem(j)'
  <2>1. OneItem(j)
    BY DEF IInv
  <2>2. Served(j) => Served(j)'
    BY <1>12 DEF Served
  <2>3. j = i => Served(j)'
    BY <1>13 DEF Served
  <2>4. j >= next' => j >= next
    BY <1>1 DEF Items
  <2>5. j < next' /\ j # i => j < next
    BY <1>0, <1>1 DEF Items
  <2>6. Cause(Site[Batch[j]].domain) => Cause(Site[Batch[j]].domain)'
    BY <1>1 DEF Cause
  <2>7. ASSUME NEW p \in asked'[j] PROVE Known(j, p)'
    <3>1. Known(j, p)
      BY <1>1, <2>1, <2>7 DEF OneItem
    <3> QED
      BY <1>1, <1>12, <3>1 DEF Known
  <2> QED
    BY <1>1, <2>1, <2>2, <2>3, <2>4, <2>5, <2>6, <2>7 DEF OneItem
<1>15. ASSUME NEW j \in Items, NEW p \in Pages, NEW e \in Errors PROVE OneFailure(j, p, e)'
  <2>1. OneFailure(j, p, e)
    BY DEF IInv
  <2>2. Cause(Site[p].domain) => Cause(Site[p].domain)'
    BY <1>1 DEF Cause
  <2> QED
    BY <1>1, <2>1, <2>2 DEF OneFailure
<1>16. (\A d \in blocked : Cause(d))'
  BY <1>1 DEF IInv, Cause
<1>17. Answer'
  BY <1>1 DEF Answer
<1> QED
  BY <1>5, <1>10, <1>11, <1>14, <1>15, <1>16, <1>17 DEF IInv

\* The answer names the items that failed; it is given when no thread is busy.
LEMMA GatherKeeps ==
  ASSUME IInv, Gather
  PROVE  IInv'
<1> DEFINE new == {<<i, Batch[i], error[i]>> : i \in {j \in Items : error[j] # NoError}}
<1>1. /\ next' = next /\ thread' = thread /\ blocked' = blocked /\ found' = found
      /\ error' = error /\ asked' = asked /\ gathered' = TRUE
      /\ failures' = failures \cup new
      /\ next > Len(Batch) /\ \A t \in Threads : ~Busy(t)
  BY DEF Gather, Busy
<1>2. new \subseteq Items \X Pages \X Errors
  BY DEF IInv, Shape, Items
<1>3. failures \subseteq failures'
        /\ \A i \in Items : error[i] # NoError => <<i, Batch[i], error[i]>> \in failures'
  BY <1>1
<1>4. \A i \in Items, p \in Pages, e \in Errors :
        <<i, p, e>> \in failures' \ failures => p = Batch[i] /\ e = error[i] /\ e # NoError
  BY <1>1
<1> HIDE DEF new
<1>5. Shape'
  BY <1>1, <1>2 DEF IInv, Shape
<1>6. next = Len(Batch) + 1
  BY <1>1 DEF IInv, Shape
<1>7. \A d : Cause(d) => Cause(d)'
  BY <1>1, <1>3 DEF Cause
<1>8. \A t \in Threads : OnePage(t)'
  BY <1>1 DEF OnePage, Busy
<1>9. Apart'
  BY <1>1 DEF Apart, Busy
<1>10. ASSUME NEW i \in Items PROVE OneItem(i)'
  <2>1. OneItem(i)
    BY DEF IInv
  <2>2. Served(i) => Served(i)'
    BY <1>1 DEF Served, Busy
  <2>3. ASSUME NEW p \in asked'[i] PROVE Known(i, p)'
    <3>1. Known(i, p)
      BY <1>1, <2>1, <2>3 DEF OneItem
    <3> QED
      BY <1>1, <1>3, <3>1 DEF Known
  <2>4. Cause(Site[Batch[i]].domain) => Cause(Site[Batch[i]].domain)'
    BY <1>7
  <2> QED
    BY <1>1, <1>3, <2>1, <2>2, <2>3, <2>4 DEF OneItem
<1>11. ASSUME NEW i \in Items, NEW p \in Pages, NEW e \in Errors PROVE OneFailure(i, p, e)'
  <2>1. OneFailure(i, p, e) /\ OneItem(i)
    BY DEF IInv
  <2>2. Cause(Site[p].domain) => Cause(Site[p].domain)'
    BY <1>7
  <2>3. CASE <<i, p, e>> \in failures
    BY <1>1, <2>1, <2>2, <2>3 DEF OneFailure
  <2>4. CASE <<i, p, e>> \in failures' \ failures
    <3>1. p = Batch[i] /\ e = error[i] /\ e # NoError
      BY <1>4, <2>4
    <3>2. e = "paused" => Cause(Site[p].domain)
      BY <2>1, <3>1 DEF OneItem
    <3>3. e # "paused" => p \in asked[i]
      BY <2>1, <3>1 DEF OneItem
    <3> QED
      BY <1>1, <2>2, <3>2, <3>3 DEF OneFailure
  <2> QED
    BY <2>3, <2>4 DEF OneFailure
<1>12. (\A d \in blocked : Cause(d))'
  BY <1>1, <1>7 DEF IInv
<1>13. Answer'
  BY <1>1, <1>6 DEF Answer, Busy
<1> QED
  BY <1>5, <1>8, <1>9, <1>10, <1>11, <1>12, <1>13 DEF IInv

\* A page of a paused domain is refused, and the pause has a cause.
LEMMA PausedKeeps ==
  ASSUME IInv, NEW t \in Threads, Paused(t)
  PROVE  IInv'
<1>1. /\ Busy(t) /\ Reject(t, "paused") /\ blocked' = blocked /\ Asks(t)
      /\ Site[thread[t].page].domain \in blocked
  BY DEF Paused, Busy, Asks, shared
<1>2. Cause(Site[thread[t].page].domain)
  BY <1>1 DEF IInv
<1> QED
  BY <1>1, <1>2, RejectKeeps

\* The page at hand is left to the plain request, or to the images of an article.
LEMMA RouteKeeps ==
  ASSUME IInv, NEW t \in Threads, Route(t)
  PROVE  IInv'
<1>1. /\ Busy(t) /\ Asks(t) /\ next' = next /\ gathered' = gathered /\ found' = found
      /\ error' = error /\ failures' = failures /\ blocked' = blocked
  BY DEF Route, Busy, Asks
<1>2. thread[t] \in Locals /\ thread[t].item \in Items /\ thread[t].page \in Pages
  BY <1>1, AtHand
<1>3. CASE thread' = [thread EXCEPT ![t].phase = "request"]
  <2> DEFINE c == [thread[t] EXCEPT !.phase = "request"]
  <2>1. c \in Locals /\ c.phase = "request" /\ c.item = thread[t].item
        /\ c.page = thread[t].page /\ c.stage = thread[t].stage
    BY <1>2 DEF Locals, Phases
  <2>2. thread' = [thread EXCEPT ![t] = c]
    BY <1>3 DEF IInv, Shape
  <2> HIDE DEF c
  <2> QED
    BY <1>1, <2>1, <2>2, StaysKeeps
<1>4. CASE /\ thread[t].stage = "url" /\ Site[thread[t].page].images > 0 /\ Ask(t)
           /\ thread' = [thread EXCEPT ![t].phase = "image", ![t].image = 1]
  <2> DEFINE c == [thread[t] EXCEPT !.phase = "image", !.image = 1]
  <2>1. c \in Locals /\ c.phase = "image" /\ c.item = thread[t].item
        /\ c.page = thread[t].page /\ c.stage = thread[t].stage /\ c.image = 1
    BY <1>2 DEF Locals, Phases
  <2>2. thread' = [thread EXCEPT ![t] = c]
    BY <1>4 DEF IInv, Shape
  <2> HIDE DEF c
  <2>3. 1 \in 1..Site[c.page].images
    BY <1>2, <1>4, <2>1, SiteOK
  <2>4. c.page \in asked'[c.item]
    BY <1>2, <1>4, <2>1 DEF Ask, IInv, Shape
  <2> QED
    BY <1>1, <1>4, <2>1, <2>2, <2>3, <2>4, StaysKeeps
<1> QED
  BY <1>3, <1>4, Zenon DEF Route, Turn

\* An item that is one page gives that page or an error.
LEMMA EndsKeeps ==
  ASSUME IInv, NEW t \in Threads, Busy(t), thread[t].stage = "url", Asks(t),
         thread[t].page \in asked'[thread[t].item],
         thread' = [thread EXCEPT ![t] = Idle],
         \/ found' = [found EXCEPT ![thread[t].item] = {thread[t].page}] /\ error' = error
         \/ error' = [error EXCEPT ![thread[t].item] = "final"] /\ found' = found,
         next' = next, blocked' = blocked, failures' = failures, gathered' = gathered
  PROVE  IInv'
<1>1. found[thread[t].item] = {}
  BY DEF IInv, OnePage
<1>2. CASE found' = [found EXCEPT ![thread[t].item] = {thread[t].page}] /\ error' = error
  <2>1. Onward(thread[t], Idle)
    BY IdleOK DEF Onward
  <2>2. {thread[t].page} = found[thread[t].item] \cup {thread[t].page}
    BY <1>1
  <2> QED
    BY <1>2, <2>1, <2>2, CapturedKeeps
<1>3. CASE error' = [error EXCEPT ![thread[t].item] = "final"] /\ found' = found
  <2>1. Reject(t, "final")
    BY <1>3 DEF Reject
  <2> QED
    BY <2>1, RejectKeeps
<1> QED
  BY <1>2, <1>3

\* The request of a step is for the page at hand.
LEMMA AskedIt ==
  ASSUME IInv, NEW t \in Threads, Busy(t), Ask(t)
  PROVE  Asks(t) /\ thread[t].page \in asked'[thread[t].item]
<1>1. thread[t].item \in Items /\ asked \in [Items -> SUBSET Pages]
  BY AtHand DEF IInv, Shape
<1> QED
  BY <1>1 DEF Ask, Asks

\* What an adapter serves.
LEMMA SinglePageKeeps ==
  ASSUME IInv, NEW t \in Threads, SinglePage(t)
  PROVE  IInv'
<1>1. /\ Busy(t) /\ thread[t].stage = "url" /\ Ask(t)
      /\ thread' = [thread EXCEPT ![t] = Idle]
      /\ \/ found' = [found EXCEPT ![thread[t].item] = {thread[t].page}] /\ error' = error
         \/ error' = [error EXCEPT ![thread[t].item] = "final"] /\ found' = found
      /\ next' = next /\ blocked' = blocked /\ failures' = failures /\ gathered' = gathered
  BY DEF SinglePage, Busy
<1>2. Asks(t) /\ thread[t].page \in asked'[thread[t].item]
  BY <1>1, AskedIt
<1> QED
  BY <1>1, <1>2, EndsKeeps

\* A thread that goes from one phase to the next at the page it has requested.
LEMMA TurnKeeps ==
  ASSUME IInv, NEW t \in Threads, Busy(t), Asks(t),
         NEW phase \in {"wait", "render"}, Turn(t, phase),
         thread[t].page \in asked'[thread[t].item],
         next' = next, gathered' = gathered, found' = found, error' = error,
         failures' = failures, blocked' = blocked
  PROVE  IInv'
<1> DEFINE c == [thread[t] EXCEPT !.phase = phase]
<1>1. thread[t] \in Locals
  BY AtHand
<1>2. c \in Locals /\ c.phase = phase /\ c.item = thread[t].item
      /\ c.page = thread[t].page /\ c.stage = thread[t].stage
  BY <1>1 DEF Locals, Phases
<1>3. thread' = [thread EXCEPT ![t] = c]
  BY DEF IInv, Shape, Turn
<1> HIDE DEF c
<1> QED
  BY <1>2, <1>3, StaysKeeps

\* The plain request.
LEMMA RequestKeeps ==
  ASSUME IInv, NEW t \in Threads, Request(t)
  PROVE  IInv'
<1>1. Busy(t) /\ Ask(t) /\ blocked' = blocked
  BY DEF Request, Busy
<1>2. Asks(t) /\ thread[t].page \in asked'[thread[t].item]
  BY <1>1, AskedIt
<1>3. CASE Build(t)
  BY <1>1, <1>2, <1>3, BuildKeeps
<1>4. CASE Turn(t, "wait") /\ UNCHANGED <<next, found, error, failures, gathered>>
  BY <1>1, <1>2, <1>4, TurnKeeps
<1>5. CASE Reject(t, "unreadable")
  BY <1>1, <1>2, <1>5, RejectKeeps
<1> QED
  BY <1>3, <1>4, <1>5 DEF Request

\* What a thread renders, records or reads images of, it has requested.
LEMMA WasAsked ==
  ASSUME IInv, NEW t \in Threads, thread[t].phase \in {"wait", "render", "record", "image", "ocr"},
         asked' = asked
  PROVE  Busy(t) /\ Asks(t) /\ thread[t].page \in asked'[thread[t].item]
  BY DEF IInv, OnePage, Busy, Asks

\* A browser is started.
LEMMA AcquireKeeps ==
  ASSUME IInv, NEW t \in Threads, AcquireBrowser(t)
  PROVE  IInv'
<1>1. /\ thread[t].phase \in {"wait", "render", "record", "image", "ocr"} /\ asked' = asked
      /\ Turn(t, "render")
      /\ next' = next /\ gathered' = gathered /\ found' = found /\ error' = error
      /\ failures' = failures /\ blocked' = blocked
  BY DEF AcquireBrowser
<1> QED
  BY <1>1, WasAsked, TurnKeeps

\* A browser ends.
LEMMA RenderKeeps ==
  ASSUME IInv, NEW t \in Threads, RenderEnds(t)
  PROVE  IInv'
<1>1. /\ thread[t].phase \in {"wait", "render", "record", "image", "ocr"} /\ asked' = asked
      /\ blocked' = blocked
  BY DEF RenderEnds
<1>2. Busy(t) /\ Asks(t) /\ thread[t].page \in asked'[thread[t].item]
  BY <1>1, WasAsked
<1>3. CASE Build(t)
  BY <1>1, <1>2, <1>3, BuildKeeps
<1>4. CASE Reject(t, "unreadable")
  BY <1>1, <1>2, <1>4, RejectKeeps
<1> QED
  BY <1>3, <1>4 DEF RenderEnds

\* A domain is paused by the thread that was refused.
LEMMA RecordKeeps ==
  ASSUME IInv, NEW t \in Threads, Record(t)
  PROVE  IInv'
<1>1. /\ thread[t].phase = "record" /\ asked' = asked
      /\ blocked' = thread[t].copy /\ Reject(t, "blocked")
  BY DEF Record
<1>2. Busy(t) /\ Asks(t) /\ thread[t].page \in asked'[thread[t].item]
  BY <1>1, WasAsked
<1> QED
  BY <1>1, <1>2, RejectKeeps

\* An image is stored.
LEMMA WriteKeeps ==
  ASSUME IInv, NEW t \in Threads, WriteImage(t)
  PROVE  IInv'
<1>1. /\ thread[t].phase = "image" /\ asked' = asked
      /\ thread' = [thread EXCEPT ![t].phase = "ocr"]
      /\ next' = next /\ gathered' = gathered /\ found' = found /\ error' = error
      /\ failures' = failures /\ blocked' = blocked
  BY DEF WriteImage, Turn
<1>2. Busy(t) /\ Asks(t) /\ thread[t].page \in asked'[thread[t].item]
  BY <1>1, WasAsked
<1> DEFINE c == [thread[t] EXCEPT !.phase = "ocr"]
<1>3. thread[t] \in Locals
  BY <1>2, AtHand
<1>4. c \in Locals /\ c.phase = "ocr" /\ c.item = thread[t].item
      /\ c.page = thread[t].page /\ c.stage = thread[t].stage /\ c.image = thread[t].image
  BY <1>3 DEF Locals, Phases
<1>5. thread' = [thread EXCEPT ![t] = c]
  BY <1>1 DEF IInv, Shape
<1>6. thread[t].stage = "url" /\ thread[t].image \in 1..Site[thread[t].page].images
  BY <1>1, <1>2 DEF IInv, OnePage
<1> HIDE DEF c
<1> QED
  BY <1>1, <1>2, <1>4, <1>5, <1>6, StaysKeeps

\* The next image, or the end of the article.
LEMMA NextImageKeeps ==
  ASSUME IInv, NEW t \in Threads, thread[t].phase \in {"image", "ocr"}, NextImage(t),
         next' = next, gathered' = gathered, failures' = failures, blocked' = blocked,
         asked' = asked
  PROVE  IInv'
<1>1. Busy(t) /\ Asks(t) /\ thread[t].page \in asked'[thread[t].item]
  BY WasAsked
<1>2. thread[t].stage = "url" /\ thread[t].image \in 1..Site[thread[t].page].images
  BY <1>1 DEF IInv, OnePage
<1>3. thread[t] \in Locals /\ thread[t].page \in Pages
  BY <1>1, AtHand
<1>4. CASE /\ thread[t].image < Site[thread[t].page].images
           /\ thread' = [thread EXCEPT ![t].phase = "image", ![t].image = thread[t].image + 1]
           /\ found' = found /\ error' = error
  <2> DEFINE k == thread[t].image + 1
             c == [thread[t] EXCEPT !.phase = "image", !.image = k]
  <2>1. k \in Nat /\ k \in 1..Site[thread[t].page].images
    BY <1>2, <1>3, <1>4, SiteOK
  <2>2. thread' = [thread EXCEPT ![t] = c]
    BY <1>4 DEF IInv, Shape
  <2> HIDE DEF k
  <2>3. c \in Locals /\ c.phase = "image" /\ c.item = thread[t].item
        /\ c.page = thread[t].page /\ c.stage = thread[t].stage /\ c.image = k
    BY <1>3, <2>1 DEF Locals, Phases
  <2> HIDE DEF c
  <2> QED
    BY <1>1, <1>2, <1>4, <2>1, <2>2, <2>3, StaysKeeps
<1>5. CASE ArticleEnds(t)
  <2>1. /\ thread' = [thread EXCEPT ![t] = Idle]
        /\ \/ found' = [found EXCEPT ![thread[t].item] = {thread[t].page}] /\ error' = error
           \/ error' = [error EXCEPT ![thread[t].item] = "final"] /\ found' = found
    BY <1>5 DEF ArticleEnds
  <2> QED
    BY <1>1, <1>2, <2>1, EndsKeeps
<1> QED
  BY <1>4, <1>5 DEF NextImage

----------------------------------------------------------------------------
(* The theorems.                                                           *)

\* At the start nothing was asked for.
LEMMA InitInv == Init => IInv
<1> SUFFICES ASSUME Init PROVE IInv
  OBVIOUS
<1>1. /\ next = 1 /\ thread = [t \in Threads |-> Idle] /\ blocked = {}
      /\ found = [i \in Items |-> {}] /\ error = [i \in Items |-> NoError]
      /\ failures = {} /\ asked = [i \in Items |-> {}] /\ gathered = FALSE
  BY DEF Init
<1>2. 1 \in 1..(Len(Batch) + 1)
  OBVIOUS
<1>3. Shape
  BY <1>1, <1>2, IdleOK DEF Shape, Errors
<1>4. \A t \in Threads : ~Busy(t)
  BY <1>1, IdleOK DEF Busy
<1>5. ASSUME NEW i \in Items PROVE OneItem(i)
  <2>1. ~ (i < next)
    BY <1>1 DEF Items
  <2> QED
    BY <1>1, <2>1 DEF OneItem, NoError
<1>6. \A i \in Items, p \in Pages, e \in Errors : OneFailure(i, p, e)
  BY <1>1 DEF OneFailure
<1>7. Answer
  BY <1>1 DEF Answer
<1> QED
  BY <1>1, <1>3, <1>4, <1>5, <1>6, <1>7 DEF IInv, OnePage, Apart

\* The invariant is kept by every step.
LEMMA NextInv == IInv /\ [Next]_vars => IInv'
<1> SUFFICES ASSUME IInv, [Next]_vars PROVE IInv'
  OBVIOUS
<1>1. CASE UNCHANGED vars
  <2>1. /\ next' = next /\ thread' = thread /\ blocked' = blocked /\ found' = found
        /\ error' = error /\ failures' = failures /\ asked' = asked /\ gathered' = gathered
    BY <1>1 DEF vars
  <2> QED
    <3>1. Shape' /\ Apart' /\ Answer'
      BY <2>1 DEF IInv, Shape, Apart, Answer, Busy
    <3>2. \A d : Cause(d) => Cause(d)'
      BY <2>1 DEF Cause
    <3>3. ASSUME NEW t \in Threads PROVE OnePage(t)'
      <4>1. OnePage(t)
        BY DEF IInv
      <4> QED
        BY <2>1, <3>2, <4>1 DEF OnePage, Busy
    <3>4. ASSUME NEW i \in Items PROVE OneItem(i)'
      <4>1. OneItem(i)
        BY DEF IInv
      <4>2. ASSUME NEW p \in asked'[i] PROVE Known(i, p)'
        BY <2>1, <4>1, <4>2 DEF OneItem, Known, Busy
      <4>3. Served(i) => Served(i)'
        BY <2>1 DEF Served, Busy
      <4> QED
        BY <2>1, <3>2, <4>1, <4>2, <4>3 DEF OneItem
    <3>5. ASSUME NEW i \in Items, NEW p \in Pages, NEW e \in Errors PROVE OneFailure(i, p, e)'
      <4>1. OneFailure(i, p, e)
        BY DEF IInv
      <4> QED
        BY <2>1, <3>2, <4>1 DEF OneFailure
    <3>6. (\A d \in blocked : Cause(d))'
      BY <2>1 DEF IInv, Cause
    <3> QED
      BY <3>1, <3>3, <3>4, <3>5, <3>6 DEF IInv
<1>2. CASE Gather
  BY <1>2, GatherKeeps
<1>3. ASSUME NEW t \in Threads, Step(t) PROVE IInv'
  <2>1. CASE SkipImage(t) \/ OcrImage(t)
    <3>1. /\ thread[t].phase \in {"image", "ocr"} /\ NextImage(t)
          /\ next' = next /\ gathered' = gathered /\ failures' = failures /\ blocked' = blocked
          /\ asked' = asked
      BY <2>1 DEF SkipImage, OcrImage
    <3> QED
      BY <3>1, NextImageKeeps
  <2> QED
    BY <1>3, <2>1, TakeKeeps, PausedKeeps, RouteKeeps, SinglePageKeeps, RequestKeeps,
       AcquireKeeps, RenderKeeps, RecordKeeps, WriteKeeps DEF Step
<1> QED
  BY <1>1, <1>2, <1>3 DEF Next, Answered

\* The inductive invariant of the batch.
THEOREM Inv == Spec => []IInv
  BY InitInv, NextInv, PTL DEF Spec

\* Whatever a batch requested and did not get is among its failures: no thread
\* drops a page, and none overwrites what another has found or recorded.
THEOREM NothingIsHidden == Spec => []NothingHidden
<1>1. IInv => NothingHidden
  <2> SUFFICES ASSUME IInv, gathered, NEW i \in Items, NEW p \in asked[i]
               PROVE  p \in found[i] \/ \E e \in Errors : <<i, p, e>> \in failures
    BY DEF NothingHidden
  <2>1. Known(i, p) /\ \A t \in Threads : ~Busy(t)
    BY DEF IInv, OneItem, Answer
  <2>2. error[i] # NoError => error[i] \in Errors /\ <<i, Batch[i], error[i]>> \in failures
    BY DEF IInv, OneItem, Shape
  <2> QED
    BY <2>1, <2>2 DEF Known
<1> QED
  BY <1>1, Inv, PTL

\* No failure of an answer is made up: the page was requested, or its domain was
\* paused because of a refusal that the same answer names.
THEOREM FailuresExplained == Spec => []FailuresAreExplained
<1>1. IInv => FailuresAreExplained
  <2> SUFFICES ASSUME IInv, gathered, NEW i \in Items, NEW p \in Pages, NEW e \in Errors,
                      <<i, p, e>> \in failures
               PROVE  \/ e # "paused" /\ p \in asked[i]
                      \/ /\ e = "paused"
                         /\ \E j \in Items, q \in Pages :
                              /\ <<j, q, "blocked">> \in failures
                              /\ Site[q].domain = Site[p].domain
    BY Zenon DEF FailuresAreExplained
  <2>1. OneFailure(i, p, e)
    BY DEF IInv
  <2>2. \A j \in Items : error[j] = "blocked" => <<j, Batch[j], "blocked">> \in failures
    BY DEF IInv, OneItem, NoError
  <2>3. \A j \in Items : Batch[j] \in Pages
    BY DEF Items
  <2> QED
    BY <2>1, <2>2, <2>3 DEF OneFailure, Cause
<1> QED
  BY <1>1, Inv, PTL

\* When a batch is answered, each of its items has yielded its own page or has
\* failed with it and yielded nothing.
THEOREM EveryItemAnswered == Spec => []ItemsAreAnswered
<1>1. IInv => ItemsAreAnswered
  <2> SUFFICES ASSUME IInv, gathered, NEW i \in Items
               PROVE  /\ error[i] = NoError => Batch[i] \in found[i]
                      /\ error[i] # NoError => found[i] = {}
    BY DEF ItemsAreAnswered
  <2>1. next = Len(Batch) + 1 /\ \A t \in Threads : ~Busy(t)
    BY DEF IInv, Answer
  <2>2. i < next /\ ~Served(i)
    BY <2>1 DEF Items, Served
  <2> QED
    BY <2>2 DEF IInv, OneItem
<1> QED
  BY <1>1, Inv, PTL

----------------------------------------------------------------------------
(* A batch comes to an end.                                                *)

\* What a thread has left of its item, the most significant first: rounds
\* through the indexes of the portal, links of the page or index at hand, and
\* moves before the page at hand has ended.
Indexes(r) == Len(Site[Batch[r.item]].indexes)

RoundsLeft(r) ==
  IF r.stage = "url" THEN 2 * Indexes(r) + 4
  ELSE (IF r.index = 0 THEN 0 ELSE 2 * (Indexes(r) + 2 - r.index))
       + (IF r.stage = "index" THEN 1 ELSE 0)

LinksLeft(r) == Len(r.links)

ImagesLeft(r) == 2 * (Site[r.page].images - r.image)

MovesLeft(r) ==
  CASE r.phase = "check"   -> 2 * Site[r.page].images + 5
    [] r.phase = "request" -> 4
    [] r.phase = "wait"    -> 3
    [] r.phase = "render"  -> 2
    [] r.phase = "image"   -> ImagesLeft(r) + 2
    [] r.phase = "ocr"     -> ImagesLeft(r) + 1
    [] OTHER -> 1

LeftIsFinite ==
  \A t \in Threads : Busy(t) =>
    /\ RoundsLeft(thread[t]) \in Nat
    /\ LinksLeft(thread[t]) \in Nat
    /\ MovesLeft(thread[t]) \in Nat

LessLeft(c, r) ==
  \/ RoundsLeft(c) < RoundsLeft(r)
  \/ /\ RoundsLeft(c) = RoundsLeft(r)
     /\ \/ LinksLeft(c) < LinksLeft(r)
        \/ LinksLeft(c) = LinksLeft(r) /\ MovesLeft(c) < MovesLeft(r)

\* A thread takes an item, or is done with its item, or has less of it left.
MovesOn(t) ==
  \/ ~Busy(t) /\ next' = next + 1
  \/ Busy(t) /\ next' = next /\ (~Busy(t)' \/ LessLeft(thread'[t], thread[t]))

\* Every step of a batch takes one thread on and no other, or answers it.
BatchMovesOn ==
  [][\/ ~gathered /\ gathered' /\ UNCHANGED <<next, thread>>
     \/ \E t \in Threads : MovesOn(t) /\ \A u \in Threads \ {t} : thread'[u] = thread[u]]_vars

\* The browser is held by the thread that renders, and by no other: a thread
\* that waits for it is held up by one that does not wait.
RendererHolds == \A t \in Threads : thread[t].phase = "render" <=> browser = t

\* The page that lists a posting has no more indexes left than its portal has.
IndexOK(r) == r.phase # "idle" /\ r.stage # "url" => r.index <= Indexes(r) + 1

EndInv ==
  /\ IInv
  /\ \A t \in Threads : IndexOK(thread[t])

\* A thread goes on, and the others are where they were.
Goes(t) ==
  /\ next' = next
  /\ \A u \in Threads \ {t} : thread'[u] = thread[u]
  /\ thread'[t].phase # "idle" => LessLeft(thread'[t], thread[t]) /\ IndexOK(thread'[t])

\* The indexes of an item are counted.
LEMMA IndexesOK ==
  ASSUME NEW r, r.item \in Items
  PROVE  Indexes(r) \in Nat
<1>1. Batch[r.item] \in Pages
  BY DEF Items
<1>2. Site[Batch[r.item]].indexes \in Seq(Pages)
  BY <1>1, SiteOK
<1> QED
  BY <1>2 DEF Indexes

\* The rounds left are a number.
LEMMA RoundsOK ==
  ASSUME NEW r \in Locals, r.item \in Items, r.phase # "idle", IndexOK(r)
  PROVE  RoundsLeft(r) \in Nat
<1>1. Indexes(r) \in Nat /\ r.index \in Nat
  BY IndexesOK DEF Locals
<1>2. r.stage # "url" => r.index <= Indexes(r) + 1
  BY DEF IndexOK
<1> DEFINE n == Indexes(r)
<1> HIDE DEF n
<1> QED
  BY <1>1, <1>2 DEF RoundsLeft, n

\* What the rest of an item is, and which rounds are left after it.
LEMMA ContinueGoes ==
  ASSUME NEW s \in Locals, s.item \in Items, s.phase # "idle", IndexOK(s),
         NEW r \in Locals, r.item = s.item, NEW pages,
         \/ s.stage = "url" /\ r.index \in {0, 1}
         \/ s.stage = "index" /\ r.index = s.index
         \/ s.stage = "link" /\ r.index = s.index /\ Len(r.links) <= Len(s.links),
         Continue(r, pages).phase # "idle"
  PROVE  LessLeft(Continue(r, pages), s) /\ IndexOK(Continue(r, pages))
<1> DEFINE c == Continue(r, pages)
           p == Batch[r.item]
           n == Indexes(s)
           last == Expansion(p, r.quality, MaxExpansion)
           zero == [r EXCEPT !.index = 0]
<1>1. n \in Nat /\ s.index \in Nat /\ r.index \in Nat /\ r.links \in Seq(Pages) /\ s.links \in Seq(Pages)
  BY IndexesOK DEF Locals
<1>2. n = Len(Site[p].indexes)
  BY DEF Indexes
<1>3. s.stage # "url" => s.index <= n + 1
  BY DEF IndexOK
<1>4. s.stage \in {"url", "index", "link"}
  BY DEF Locals
<1>5. p \in Pages /\ last \in Seq(Pages)
  <2>1. p \in Pages
    BY DEF Items
  <2> QED
    BY <2>1, ExpansionOK DEF Locals
<1>6. RoundsLeft(s) = IF s.stage = "url" THEN 2 * n + 4
                      ELSE (IF s.index = 0 THEN 0 ELSE 2 * (n + 2 - s.index))
                           + (IF s.stage = "index" THEN 1 ELSE 0)
  BY Zenon DEF RoundsLeft
\* What the next record holds decides the rounds left.
<1>7. ASSUME NEW x \in Locals, x.item = s.item, x.stage \in {"index", "link"}
      PROVE  /\ RoundsLeft(x) = (IF x.index = 0 THEN 0 ELSE 2 * (n + 2 - x.index))
                                + (IF x.stage = "index" THEN 1 ELSE 0)
             /\ x.index <= n + 1 => IndexOK(x)
  <2>1. Indexes(x) = n
    BY <1>7 DEF Indexes
  <2> HIDE DEF n
  <2>2. x.stage # "url"
    BY <1>7
  <2> QED
    BY <2>1, <2>2, Zenon DEF RoundsLeft, IndexOK
<1>8. CASE c = Follow(r, r.links) /\ r.links # <<>>
  <2>1. c = [r EXCEPT !.phase = "check", !.stage = "link", !.page = Head(r.links),
                      !.links = Tail(r.links)]
    BY <1>8 DEF Follow
  <2>2. Onward(r, c)
    BY <1>1, <1>8, FollowOK
  <2>3. c \in Locals
    BY <2>2 DEF Onward
  <2>4. c.item = s.item /\ c.stage = "link" /\ c.index = r.index /\ c.links = Tail(r.links)
    BY <2>1 DEF Locals
  <2>5. Len(Tail(r.links)) = Len(r.links) - 1 /\ Len(r.links) \in Nat /\ Len(s.links) \in Nat
    BY <1>1, <1>8
  <2>6. RoundsLeft(c) = (IF r.index = 0 THEN 0 ELSE 2 * (n + 2 - r.index)) + 0
        /\ (r.index <= n + 1 => IndexOK(c))
    <3> HIDE DEF c, n
    <3> QED
      BY <2>3, <2>4, <1>7
  <2> HIDE DEF c, n
  <2>7. CASE s.stage = "link"
    <3>1. RoundsLeft(c) = RoundsLeft(s) /\ IndexOK(c)
      BY <2>6, <2>7, <1>1, <1>3, <1>6
    <3>2. LinksLeft(c) < LinksLeft(s)
      BY <2>4, <2>5, <2>7 DEF LinksLeft
    <3> QED
      BY <3>1, <3>2 DEF LessLeft, c
  <2>8. CASE s.stage = "index"
    <3>1. RoundsLeft(c) < RoundsLeft(s) /\ IndexOK(c)
      BY <2>6, <2>8, <1>1, <1>3, <1>6
    <3> QED
      BY <3>1 DEF LessLeft, c
  <2>9. CASE s.stage = "url"
    <3>1. RoundsLeft(c) < RoundsLeft(s) /\ IndexOK(c)
      BY <2>6, <2>9, <1>1, <1>6
    <3> QED
      BY <3>1 DEF LessLeft, c
  <2> QED
    BY <1>4, <2>7, <2>8, <2>9
<1>9. CASE /\ c = [r EXCEPT !.phase = "request", !.stage = "index",
                            !.page = Site[p].indexes[r.index], !.index = r.index + 1]
           /\ r.index \in 1..n
  <2> DEFINE h == Site[p].indexes[r.index]
             k == r.index + 1
  <2>1. c = [r EXCEPT !.phase = "request", !.stage = "index", !.page = h, !.index = k]
    BY <1>9
  <2>2. Onward(r, c)
    BY ContinueOK
  <2>3. c \in Locals
    BY <2>2 DEF Onward
  <2> HIDE DEF h, k
  <2>4. c.item = s.item /\ c.stage = "index" /\ c.index = k
    BY <2>1 DEF Locals
  <2>5. k = r.index + 1 /\ r.index \in 1..n
    BY <1>9 DEF k
  <2>6. RoundsLeft(c) = (IF k = 0 THEN 0 ELSE 2 * (n + 2 - k)) + 1
        /\ (k <= n + 1 => IndexOK(c))
    <3> HIDE DEF c, n
    <3> QED
      BY <2>3, <2>4, <1>7
  <2> HIDE DEF c, n
  <2>7. RoundsLeft(c) = 2 * (n + 1 - r.index) + 1 /\ IndexOK(c)
    BY <2>5, <2>6, <1>1
  <2>8. CASE s.stage = "link" \/ s.stage = "index"
    <3>1. r.index = s.index /\ s.index # 0
      BY <2>5, <2>8, <1>1
    <3>2. RoundsLeft(c) < RoundsLeft(s)
      BY <2>5, <2>7, <2>8, <3>1, <1>1, <1>6
    <3> QED
      BY <3>2, <2>7 DEF LessLeft, c
  <2>9. CASE s.stage = "url"
    <3>1. RoundsLeft(c) < RoundsLeft(s)
      BY <2>5, <2>7, <2>9, <1>1, <1>6
    <3> QED
      BY <3>1, <2>7 DEF LessLeft, c
  <2> QED
    BY <1>4, <2>8, <2>9
<1>10. CASE c = Follow(zero, last) /\ last # <<>> /\ r.index > n
  <2>1. zero \in Locals /\ zero.item = r.item /\ zero.index = 0
    BY DEF Locals
  <2> HIDE DEF zero, last
  <2>2. Onward(zero, c)
    BY <1>5, <1>10, <2>1, FollowOK
  <2>3. c \in Locals
    BY <2>2 DEF Onward
  <2>4. c = [zero EXCEPT !.phase = "check", !.stage = "link", !.page = Head(last),
                         !.links = Tail(last)]
    BY <1>10 DEF Follow
  <2>5. c.item = s.item /\ c.stage = "link" /\ c.index = 0
    <3> HIDE DEF c
    <3> QED
      BY <2>1, <2>4 DEF Locals
  <2>6. RoundsLeft(c) = 0 /\ IndexOK(c)
    <3> HIDE DEF c, n
    <3> QED
      BY <2>3, <2>5, <1>1, <1>7
  <2> HIDE DEF c, n
  <2>7. RoundsLeft(c) < RoundsLeft(s)
    BY <2>6, <1>1, <1>3, <1>4, <1>6, <1>10
  <2> QED
    BY <2>6, <2>7 DEF LessLeft, c
<1>11. \/ c = Follow(r, r.links) /\ r.links # <<>>
       \/ /\ c = [r EXCEPT !.phase = "request", !.stage = "index",
                           !.page = Site[p].indexes[r.index], !.index = r.index + 1]
          /\ r.index \in 1..n
       \/ c = Follow(zero, last) /\ last # <<>> /\ r.index > n
       \/ c = Idle
  <2> DEFINE w1 == r.links # <<>>
             w2 == r.links = <<>> /\ r.index \in 1..Len(Site[p].indexes)
             w3 == r.links = <<>> /\ r.index > Len(Site[p].indexes) /\ pages = {p} /\ last # <<>>
             onIndex == [r EXCEPT !.phase = "request", !.stage = "index",
                                  !.page = Site[p].indexes[r.index], !.index = r.index + 1]
  <2>1. c = CASE w1 -> Follow(r, r.links) [] w2 -> onIndex
              [] w3 -> Follow(zero, last) [] OTHER -> Idle
    BY Zenon DEF Continue
  <2>2. (w1 => ~w2 /\ ~w3) /\ (w2 => ~w3)
    <3> HIDE DEF n
    <3> QED
      BY <1>1, <1>2
  <2> HIDE DEF onIndex, zero, last, c, n
  <2>3. (w1 => r.links # <<>>) /\ (w2 => r.index \in 1..n) /\ (w3 => last # <<>> /\ r.index > n)
    BY <1>2
  <2> HIDE DEF w1, w2, w3
  <2>4. \/ c = Follow(r, r.links) /\ r.links # <<>>
        \/ c = onIndex /\ r.index \in 1..n
        \/ c = Follow(zero, last) /\ last # <<>> /\ r.index > n
        \/ c = Idle
    BY <2>1, <2>2, <2>3
  <2> QED
    BY <2>4 DEF onIndex
<1>12. c # Idle
  BY IdleOK
<1> HIDE DEF c, zero, last, n
<1> QED
  BY <1>8, <1>9, <1>10, <1>11, <1>12 DEF c

\* What the thread at hand holds.
LEMMA AtHandEnds ==
  ASSUME EndInv, NEW t \in Threads, Busy(t)
  PROVE  /\ thread[t] \in Locals /\ thread[t].item \in Items /\ thread[t].page \in Pages
         /\ thread[t].phase # "idle" /\ IndexOK(thread[t])
  BY AtHand, Zenon DEF EndInv, Busy

\* A thread whose record is replaced goes on if the record does.
LEMMA PutGoes ==
  ASSUME EndInv, NEW t \in Threads, NEW c \in Locals, thread' = [thread EXCEPT ![t] = c],
         next' = next,
         c.phase # "idle" => LessLeft(c, thread[t]) /\ IndexOK(c)
  PROVE  Goes(t)
<1>1. thread'[t] = c /\ \A u \in Threads \ {t} : thread'[u] = thread[u]
  BY PutThread DEF EndInv
<1> QED
  BY <1>1, Zenon DEF Goes

\* A thread that stays at its page has fewer moves left there.
LEMMA StaysGoes ==
  ASSUME EndInv, NEW t \in Threads, Busy(t), NEW c \in Locals,
         thread' = [thread EXCEPT ![t] = c], next' = next,
         c.item = thread[t].item, c.stage = thread[t].stage, c.index = thread[t].index,
         c.links = thread[t].links, MovesLeft(c) < MovesLeft(thread[t])
  PROVE  Goes(t)
<1>1. Indexes(c) = Indexes(thread[t])
  BY DEF Indexes
<1>2. RoundsLeft(c) = RoundsLeft(thread[t]) /\ LinksLeft(c) = LinksLeft(thread[t])
  BY <1>1, Zenon DEF RoundsLeft, LinksLeft
<1>3. IndexOK(c)
  BY <1>1, AtHandEnds, Zenon DEF IndexOK
<1> QED
  BY <1>2, <1>3, PutGoes, Zenon DEF LessLeft

\* A thread that is done with its item.
LEMMA IdleGoes ==
  ASSUME EndInv, NEW t \in Threads, thread' = [thread EXCEPT ![t] = Idle], next' = next
  PROVE  Goes(t)
  BY IdleOK, PutGoes, Zenon

\* The moves left in each phase.
LEMMA MovesOK ==
  ASSUME NEW r \in Locals, r.page \in Pages
  PROVE  /\ r.phase = "check" => MovesLeft(r) = 2 * Site[r.page].images + 5
         /\ r.phase = "request" => MovesLeft(r) = 4
         /\ r.phase = "wait" => MovesLeft(r) = 3
         /\ r.phase = "render" => MovesLeft(r) = 2
         /\ r.phase = "image" => MovesLeft(r) = 2 * (Site[r.page].images - r.image) + 2
         /\ r.phase = "ocr" => MovesLeft(r) = 2 * (Site[r.page].images - r.image) + 1
         /\ r.phase \in {"record", "idle"} => MovesLeft(r) = 1
<1> DEFINE m == 2 * Site[r.page].images + 5
           a == ImagesLeft(r) + 2
           b == ImagesLeft(r) + 1
<1>1. MovesLeft(r) = CASE r.phase = "check" -> m [] r.phase = "request" -> 4
                       [] r.phase = "wait" -> 3 [] r.phase = "render" -> 2
                       [] r.phase = "image" -> a [] r.phase = "ocr" -> b [] OTHER -> 1
  BY Zenon DEF MovesLeft
<1>2. a = 2 * (Site[r.page].images - r.image) + 2 /\ b = 2 * (Site[r.page].images - r.image) + 1
  BY Zenon DEF ImagesLeft
<1> DEFINE ph == r.phase
<1> HIDE DEF m, a, b, ph
<1>3. MovesLeft(r) = CASE ph = "check" -> m [] ph = "request" -> 4
                       [] ph = "wait" -> 3 [] ph = "render" -> 2
                       [] ph = "image" -> a [] ph = "ocr" -> b [] OTHER -> 1
  BY <1>1 DEF ph
<1>4. /\ ph = "check" => MovesLeft(r) = m
      /\ ph = "request" => MovesLeft(r) = 4
      /\ ph = "wait" => MovesLeft(r) = 3
      /\ ph = "render" => MovesLeft(r) = 2
      /\ ph = "image" => MovesLeft(r) = a
      /\ ph = "ocr" => MovesLeft(r) = b
      /\ ph \in {"record", "idle"} => MovesLeft(r) = 1
  BY <1>3
<1> QED
  BY <1>2, <1>4, Zenon DEF m, ph

\* The rest of an item is less than the item.
LEMMA OnGoes ==
  ASSUME EndInv, NEW t \in Threads, Busy(t), next' = next,
         NEW r \in Locals, r.item = thread[t].item, NEW pages,
         \/ thread[t].stage = "url" /\ r.index \in {0, 1}
         \/ thread[t].stage = "index" /\ r.index = thread[t].index
         \/ /\ thread[t].stage = "link" /\ r.index = thread[t].index
            /\ Len(r.links) <= Len(thread[t].links),
         thread' = [thread EXCEPT ![t] = Continue(r, pages)]
  PROVE  Goes(t)
<1> DEFINE c == Continue(r, pages)
           s == thread[t]
<1>1. s \in Locals /\ s.item \in Items /\ s.phase # "idle" /\ IndexOK(s)
  BY AtHandEnds
<1>2. c \in Locals
  BY <1>1, ContinueOK DEF Onward
<1>3. c.phase # "idle" => LessLeft(c, s) /\ IndexOK(c)
  BY <1>1, ContinueGoes
<1> HIDE DEF c
<1>4. thread' = [thread EXCEPT ![t] = c]
  BY DEF c
<1> QED
  BY <1>2, <1>3, <1>4, PutGoes

\* A thread that has read the page of its item.
PageRead(s, quality, index, links) ==
  [s EXCEPT !.quality = quality, !.index = index, !.links = links]

\* It holds what it held but for the links, the index and the worth of the page.
LEMMA PageReadOK ==
  ASSUME NEW s \in Locals, NEW quality \in Good, NEW index \in Nat, NEW links \in Seq(Pages)
  PROVE  /\ PageRead(s, quality, index, links) \in Locals
         /\ PageRead(s, quality, index, links).item = s.item
         /\ PageRead(s, quality, index, links).index = index
<1> DEFINE a == [s EXCEPT !.quality = quality]
           b == [a EXCEPT !.index = index]
           r == [b EXCEPT !.links = links]
<1>1. a \in Locals /\ a.item = s.item
  BY DEF Locals
<1> HIDE DEF a
<1>2. b \in Locals /\ b.item = a.item /\ b.index = index
  BY <1>1 DEF Locals
<1> HIDE DEF b
<1>3. r \in Locals /\ r.item = b.item /\ r.index = b.index
  BY <1>2 DEF Locals
<1>4. r = PageRead(s, quality, index, links)
  BY DEF PageRead, a, b
<1> HIDE DEF r
<1> QED
  BY <1>1, <1>2, <1>3, <1>4

\* A page that is captured.
LEMMA ServeGoes ==
  ASSUME EndInv, NEW t \in Threads, Busy(t), NEW quality \in Good, Serve(t, quality)
  PROVE  Goes(t)
<1> DEFINE s == thread[t]
           pages == found[s.item] \cup {s.page}
           index == IF Site[s.page].details = "campus" /\ quality \in Complete THEN 1 ELSE 0
           links == IF index = 1 THEN <<>> ELSE Expansion(s.page, quality, MaxExpansion)
           more == Expansion(s.page, quality, MaxCampus)
           r1 == [s EXCEPT !.quality = quality, !.index = index, !.links = links]
           r2 == [s EXCEPT !.links = more]
<1>1. s \in Locals /\ s.item \in Items /\ s.page \in Pages
  BY AtHandEnds
<1>2. next' = next
  BY Zenon DEF Serve
<1>3. links \in Seq(Pages) /\ more \in Seq(Pages) /\ index \in {0, 1}
  <2>1. more \in Seq(Pages) /\ Expansion(s.page, quality, MaxExpansion) \in Seq(Pages)
    BY <1>1, ExpansionOK
  <2> HIDE DEF s, more
  <2> QED
    BY <2>1
<1>4. \/ s.stage = "url" /\ thread' = [thread EXCEPT ![t] = Continue(r1, pages)]
      \/ thread' = [thread EXCEPT ![t] = Idle]
      \/ s.stage = "index" /\ thread' = [thread EXCEPT ![t] = Continue(r2, pages)]
      \/ s.stage = "link" /\ thread' = [thread EXCEPT ![t] = Continue(s, pages)]
  BY Zenon DEF Serve
<1> HIDE DEF links, more, index
<1>5. r1 \in Locals /\ r1.item = s.item /\ r1.index = index
  <2>1. index \in Nat /\ links \in Seq(Pages) /\ quality \in Good
    BY <1>3
  <2>2. r1 = PageRead(s, quality, index, links)
    BY DEF PageRead
  <2> HIDE DEF r1, s
  <2> QED
    BY <1>1, <2>1, <2>2, PageReadOK
<1>6. r2 \in Locals /\ r2.item = s.item /\ r2.index = s.index
  BY <1>1, <1>3 DEF Locals
<1>7. Len(s.links) <= Len(s.links)
  <2>1. s.links \in Seq(Pages)
    BY <1>1 DEF Locals
  <2> QED
    BY <2>1
<1> HIDE DEF r1, r2, pages
<1>8. CASE s.stage = "url" /\ thread' = [thread EXCEPT ![t] = Continue(r1, pages)]
  BY <1>1, <1>2, <1>3, <1>5, <1>8, OnGoes
<1>9. CASE s.stage = "index" /\ thread' = [thread EXCEPT ![t] = Continue(r2, pages)]
  BY <1>1, <1>2, <1>6, <1>9, OnGoes
<1>10. CASE s.stage = "link" /\ thread' = [thread EXCEPT ![t] = Continue(s, pages)]
  BY <1>1, <1>2, <1>7, <1>10, OnGoes
<1>11. CASE thread' = [thread EXCEPT ![t] = Idle]
  BY <1>2, <1>11, IdleGoes
<1> QED
  BY <1>4, <1>8, <1>9, <1>10, <1>11

\* A page that is not had.
LEMMA RejectGoes ==
  ASSUME EndInv, NEW t \in Threads, Busy(t), NEW e, Reject(t, e)
  PROVE  Goes(t)
<1> DEFINE s == thread[t]
           left == IF e \in {"blocked", "paused"} THEN <<>> ELSE s.links
           r == [s EXCEPT !.links = left]
<1>1. s \in Locals /\ s.item \in Items
  BY AtHandEnds
<1>2. next' = next
  BY Zenon DEF Reject
<1>3. \/ thread' = [thread EXCEPT ![t] = Idle]
      \/ s.stage # "url" /\ thread' = [thread EXCEPT ![t] = Continue(r, found[s.item])]
  BY Zenon DEF Reject
<1>4. left \in Seq(Pages) /\ Len(left) <= Len(s.links)
  <2>1. s.links \in Seq(Pages) /\ <<>> \in Seq(Pages) /\ Len(<<>>) = 0
    BY <1>1 DEF Locals
  <2>2. Len(s.links) \in Nat
    BY <2>1
  <2> QED
    BY <2>1, <2>2
<1> HIDE DEF left
<1>5. r \in Locals /\ r.item = s.item /\ r.index = s.index /\ r.links = left
  BY <1>1, <1>4 DEF Locals
<1>6. s.stage \in {"url", "index", "link"}
  BY <1>1 DEF Locals
<1> HIDE DEF r
<1>7. CASE s.stage # "url" /\ thread' = [thread EXCEPT ![t] = Continue(r, found[s.item])]
  BY <1>1, <1>2, <1>4, <1>5, <1>6, <1>7, OnGoes
<1>8. CASE thread' = [thread EXCEPT ![t] = Idle]
  BY <1>2, <1>8, IdleGoes
<1> QED
  BY <1>3, <1>7, <1>8

\* What came is a page, a refusal to be recorded, or an error.
LEMMA BuildGoes ==
  ASSUME EndInv, NEW t \in Threads, Busy(t), Build(t),
         thread[t].phase \in {"request", "render"}
  PROVE  Goes(t)
<1> DEFINE s == thread[t]
           copy == blocked \cup {Site[s.page].domain}
           c == [s EXCEPT !.phase = "record", !.copy = copy]
<1>1. s \in Locals /\ s.page \in Pages
  BY AtHandEnds
<1>2. CASE Refused(t)
  <2>1. thread' = [thread EXCEPT ![t] = c] /\ next' = next
    BY <1>2 DEF Refused
  <2>2. copy \in SUBSET Domains
    BY <1>1, SiteOK DEF EndInv, IInv, Shape
  <2> HIDE DEF copy
  <2>3. /\ c \in Locals /\ c.phase = "record" /\ c.item = s.item /\ c.stage = s.stage
        /\ c.index = s.index /\ c.links = s.links /\ c.page = s.page
    BY <1>1, <2>2 DEF Locals, Phases
  <2> HIDE DEF c
  <2>4. MovesLeft(c) < MovesLeft(s)
    BY <1>1, <2>3, MovesOK
  <2> QED
    BY <2>1, <2>3, <2>4, StaysGoes
<1>3. CASE \E quality \in Good : Serve(t, quality)
  BY <1>3, ServeGoes
<1>4. CASE Reject(t, "final")
  BY <1>4, RejectGoes
<1> QED
  BY <1>2, <1>3, <1>4, Zenon DEF Build

\* A thread that turns to the next phase at its page.
LEMMA TurnGoes ==
  ASSUME EndInv, NEW t \in Threads, Busy(t), NEW phase \in Phases, Turn(t, phase), next' = next,
         \/ thread[t].phase = "check" /\ phase = "request"
         \/ thread[t].phase = "request" /\ phase = "wait"
         \/ thread[t].phase = "wait" /\ phase = "render"
         \/ thread[t].phase = "image" /\ phase = "ocr"
  PROVE  Goes(t)
<1> DEFINE s == thread[t]
           c == [s EXCEPT !.phase = phase]
<1>1. s \in Locals /\ s.page \in Pages
  BY AtHandEnds
<1>2. /\ c \in Locals /\ c.phase = phase /\ c.item = s.item /\ c.stage = s.stage
      /\ c.index = s.index /\ c.links = s.links /\ c.page = s.page /\ c.image = s.image
  BY <1>1 DEF Locals
<1>3. thread' = [thread EXCEPT ![t] = c]
  BY DEF EndInv, IInv, Shape, Turn
<1>4. Site[s.page].images \in Nat /\ s.image \in Nat
  BY <1>1, SiteOK DEF Locals
<1> HIDE DEF c
<1>5. MovesLeft(c) < MovesLeft(s)
  <2> DEFINE i == Site[s.page].images
             x == c.phase
             y == s.phase
  <2>1. /\ y = "check" => MovesLeft(s) = 2 * i + 5
        /\ y = "request" => MovesLeft(s) = 4
        /\ y = "wait" => MovesLeft(s) = 3
        /\ y = "image" => MovesLeft(s) = 2 * (i - s.image) + 2
    BY <1>1, MovesOK
  <2>2. /\ x = "request" => MovesLeft(c) = 4
        /\ x = "wait" => MovesLeft(c) = 3
        /\ x = "render" => MovesLeft(c) = 2
        /\ x = "ocr" => MovesLeft(c) = 2 * (i - s.image) + 1
    <3>1. c.page \in Pages /\ c.page = s.page
      BY <1>1, <1>2
    <3> QED
      BY <1>2, <3>1, MovesOK
  <2> HIDE DEF i
  <2>3. i \in Nat
    BY <1>4 DEF i
  <2> QED
    BY <1>2, <1>4, <2>1, <2>2, <2>3
<1> QED
  BY <1>2, <1>3, <1>5, StaysGoes

\* A thread that turns to an image.
AtImage(s, k) == [s EXCEPT !.phase = "image", !.image = k]

\* It holds what it held but for the phase and the number of the image.
LEMMA AtImageOK ==
  ASSUME NEW s \in Locals, NEW k \in Nat
  PROVE  LET c == AtImage(s, k) IN
         /\ c \in Locals /\ c.phase = "image" /\ c.item = s.item /\ c.stage = s.stage
         /\ c.index = s.index /\ c.links = s.links /\ c.page = s.page /\ c.image = k
<1> DEFINE a == [s EXCEPT !.phase = "image"]
           c == [a EXCEPT !.image = k]
<1>1. /\ a \in Locals /\ a.phase = "image" /\ a.item = s.item /\ a.stage = s.stage
      /\ a.index = s.index /\ a.links = s.links /\ a.page = s.page
  BY DEF Locals, Phases
<1> HIDE DEF a
<1>2. /\ c \in Locals /\ c.phase = a.phase /\ c.item = a.item /\ c.stage = a.stage
      /\ c.index = a.index /\ c.links = a.links /\ c.page = a.page /\ c.image = k
  BY <1>1 DEF Locals
<1>3. c = AtImage(s, k)
  BY DEF AtImage, a
<1> HIDE DEF c
<1> QED
  BY <1>1, <1>2, <1>3, Zenon

\* A thread that turns to an image of its article.
LEMMA ImageGoes ==
  ASSUME EndInv, NEW t \in Threads, Busy(t), next' = next, NEW k \in 1..Site[thread[t].page].images,
         thread' = [thread EXCEPT ![t].phase = "image", ![t].image = k],
         \/ thread[t].phase = "check"
         \/ thread[t].phase \in {"image", "ocr"} /\ k = thread[t].image + 1
  PROVE  Goes(t)
<1> DEFINE s == thread[t]
           c == [s EXCEPT !.phase = "image", !.image = k]
           i == Site[s.page].images
<1>1. s \in Locals /\ s.page \in Pages
  BY AtHandEnds
<1>2. i \in Nat /\ s.image \in Nat /\ k \in 1..i
  BY <1>1, SiteOK DEF Locals
<1> HIDE DEF i
<1>3. /\ c \in Locals /\ c.phase = "image" /\ c.item = s.item /\ c.stage = s.stage
      /\ c.index = s.index /\ c.links = s.links /\ c.page = s.page /\ c.image = k
  <2>1. c = AtImage(s, k)
    BY DEF AtImage
  <2>2. k \in Nat
    BY <1>2
  <2> HIDE DEF c, s
  <2> QED
    BY <1>1, <2>1, <2>2, AtImageOK, Zenon
<1>4. thread' = [thread EXCEPT ![t] = c]
  BY DEF EndInv, IInv, Shape
<1> HIDE DEF c
<1>5. MovesLeft(c) = 2 * (i - k) + 2
  <2>1. MovesLeft(c) = 2 * (Site[c.page].images - c.image) + 2
    BY <1>1, <1>3, MovesOK
  <2> QED
    BY <1>3, <2>1 DEF i
<1>6. /\ s.phase = "check" => MovesLeft(s) = 2 * i + 5
      /\ s.phase = "image" => MovesLeft(s) = 2 * (i - s.image) + 2
      /\ s.phase = "ocr" => MovesLeft(s) = 2 * (i - s.image) + 1
  BY <1>1, MovesOK DEF i
<1>7. MovesLeft(c) < MovesLeft(s)
  <2> DEFINE x == s.image
             left == MovesLeft(s)
             after == MovesLeft(c)
  <2>1. x \in Nat /\ i \in Nat /\ k \in Nat /\ k >= 1 /\ after = 2 * (i - k) + 2
    BY <1>2, <1>5
  <2>2. \/ left = 2 * i + 5
        \/ k = x + 1 /\ left \in {2 * (i - x) + 2, 2 * (i - x) + 1}
    BY <1>6, Zenon
  <2> HIDE DEF x, left, after
  <2>3. after < left
    BY <2>1, <2>2
  <2> QED
    BY <2>3 DEF left, after
<1> QED
  BY <1>3, <1>4, <1>7, StaysGoes

\* The next image of an article, or its end.
LEMMA NextImageGoes ==
  ASSUME EndInv, NEW t \in Threads, thread[t].phase \in {"image", "ocr"}, NextImage(t),
         next' = next
  PROVE  Goes(t)
<1>1. Busy(t)
  BY DEF Busy
<1>2. thread[t] \in Locals /\ thread[t].page \in Pages
  BY <1>1, AtHandEnds
<1>3. thread[t].image \in Nat /\ Site[thread[t].page].images \in Nat
  BY <1>2, SiteOK DEF Locals
<1>4. CASE /\ thread[t].image < Site[thread[t].page].images
           /\ thread' = [thread EXCEPT ![t].phase = "image", ![t].image = thread[t].image + 1]
  <2>1. thread[t].image + 1 \in 1..Site[thread[t].page].images
    BY <1>3, <1>4
  <2> QED
    BY <1>1, <1>4, <2>1, ImageGoes
<1>5. CASE thread' = [thread EXCEPT ![t] = Idle]
  BY <1>5, IdleGoes
<1> QED
  BY <1>4, <1>5, Zenon DEF NextImage, ArticleEnds

\* An item is taken by a thread that has none.
LEMMA TakeEnds ==
  ASSUME EndInv, NEW t \in Threads, Take(t)
  PROVE  /\ ~Busy(t) /\ next' = next + 1
         /\ \A u \in Threads \ {t} : thread'[u] = thread[u]
         /\ IndexOK(thread'[t])
<1> DEFINE p == Batch[next]
           c == [Idle EXCEPT !.phase = "check", !.item = next, !.page = p]
<1>1. /\ thread[t].phase = "idle" /\ next' = next + 1
      /\ thread' = [thread EXCEPT ![t] = c]
  BY DEF Take
<1>2. c.stage = "url"
  BY DEF Idle
<1> HIDE DEF c
<1>3. IndexOK(c)
  BY <1>2 DEF IndexOK
<1>4. thread'[t] = c /\ \A u \in Threads \ {t} : thread'[u] = thread[u]
  BY <1>1 DEF EndInv, IInv, Shape
<1> QED
  BY <1>1, <1>3, <1>4 DEF Busy

\* Every other step of a thread brings it nearer to the end of its item.
LEMMA StepGoes ==
  ASSUME EndInv, NEW t \in Threads, Step(t), ~Take(t)
  PROVE  Busy(t) /\ Goes(t)
<1>1. CASE Paused(t)
  <2>1. thread[t].phase = "check" /\ Reject(t, "paused")
    BY <1>1 DEF Paused
  <2> QED
    BY <2>1, RejectGoes DEF Busy
<1>2. CASE Route(t)
  <2>1. /\ thread[t].phase = "check" /\ next' = next
        /\ \/ Turn(t, "request")
           \/ /\ Site[thread[t].page].images > 0
              /\ thread' = [thread EXCEPT ![t].phase = "image", ![t].image = 1]
    BY <1>2, Zenon DEF Route
  <2>2. Busy(t)
    BY <2>1 DEF Busy
  <2>3. thread[t].page \in Pages
    BY <2>2, AtHandEnds
  <2>4. Site[thread[t].page].images > 0 => 1 \in 1..Site[thread[t].page].images
    BY <2>3, SiteOK
  <2>5. "request" \in Phases
    BY DEF Phases
  <2> QED
    BY <2>1, <2>2, <2>4, <2>5, TurnGoes, ImageGoes
<1>3. CASE SinglePage(t)
  <2>1. thread[t].phase = "check" /\ next' = next /\ thread' = [thread EXCEPT ![t] = Idle]
    BY <1>3, Zenon DEF SinglePage
  <2> QED
    BY <2>1, IdleGoes DEF Busy
<1>4. CASE Request(t)
  <2>1. /\ thread[t].phase = "request"
        /\ Build(t) \/ (Turn(t, "wait") /\ next' = next) \/ Reject(t, "unreadable")
    BY <1>4, Zenon DEF Request
  <2>2. Busy(t) /\ "wait" \in Phases
    BY <2>1 DEF Busy, Phases
  <2>3. CASE Build(t)
    BY <2>1, <2>2, <2>3, BuildGoes
  <2>4. CASE Turn(t, "wait") /\ next' = next
    BY <2>1, <2>2, <2>4, TurnGoes
  <2>5. CASE Reject(t, "unreadable")
    BY <2>2, <2>5, RejectGoes
  <2> QED
    BY <2>1, <2>2, <2>3, <2>4, <2>5
<1>5. CASE AcquireBrowser(t)
  <2>1. thread[t].phase = "wait" /\ Turn(t, "render") /\ next' = next
    BY <1>5, Zenon DEF AcquireBrowser
  <2>2. Busy(t) /\ "render" \in Phases
    BY <2>1 DEF Busy, Phases
  <2> QED
    BY <2>1, <2>2, TurnGoes
<1>6. CASE RenderEnds(t)
  <2>1. thread[t].phase = "render" /\ (Build(t) \/ Reject(t, "unreadable"))
    BY <1>6, Zenon DEF RenderEnds
  <2>2. Busy(t)
    BY <2>1 DEF Busy
  <2>3. CASE Build(t)
    BY <2>1, <2>2, <2>3, BuildGoes
  <2>4. CASE Reject(t, "unreadable")
    BY <2>2, <2>4, RejectGoes
  <2> QED
    BY <2>1, <2>2, <2>3, <2>4
<1>7. CASE Record(t)
  <2>1. thread[t].phase = "record" /\ Reject(t, "blocked")
    BY <1>7, Zenon DEF Record
  <2> QED
    BY <2>1, RejectGoes DEF Busy
<1>8. CASE WriteImage(t)
  <2>1. thread[t].phase = "image" /\ Turn(t, "ocr") /\ next' = next
    BY <1>8, Zenon DEF WriteImage
  <2>2. Busy(t) /\ "ocr" \in Phases
    BY <2>1 DEF Busy, Phases
  <2> QED
    BY <2>1, <2>2, TurnGoes
<1>9. CASE SkipImage(t) \/ OcrImage(t)
  <2>1. thread[t].phase \in {"image", "ocr"} /\ NextImage(t) /\ next' = next
    BY <1>9, Zenon DEF SkipImage, OcrImage
  <2> QED
    BY <2>1, NextImageGoes DEF Busy
<1> QED
  BY <1>1, <1>2, <1>3, <1>4, <1>5, <1>6, <1>7, <1>8, <1>9, Zenon DEF Step

\* What is left of the items at hand is a number.
LEMMA EndIsFinite == EndInv => LeftIsFinite
<1> SUFFICES ASSUME EndInv, NEW t \in Threads, Busy(t)
             PROVE  /\ RoundsLeft(thread[t]) \in Nat /\ LinksLeft(thread[t]) \in Nat
                    /\ MovesLeft(thread[t]) \in Nat
  BY Zenon DEF LeftIsFinite
<1> DEFINE s == thread[t]
           i == Site[s.page].images
<1>1. s \in Locals /\ s.item \in Items /\ s.page \in Pages /\ s.phase # "idle" /\ IndexOK(s)
  BY AtHandEnds
<1>2. s.links \in Seq(Pages) /\ s.image \in Nat /\ s.phase \in Phases
  BY <1>1 DEF Locals
<1>3. LinksLeft(s) \in Nat
  BY <1>2 DEF LinksLeft
<1>4. i \in Nat /\ (s.phase \in {"image", "ocr"} => s.image \in 1..i)
  BY <1>1, SiteOK DEF EndInv, IInv, OnePage, Busy
<1>5. /\ s.phase = "check" => MovesLeft(s) = 2 * i + 5
      /\ s.phase = "request" => MovesLeft(s) = 4
      /\ s.phase = "wait" => MovesLeft(s) = 3
      /\ s.phase = "render" => MovesLeft(s) = 2
      /\ s.phase = "image" => MovesLeft(s) = 2 * (i - s.image) + 2
      /\ s.phase = "ocr" => MovesLeft(s) = 2 * (i - s.image) + 1
      /\ s.phase \in {"record", "idle"} => MovesLeft(s) = 1
  BY <1>1, MovesOK
<1> HIDE DEF i
<1>6. MovesLeft(s) \in Nat
  BY <1>2, <1>4, <1>5 DEF Phases
<1> QED
  BY <1>1, <1>3, <1>6, RoundsOK

\* The measure is kept up by every step.
LEMMA EndKeeps == EndInv /\ [Next]_vars => EndInv'
<1> SUFFICES ASSUME EndInv, [Next]_vars PROVE EndInv'
  OBVIOUS
<1>1. IInv'
  BY NextInv DEF EndInv
<1>2. ASSUME thread' = thread PROVE EndInv'
  BY <1>1, <1>2 DEF EndInv
<1>3. ASSUME NEW t \in Threads, Step(t) PROVE EndInv'
  <2>1. /\ \A u \in Threads \ {t} : thread'[u] = thread[u]
        /\ IndexOK(thread'[t])
    BY <1>3, TakeEnds, StepGoes DEF Goes, IndexOK
  <2> QED
    BY <1>1, <2>1 DEF EndInv
<1> QED
  BY <1>2, <1>3, Zenon DEF Next, Gather, Answered, vars

\* A step of a batch takes one thread on, or answers it.
LEMMA OneMoves ==
  ASSUME EndInv, [Next]_vars
  PROVE  \/ UNCHANGED vars
         \/ ~gathered /\ gathered' /\ UNCHANGED <<next, thread>>
         \/ \E t \in Threads : MovesOn(t) /\ \A u \in Threads \ {t} : thread'[u] = thread[u]
<1>1. CASE UNCHANGED vars \/ Answered
  BY <1>1, Zenon DEF Answered
<1>2. CASE Gather
  BY <1>2, Zenon DEF Gather
<1>3. ASSUME NEW t \in Threads, Step(t)
      PROVE  MovesOn(t) /\ \A u \in Threads \ {t} : thread'[u] = thread[u]
  <2>1. CASE Take(t)
    BY <2>1, TakeEnds, Zenon DEF MovesOn
  <2>2. CASE ~Take(t)
    <3>1. Busy(t) /\ Goes(t)
      BY <1>3, <2>2, StepGoes
    <3> QED
      BY <3>1, Zenon DEF MovesOn, Goes, Busy
  <2> QED
    BY <2>1, <2>2
<1> QED
  BY <1>1, <1>2, <1>3, Zenon DEF Next

\* A batch comes to an end whatever its threads meet and in whatever order they
\* run: each step of a busy thread leaves less of its item (rounds through the
\* indexes of the portal, then links, then moves at the page at hand), what is
\* left is a number, an item is taken only once, and no thread undoes what
\* another has done.  So no list of links, no refused page and no portal whose
\* indexes list each other keeps a thread for ever.
THEOREM BatchesMoveOn == Spec => []LeftIsFinite /\ BatchMovesOn
<1>1. Init => EndInv
  <2> SUFFICES ASSUME Init PROVE EndInv
    OBVIOUS
  <2>1. \A t \in Threads : thread[t].phase = "idle"
    BY IdleOK DEF Init
  <2> QED
    BY <2>1, InitInv DEF EndInv, IndexOK
<1>2. Spec => []EndInv
  BY <1>1, EndKeeps, PTL DEF Spec
<1>3. EndInv /\ [Next]_vars =>
        [\/ ~gathered /\ gathered' /\ UNCHANGED <<next, thread>>
         \/ \E t \in Threads :
              MovesOn(t) /\ \A u \in Threads \ {t} : thread'[u] = thread[u]]_vars
  BY OneMoves, Zenon
<1>4. Spec => BatchMovesOn
  BY <1>2, <1>3, PTL DEF Spec, BatchMovesOn
<1> QED
  BY <1>2, <1>4, EndIsFinite, PTL

----------------------------------------------------------------------------
(* The browser.                                                            *)

HolderInv == IInv /\ RendererHolds

\* A thread that puts down its page turns to another or to none.
LEMMA MovesOff ==
  ASSUME IInv, NEW t \in Threads, Busy(t),
         \/ thread' = [thread EXCEPT ![t] = Idle]
         \/ \E r \in Locals : \E pages : /\ r.item = thread[t].item
                                         /\ thread' = [thread EXCEPT ![t] = Continue(r, pages)]
  PROVE  thread'[t].phase # "render"
<1>1. CASE thread' = [thread EXCEPT ![t] = Idle]
  <2>1. thread'[t] = Idle
    BY <1>1, IdleOK, PutThread
  <2> QED
    BY <2>1, IdleOK
<1>2. ASSUME NEW r \in Locals, NEW pages, r.item = thread[t].item,
             thread' = [thread EXCEPT ![t] = Continue(r, pages)]
      PROVE  thread'[t].phase # "render"
  <2>1. Onward(r, Continue(r, pages))
    BY <1>2, AtHand, ContinueOK
  <2>2. Continue(r, pages) \in Locals /\ Continue(r, pages).phase # "render"
    BY <2>1 DEF Onward
  <2> QED
    BY <1>2, <2>2, PutThread
<1> QED
  BY <1>1, <1>2

\* So does one whose page is refused or is not had.
LEMMA RejectLeaves ==
  ASSUME IInv, NEW t \in Threads, Busy(t), NEW e, Reject(t, e)
  PROVE  thread'[t].phase # "render"
<1> DEFINE s == thread[t]
           left == IF e \in {"blocked", "paused"} THEN <<>> ELSE s.links
           r == [s EXCEPT !.links = left]
<1>1. s \in Locals
  BY AtHand
<1>2. left \in Seq(Pages)
  <2>1. s.links \in Seq(Pages) /\ <<>> \in Seq(Pages)
    BY <1>1 DEF Locals
  <2> QED
    BY <2>1
<1>3. \/ thread' = [thread EXCEPT ![t] = Idle]
      \/ thread' = [thread EXCEPT ![t] = Continue(r, found[s.item])]
  BY Zenon DEF Reject
<1> HIDE DEF left
<1>4. r \in Locals /\ r.item = s.item
  BY <1>1, <1>2 DEF Locals
<1> HIDE DEF r
<1> QED
  BY <1>3, <1>4, MovesOff

\* So does one whose page is captured.
LEMMA ServeLeaves ==
  ASSUME IInv, NEW t \in Threads, Busy(t), NEW quality \in Good, Serve(t, quality)
  PROVE  thread'[t].phase # "render"
<1> DEFINE s == thread[t]
           pages == found[s.item] \cup {s.page}
           index == IF Site[s.page].details = "campus" /\ quality \in Complete THEN 1 ELSE 0
           links == IF index = 1 THEN <<>> ELSE Expansion(s.page, quality, MaxExpansion)
           more == Expansion(s.page, quality, MaxCampus)
           r1 == [s EXCEPT !.quality = quality, !.index = index, !.links = links]
           r2 == [s EXCEPT !.links = more]
<1>1. s \in Locals /\ s.page \in Pages
  BY AtHand
<1>2. links \in Seq(Pages) /\ more \in Seq(Pages) /\ index \in Nat
  <2>1. more \in Seq(Pages) /\ Expansion(s.page, quality, MaxExpansion) \in Seq(Pages)
    BY <1>1, ExpansionOK
  <2> HIDE DEF s, more
  <2> QED
    BY <2>1
<1>3. \/ thread' = [thread EXCEPT ![t] = Continue(r1, pages)]
      \/ thread' = [thread EXCEPT ![t] = Idle]
      \/ thread' = [thread EXCEPT ![t] = Continue(r2, pages)]
      \/ thread' = [thread EXCEPT ![t] = Continue(s, pages)]
  BY Zenon DEF Serve
<1> HIDE DEF links, more, index
<1>4. r1 \in Locals /\ r1.item = s.item
  <2>1. r1 = PageRead(s, quality, index, links)
    BY DEF PageRead
  <2>2. s \in Locals /\ index \in Nat /\ links \in Seq(Pages) /\ quality \in Good
    BY <1>1, <1>2
  <2> HIDE DEF r1, s
  <2> QED
    BY <2>1, <2>2, PageReadOK
<1>5. r2 \in Locals /\ r2.item = s.item
  BY <1>1, <1>2 DEF Locals
<1> HIDE DEF r1, r2, pages
<1> QED
  BY <1>1, <1>3, <1>4, <1>5, MovesOff

\* A step that is not the start of a browser leaves its thread without one.
LEMMA RendersNot ==
  ASSUME IInv, NEW t \in Threads, Step(t), ~AcquireBrowser(t)
  PROVE  thread'[t].phase # "render"
<1>1. ASSUME NEW phase, phase # "render", Turn(t, phase), Busy(t) PROVE thread'[t].phase # "render"
  <2>1. thread[t] \in Locals /\ thread \in [Threads -> Locals]
    BY <1>1, AtHand DEF IInv, Shape
  <2> QED
    BY <1>1, <2>1 DEF Turn, Locals
<1>2. ASSUME NEW k, thread' = [thread EXCEPT ![t].phase = "image", ![t].image = k], Busy(t)
      PROVE  thread'[t].phase # "render"
  <2>1. thread[t] \in Locals /\ thread \in [Threads -> Locals]
    BY <1>2, AtHand DEF IInv, Shape
  <2> QED
    BY <1>2, <2>1 DEF Locals
<1>3. ASSUME Build(t), Busy(t) PROVE thread'[t].phase # "render"
  <2>1. CASE Refused(t)
    <3>1. thread[t] \in Locals /\ thread \in [Threads -> Locals]
      BY <1>3, AtHand DEF IInv, Shape
    <3> QED
      BY <2>1, <3>1 DEF Refused, Locals
  <2> QED
    BY <1>3, <2>1, ServeLeaves, RejectLeaves, Zenon DEF Build
<1>4. CASE Take(t)
  <2>1. thread \in [Threads -> Locals]
    BY DEF IInv, Shape
  <2>2. thread'[t] = [Idle EXCEPT !.phase = "check", !.item = next, !.page = Batch[next]]
    BY <1>4, <2>1 DEF Take
  <2> QED
    BY <2>2 DEF Idle
<1>5. ~Take(t) => Busy(t)
  BY Zenon DEF Step, Paused, Route, SinglePage, Request, AcquireBrowser, RenderEnds, Record,
     WriteImage, SkipImage, OcrImage, Busy
<1>6. \/ Take(t)
      \/ \E e : Reject(t, e)
      \/ Build(t)
      \/ \E phase \in {"request", "wait", "ocr"} : Turn(t, phase)
      \/ \E k : thread' = [thread EXCEPT ![t].phase = "image", ![t].image = k]
      \/ thread' = [thread EXCEPT ![t] = Idle]
  BY Zenon DEF Step, Paused, Route, SinglePage, Request, RenderEnds, Record, WriteImage,
     SkipImage, OcrImage, NextImage, ArticleEnds
<1>7. \A phase \in {"request", "wait", "ocr"} : phase # "render"
  OBVIOUS
<1>8. ASSUME thread' = [thread EXCEPT ![t] = Idle], Busy(t) PROVE thread'[t].phase # "render"
  BY <1>8, MovesOff
<1>9. ASSUME NEW e, Reject(t, e), Busy(t) PROVE thread'[t].phase # "render"
  BY <1>9, RejectLeaves
<1> QED
  BY <1>1, <1>2, <1>3, <1>4, <1>5, <1>6, <1>7, <1>8, <1>9, Zenon

\* Every step of a thread leaves the browser with the thread that renders.
LEMMA StepHolds ==
  ASSUME HolderInv, NEW t \in Threads, Step(t)
  PROVE  RendererHolds'
<1>1. \A u \in Threads \ {t} : thread'[u] = thread[u]
  <2>1. thread \in [Threads -> Locals]
    BY DEF HolderInv, IInv, Shape
  <2>2. \E c : thread' = [thread EXCEPT ![t] = c]
    BY Zenon DEF Step, Take, Paused, Route, SinglePage, Request, AcquireBrowser, RenderEnds,
       Record, WriteImage, SkipImage, OcrImage, NextImage, ArticleEnds, Build, Serve, Refused,
       Reject, Turn
  <2> QED
    BY <2>1, <2>2
<1>2. \A u \in Threads : thread[u].phase = "render" <=> browser = u
  BY DEF HolderInv, RendererHolds
<1>3. CASE AcquireBrowser(t)
  <2>1. browser = NoThread /\ browser' = t /\ thread' = [thread EXCEPT ![t].phase = "render"]
    BY <1>3 DEF AcquireBrowser, Turn
  <2>2. thread'[t].phase = "render"
    <3>1. thread \in [Threads -> Locals]
      BY DEF HolderInv, IInv, Shape
    <3>2. thread[t] \in Locals
      BY <3>1
    <3> QED
      BY <2>1, <3>1, <3>2 DEF Locals
  <2> QED
    BY <1>1, <1>2, <2>1, <2>2 DEF RendererHolds
<1>4. CASE RenderEnds(t)
  <2>1. thread[t].phase = "render" /\ browser' = NoThread /\ ~AcquireBrowser(t)
    BY <1>4 DEF RenderEnds, AcquireBrowser
  <2>2. thread'[t].phase # "render"
    BY <2>1, RendersNot DEF HolderInv
  <2> QED
    BY <1>1, <1>2, <2>1, <2>2 DEF RendererHolds
<1>5. CASE ~AcquireBrowser(t) /\ ~RenderEnds(t)
  <2>1. thread'[t].phase # "render"
    BY <1>5, RendersNot DEF HolderInv
  <2>2. thread[t].phase # "render" /\ browser' = browser
    BY <1>5, Zenon DEF Step, Take, Paused, Route, SinglePage, Request, Record, WriteImage,
       SkipImage, OcrImage, shared
  <2> QED
    BY <1>1, <1>2, <2>1, <2>2 DEF RendererHolds
<1> QED
  BY <1>3, <1>4, <1>5

\* The lock of the browser is held by the thread that renders and by no other,
\* so at most one browser runs, and a thread that waits for it is held up by a
\* thread that does not wait: the pool of a batch cannot wait for itself.
THEOREM RendererAlwaysHolds == Spec => []RendererHolds
<1>1. Init => HolderInv
  <2> SUFFICES ASSUME Init PROVE RendererHolds
    BY InitInv, Zenon DEF HolderInv
  <2>1. browser = NoThread /\ thread = [t \in Threads |-> Idle]
    BY DEF Init
  <2> QED
    BY <2>1, IdleOK DEF RendererHolds
<1>2. HolderInv /\ [Next]_vars => HolderInv'
  <2> SUFFICES ASSUME HolderInv, [Next]_vars PROVE HolderInv'
    OBVIOUS
  <2>1. IInv'
    BY NextInv DEF HolderInv
  <2>2. ASSUME thread' = thread, browser' = browser PROVE HolderInv'
    BY <2>1, <2>2 DEF HolderInv, RendererHolds
  <2>3. ASSUME NEW t \in Threads, Step(t) PROVE HolderInv'
    BY <2>1, <2>3, StepHolds, Zenon DEF HolderInv
  <2> QED
    BY <2>2, <2>3, Zenon DEF Next, Gather, Answered, vars, shared
<1> QED
  BY <1>1, <1>2, PTL DEF Spec, HolderInv

----------------------------------------------------------------------------
(* The recovery: the invariant.                                            *)

HIDE FetchAssumption DEF FetchAssumption
USE DiscoveryAssumption DEF DiscoveryAssumption

\* The queries of a recovery differ.  They do unless the goal is so long that
\* what is added to it is cut off.
HintsDiffer == \A i, j \in 1..Len(Hints) : Hints[i] = Hints[j] => i = j

\* While a recovery is still to request something it has no complete page.
Hungry ==
  stage \in {"priority", "branch", "expand", "seeds", "search", "fetch", "found"} =>
    \A i \in 1..Len(log) : ~log[i].complete

\* Before the first retry the pass's list holds the searches that were sent.
Spent ==
  ~progress.everRetried =>
    /\ step.kind # "new"
    /\ searches = pass.routes
    /\ Len(searches) <= MaxRoutes
    /\ IsFiniteSet(Elements(searches)) /\ Cardinality(Elements(searches)) = Len(searches)

\* What a recovery is going to search is not spent, differs, and fits.
Ready ==
  stage = "search" =>
    /\ \A i \in 1..Len(queries) : queries[i] \notin Elements(Routes)
    /\ \A i, j \in 1..Len(queries) : queries[i] = queries[j] => i = j
    /\ queries # <<>> => Len(queries) + Len(Routes) <= MaxRoutes

RecoveryInv ==
  /\ DiscoveryTypeOK /\ Spent /\ Hungry /\ StopsAtEvidence
  /\ HintsDiffer => Ready /\ RecoverySearchIsAllowed

----------------------------------------------------------------------------
(* The queries that are left.                                              *)

\* One step of Left: what is left of the first n queries.
LeftOf(spent, f, n) ==
  IF n = 0 THEN <<>>
  ELSE IF Hints[n] \in spent THEN f[n - 1]
  ELSE Append(f[n - 1], Hints[n])

\* The function that Left describes by recursion exists.
LEMMA LeftExists ==
  ASSUME NEW spent, NEW k \in Nat
  PROVE  \E f : f = [n \in 0..k |-> LeftOf(spent, f, n)]
<1> DEFINE Ex(m) == \E f : f = [n \in 0..m |-> LeftOf(spent, f, n)]
           None == {m \in Nat : ~Ex(m)}
<1> SUFFICES ASSUME None # {} PROVE FALSE
  BY Zenon
<1>1. PICK m \in None : \A y \in None : m <= y
  <2> HIDE DEF None
  <2>1. None \in SUBSET Nat
    BY DEF None
  <2> QED
    BY <2>1, Least
<1>2. Ex(0)
  <2> DEFINE f == [n \in 0..0 |-> <<>>]
  <2>1. f = [n \in 0..0 |-> LeftOf(spent, f, n)]
    BY DEF LeftOf
  <2> QED
    BY <2>1
<1>3. m # 0
  BY <1>1, <1>2
<1>4. Ex(m - 1)
  <2>1. m - 1 \in Nat /\ ~ (m <= m - 1)
    BY <1>3
  <2>2. m - 1 \notin None
    <3> HIDE DEF None
    <3> QED
      BY <1>1, <2>1
  <2> QED
    BY <2>1, <2>2
<1>5. PICK f : f = [n \in 0..m - 1 |-> LeftOf(spent, f, n)]
  BY <1>4
<1> DEFINE g == [n \in 0..m |-> IF n = m THEN LeftOf(spent, f, m) ELSE f[n]]
<1>6. ASSUME NEW n \in 0..m PROVE g[n] = LeftOf(spent, g, n)
  <2>1. n # 0 => n - 1 \in 0..m /\ n - 1 # m
    OBVIOUS
  <2>2. n # 0 => g[n - 1] = f[n - 1]
    BY <2>1
  <2>3. LeftOf(spent, g, n) = LeftOf(spent, f, n)
    <3> HIDE DEF g
    <3> QED
      BY <2>2 DEF LeftOf
  <2>4. n # m => n \in 0..m - 1
    OBVIOUS
  <2>5. n # m => f[n] = LeftOf(spent, f, n)
    BY <1>5, <2>4
  <2> QED
    BY <2>3, <2>5
<1>7. g = [n \in 0..m |-> LeftOf(spent, g, n)]
  <2>1. DOMAIN g = 0..m /\ g = [n \in 0..m |-> g[n]]
    OBVIOUS
  <2> HIDE DEF g
  <2> QED
    BY <1>6, <2>1
<1>8. Ex(m)
  <2> HIDE DEF g
  <2> QED
    BY <1>7
<1> QED
  BY <1>1, <1>8

\* What is left of the first n queries: some of them, none spent, in order.
LeftWell(spent, s, n) ==
  /\ s \in Seq(Queries)
  /\ \A i \in 1..Len(s) : s[i] \notin spent /\ \E k \in 1..n : s[i] = Hints[k]
  /\ HintsDiffer => \A i, j \in 1..Len(s) : s[i] = s[j] => i = j

\* A query more.
LEMMA LeftGrows ==
  ASSUME NEW spent, NEW n \in 1..Len(Hints), NEW s, LeftWell(spent, s, n - 1)
  PROVE  /\ LeftWell(spent, s, n)
         /\ Hints[n] \notin spent => LeftWell(spent, Append(s, Hints[n]), n)
<1>1. \A k \in 1..n - 1 : k \in 1..n /\ k \in 1..Len(Hints) /\ k # n
  OBVIOUS
<1>2. LeftWell(spent, s, n)
  BY <1>1 DEF LeftWell
<1>3. ASSUME Hints[n] \notin spent PROVE LeftWell(spent, Append(s, Hints[n]), n)
  <2> DEFINE h == Hints[n]
             a == Append(s, h)
  <2>1. h \in Queries
    BY DEF Queries
  <2>2. s \in Seq(Queries)
    BY DEF LeftWell
  <2>3. /\ a \in Seq(Queries) /\ Len(a) = Len(s) + 1 /\ a[Len(s) + 1] = h
        /\ \A i \in 1..Len(s) : a[i] = s[i]
    <3> HIDE DEF h
    <3> QED
      BY <2>1, <2>2, AppendProperties
  <2>4. Len(s) \in Nat
    BY <2>2
  <2>5. \A i \in 1..Len(a) : i \in 1..Len(s) \/ i = Len(s) + 1
    BY <2>3, <2>4
  <2>6. HintsDiffer => \A i \in 1..Len(s) : s[i] # h
    BY <1>1 DEF LeftWell, HintsDiffer
  <2>7. n \in 1..n
    OBVIOUS
  <2> HIDE DEF a
  <2>8. \A i \in 1..Len(a) : a[i] \notin spent /\ \E k \in 1..n : a[i] = Hints[k]
    <3>1. \A i \in 1..Len(s) : s[i] \notin spent /\ \E k \in 1..n : s[i] = Hints[k]
      BY <1>2 DEF LeftWell
    <3> TAKE i \in 1..Len(a)
    <3>3. CASE i \in 1..Len(s)
      <4>1. a[i] = s[i]
        BY <2>3, <3>3
      <4> QED
        BY <3>1, <3>3, <4>1
    <3>4. CASE i = Len(s) + 1
      <4>1. a[i] = Hints[n]
        BY <2>3, <3>4
      <4> QED
        BY <1>3, <2>7, <4>1
    <3> QED
      BY <2>5, <3>3, <3>4
  <2>9. HintsDiffer => \A i, j \in 1..Len(a) : a[i] = a[j] => i = j
    <3> HIDE DEF h
    <3> SUFFICES ASSUME HintsDiffer, NEW i \in 1..Len(a), NEW j \in 1..Len(a), a[i] = a[j]
                 PROVE  i = j
      OBVIOUS
    <3>1. \A k, l \in 1..Len(s) : s[k] = s[l] => k = l
      BY <1>2 DEF LeftWell
    <3>2. CASE i \in 1..Len(s) /\ j \in 1..Len(s)
      <4>1. a[i] = s[i] /\ a[j] = s[j]
        BY <2>3, <3>2
      <4> QED
        BY <3>1, <3>2, <4>1
    <3>3. CASE i \in 1..Len(s) /\ j = Len(s) + 1
      <4>1. a[i] = s[i] /\ a[j] = h
        BY <2>3, <3>3
      <4> QED
        BY <2>6, <3>3, <4>1
    <3>4. CASE i = Len(s) + 1 /\ j \in 1..Len(s)
      <4>1. a[i] = h /\ a[j] = s[j]
        BY <2>3, <3>4
      <4> QED
        BY <2>6, <3>4, <4>1
    <3> QED
      BY <2>5, <3>2, <3>3, <3>4
  <2>10. LeftWell(spent, a, n)
    BY <2>3, <2>8, <2>9 DEF LeftWell
  <2> QED
    BY <2>10 DEF a
<1> QED
  BY <1>2, <1>3

\* So is what is left of all of them.
LEMMA LeftKept ==
  ASSUME NEW spent
  PROVE  LET F == CHOOSE f : f = [n \in 0..Len(Hints) |-> LeftOf(spent, f, n)]
         IN  LeftWell(spent, F[Len(Hints)], Len(Hints))
<1> DEFINE F == CHOOSE f : f = [n \in 0..Len(Hints) |-> LeftOf(spent, f, n)]
           k == Len(Hints)
<1>1. k \in Nat
  OBVIOUS
<1>2. F = [n \in 0..k |-> LeftOf(spent, F, n)]
  <2> HIDE DEF k
  <2>1. \E f : f = [n \in 0..k |-> LeftOf(spent, f, n)]
    BY <1>1, LeftExists
  <2> QED
    BY <2>1, Zenon DEF k
<1> HIDE DEF F
<1>3. \A n \in 0..k : F[n] = LeftOf(spent, F, n)
  BY <1>2
<1> DEFINE Wrong == {n \in 0..k : ~LeftWell(spent, F[n], n)}
<1>4. Wrong = {}
  <2> SUFFICES ASSUME Wrong # {} PROVE FALSE
    OBVIOUS
  <2>1. PICK n \in Wrong : \A y \in Wrong : n <= y
    <3>1. Wrong \in SUBSET Nat
      BY <1>1
    <3> HIDE DEF Wrong
    <3> QED
      BY <3>1, Least
  <2>2. n \in 0..k /\ ~LeftWell(spent, F[n], n) /\ F[n] = LeftOf(spent, F, n)
    BY <1>3, <2>1
  <2>3. n # 0
    <3>1. LeftWell(spent, <<>>, 0)
      BY DEF LeftWell
    <3> QED
      BY <2>2, <3>1 DEF LeftOf
  <2>4. n - 1 \in 0..k /\ n \in 1..Len(Hints) /\ ~ (n <= n - 1)
    BY <2>2, <2>3, <1>1
  <2>5. LeftWell(spent, F[n - 1], n - 1)
    <3>1. n - 1 \notin Wrong
      <4> HIDE DEF Wrong
      <4> QED
        BY <2>1, <2>4
    <3> QED
      BY <2>4, <3>1
  <2>6. LeftWell(spent, F[n - 1], n) /\ (Hints[n] \notin spent => LeftWell(spent, Append(F[n - 1], Hints[n]), n))
    BY <2>4, <2>5, LeftGrows
  <2> QED
    BY <2>2, <2>3, <2>6 DEF LeftOf
<1>5. k \in 0..k
  BY <1>1
<1>6. LeftWell(spent, F[k], k)
  BY <1>4, <1>5
<1> QED
  BY <1>6 DEF F

\* The queries a recovery sets out with.
LEMMA UnspentOK ==
  ASSUME Routes \in Seq(Queries)
  PROVE  /\ Unspent \in Seq(Queries)
         /\ HintsDiffer =>
              /\ \A i \in 1..Len(Unspent) : Unspent[i] \notin Elements(Routes)
              /\ \A i, j \in 1..Len(Unspent) : Unspent[i] = Unspent[j] => i = j
              /\ Unspent # <<>> => Len(Unspent) + Len(Routes) <= MaxRoutes
<1> DEFINE F == CHOOSE f : f = [n \in 0..Len(Hints) |-> LeftOf(Elements(Routes), f, n)]
           s == Left
           room == IF Len(Routes) < MaxRoutes THEN MaxRoutes - Len(Routes) ELSE 0
           m == IF Len(s) < room THEN Len(s) ELSE room
           u == SubSeq(s, 1, m)
<1>1. Left = F[Len(Hints)]
  BY Zenon DEF Left, LeftOf
<1>2. LeftWell(Elements(Routes), F[Len(Hints)], Len(Hints))
  BY LeftKept, Zenon
<1> HIDE DEF F
<1>3. LeftWell(Elements(Routes), s, Len(Hints))
  BY <1>1, <1>2
<1> HIDE DEF s
<1>4. s \in Seq(Queries) /\ Len(s) \in Nat /\ Len(Routes) \in Nat /\ MaxRoutes \in Nat
  BY <1>3 DEF LeftWell
<1>5. room \in Nat /\ (room > 0 => room + Len(Routes) <= MaxRoutes)
  BY <1>4
<1> HIDE DEF room
<1>6. m \in Nat /\ m <= Len(s) /\ m <= room
  BY <1>4, <1>5
<1>7. \A i \in 1..m : i \in 1..Len(s) /\ s[i] \in Queries
  BY <1>4, <1>6, ElementOfSeq
<1> HIDE DEF m
<1>8. /\ u \in Seq(Queries) /\ Len(u) = m
      /\ \A i \in 1..m : u[i] = s[i]
  BY <1>6, <1>7, SubSeqProperties
<1>9. u # <<>> => m > 0
  BY <1>6, <1>8
<1> HIDE DEF u
<1>10. \A i \in 1..Len(u) : u[i] = s[i] /\ i \in 1..Len(s)
  BY <1>7, <1>8
<1>11. \A i \in 1..Len(u) : u[i] \notin Elements(Routes)
  BY <1>3, <1>10 DEF LeftWell
<1>12. HintsDiffer => \A i, j \in 1..Len(u) : u[i] = u[j] => i = j
  BY <1>3, <1>10 DEF LeftWell
<1>13. u # <<>> => Len(u) + Len(Routes) <= MaxRoutes
  BY <1>4, <1>5, <1>6, <1>8, <1>9
<1>14. Unspent = u
  BY DEF Unspent, u, m, room, s
<1> QED
  BY <1>8, <1>11, <1>12, <1>13, <1>14

----------------------------------------------------------------------------
(* The lists of the contexts.                                              *)

\* A search is remembered at the end of the list the step works with.
LEMMA AddRouteOK ==
  ASSUME pass \in Memory, step \in Contexts, NEW q \in Queries, AddRoute(q)
  PROVE  /\ pass' \in Memory /\ step' \in Contexts /\ step'.kind = step.kind
         /\ step.kind # "new" => pass'.routes = Append(pass.routes, q)
         /\ Routes' = Append(Routes, q)
<1>1. pass.routes \in Seq(Queries) /\ step.memory \in Memory /\ step.memory.routes \in Seq(Queries)
  BY DEF Memory, Contexts
<1> DEFINE a == Append(pass.routes, q)
           b == Append(step.memory.routes, q)
<1>2. a \in Seq(Queries) /\ b \in Seq(Queries)
  BY <1>1, AppendProperties
<1>3. CASE step.kind = "new"
  <2>1. step' = [step EXCEPT !.memory.routes = b] /\ pass' = pass
    BY <1>3 DEF AddRoute
  <2> HIDE DEF b
  <2>2. step' \in Contexts /\ step'.kind = "new" /\ step'.memory.routes = b
    BY <1>1, <1>2, <1>3, <2>1 DEF Contexts, Memory
  <2> QED
    BY <1>3, <2>1, <2>2 DEF Routes, b
<1>4. CASE step.kind # "new"
  <2>1. pass' = [pass EXCEPT !.routes = a] /\ step' = step
    BY <1>4 DEF AddRoute
  <2> HIDE DEF a
  <2>2. pass' \in Memory /\ pass'.routes = a
    BY <1>2, <2>1 DEF Memory
  <2> QED
    BY <1>4, <2>1, <2>2 DEF Routes, a
<1> QED
  BY <1>3, <1>4

\* A domain is remembered beside the searches.
LEMMA BlockOK ==
  ASSUME pass \in Memory, step \in Contexts, NEW ds \in SUBSET Scopes, BlockDomains(ds)
  PROVE  /\ pass' \in Memory /\ step' \in Contexts /\ step'.kind = step.kind
         /\ pass'.routes = pass.routes
<1>1. pass.blocked \in SUBSET Scopes /\ step.memory \in Memory
      /\ step.memory.blocked \in SUBSET Scopes
  BY DEF Memory, Contexts
<1> DEFINE a == pass.blocked \cup ds
           b == step.memory.blocked \cup ds
<1>2. a \in SUBSET Scopes /\ b \in SUBSET Scopes
  BY <1>1
<1>3. CASE step.kind = "same"
  <2>1. pass' = [pass EXCEPT !.blocked = a] /\ step' = step
    BY <1>3 DEF BlockDomains
  <2> HIDE DEF a
  <2> QED
    BY <1>2, <2>1 DEF Memory
<1>4. CASE step.kind # "same"
  <2>1. step' = [step EXCEPT !.memory.blocked = b] /\ pass' = pass
    BY <1>4 DEF BlockDomains
  <2> HIDE DEF b
  <2> QED
    BY <1>1, <1>2, <2>1 DEF Contexts, Memory
<1> QED
  BY <1>3, <1>4

\* The members of a sequence that grows.
LEMMA ElementsGrow ==
  ASSUME NEW S, NEW s \in Seq(S), NEW q \in S
  PROVE  Elements(Append(s, q)) = Elements(s) \cup {q}
<1> DEFINE a == Append(s, q)
<1>1. /\ a \in Seq(S) /\ Len(a) = Len(s) + 1 /\ a[Len(s) + 1] = q
      /\ \A i \in 1..Len(s) : a[i] = s[i]
  BY AppendProperties
<1>2. Len(s) \in Nat
  OBVIOUS
<1> HIDE DEF a
<1>3. \A i \in 1..Len(a) : i \in 1..Len(s) \/ i = Len(s) + 1
  BY <1>1, <1>2
<1>4. \A i \in 1..Len(s) : i \in 1..Len(a)
  BY <1>1, <1>2
<1>5. Len(s) + 1 \in 1..Len(a)
  BY <1>1, <1>2
<1>6. {a[i] : i \in 1..Len(a)} = {s[i] : i \in 1..Len(s)} \cup {q}
  BY <1>1, <1>3, <1>4, <1>5
<1> QED
  BY <1>6 DEF Elements, a

\* A search that was not spent is one more that differs from all others.
LEMMA SearchesGrow ==
  ASSUME NEW s \in Seq(Queries), NEW q \in Queries, q \notin Elements(s),
         IsFiniteSet(Elements(s)), Cardinality(Elements(s)) = Len(s)
  PROVE  LET a == Append(s, q) IN
         /\ a \in Seq(Queries) /\ Len(a) = Len(s) + 1
         /\ IsFiniteSet(Elements(a)) /\ Cardinality(Elements(a)) = Len(a)
<1>1. Elements(Append(s, q)) = Elements(s) \cup {q}
  BY ElementsGrow
<1>2. Append(s, q) \in Seq(Queries) /\ Len(Append(s, q)) = Len(s) + 1
  BY AppendProperties
<1>3. IsFiniteSet(Elements(s) \cup {q}) /\ Cardinality(Elements(s) \cup {q}) = Cardinality(Elements(s)) + 1
  BY FS_AddElement
<1> QED
  BY <1>1, <1>2, <1>3

----------------------------------------------------------------------------
(* A fetch of the recovery.                                                *)

\* What comes of a batch.
LEMMA OutcomesOK ==
  ASSUME NEW urls \in SUBSET Urls, NEW o \in Outcomes(urls), NEW expanded \in BOOLEAN
  PROVE  /\ PageRefs(o, expanded) \subseteq Refs
         /\ HasComplete(o) \in BOOLEAN
         /\ Denied(o) \subseteq Urls
         /\ {DomainOf[v] : v \in Denied(o)} \subseteq Scopes
<1>1. o \in [urls -> Outcome] /\ DOMAIN o = urls
  BY DEF Outcomes
<1>2. PageRefs(o, expanded) \subseteq Refs
  BY <1>1 DEF PageRefs, Refs
<1>3. Denied(o) \subseteq Urls
  BY <1>1 DEF Denied
<1>4. HasComplete(o) \in BOOLEAN
  BY DEF HasComplete
<1> QED
  BY <1>2, <1>3, <1>4

Hunger == {"priority", "branch", "expand", "seeds", "search", "fetch", "found"}

\* A fetch adds to what was requested, and ends the recovery if a page is complete.
LEMMA AutoFetchOK ==
  ASSUME RecoveryInv, stage \in Hunger, NEW batch \in SUBSET Urls,
         NEW refused \in Stages, NEW otherwise \in Stages, AutoFetch(batch, refused, otherwise)
  PROVE  /\ refs' \subseteq Refs /\ tools' \in 0..MaxTools /\ log' \in Seq(Requested)
         /\ stage' \in {refused, otherwise, "extract"}
         /\ progress' \in [step : 1..MaxSteps, retries : 0..MaxRetries,
                   everRetried : BOOLEAN, recovered : BOOLEAN, extracted : BOOLEAN]
         /\ progress'.everRetried = progress.everRetried
         /\ Hungry' /\ StopsAtEvidence'
<1> USE DEF Hunger
<1>1. \A i \in 1..Len(log) : ~log[i].complete
  BY DEF RecoveryInv, Hungry
<1>2. /\ refs \subseteq Refs /\ tools \in 0..MaxTools /\ log \in Seq(Requested)
      /\ progress \in [step : 1..MaxSteps, retries : 0..MaxRetries,
                   everRetried : BOOLEAN, recovered : BOOLEAN, extracted : BOOLEAN]
  BY DEF RecoveryInv, DiscoveryTypeOK
<1>3. CASE batch = {} \/ tools = MaxTools
  <2>1. stage' = otherwise /\ refs' = refs /\ tools' = tools /\ progress' = progress /\ log' = log
    BY <1>3 DEF AutoFetch
  <2>2. Hungry' /\ StopsAtEvidence'
    BY <1>1, <2>1 DEF Hungry, StopsAtEvidence, RecoveryInv
  <2> QED
    BY <1>2, <2>1, <2>2
<1>4. CASE ~ (batch = {} \/ tools = MaxTools)
  <2> DEFINE Sent(urls) == {u \in urls : DomainOf[u] \notin Blocked}
             Fetch(urls, o) ==
               /\ refs' = refs \cup PageRefs(o, TRUE)
               /\ tools' = tools + 1
               /\ log' = Append(log, [urls |-> Sent(urls), complete |-> HasComplete(o),
                                      refused |-> Denied(o) \cap Sent(urls)])
               /\ progress' = [progress EXCEPT !.recovered = TRUE]
               /\ stage' = After(o, refused, otherwise)
  <2>a. \E urls \in FirstOf(batch, MaxBatch) : \E o \in Outcomes(urls) : Fetch(urls, o)
    BY <1>4, Zenon DEF AutoFetch
  <2>b. PICK urls \in FirstOf(batch, MaxBatch) : \E o \in Outcomes(urls) : Fetch(urls, o)
    BY <2>a, Zenon
  <2>c. PICK o \in Outcomes(urls) : Fetch(urls, o)
    BY <2>b, Zenon
  <2>1. /\ refs' = refs \cup PageRefs(o, TRUE)
        /\ tools' = tools + 1
        /\ log' = Append(log, [urls |-> Sent(urls), complete |-> HasComplete(o),
                               refused |-> Denied(o) \cap Sent(urls)])
        /\ progress' = [progress EXCEPT !.recovered = TRUE]
        /\ stage' = After(o, refused, otherwise)
    BY <2>c
  <2>2. urls \in SUBSET Urls
    BY DEF FirstOf
  <2>3. PageRefs(o, TRUE) \subseteq Refs /\ HasComplete(o) \in BOOLEAN /\ Denied(o) \subseteq Urls
    BY <2>1, <2>2, OutcomesOK
  <2> DEFINE sent == Sent(urls)
             c == HasComplete(o)
             d == Denied(o) \cap sent
             x == [urls |-> sent, complete |-> c, refused |-> d]
  <2>4. sent \subseteq Urls /\ d \subseteq Urls /\ c \in BOOLEAN
    BY <2>2, <2>3
  <2>5. log' = Append(log, x) /\ stage' = IF c THEN "extract" ELSE IF Denied(o) # {} THEN refused ELSE otherwise
    BY <2>1 DEF After
  <2> HIDE DEF sent, c, d
  <2>6. x \in Requested /\ x.complete = c
    BY <2>4 DEF Requested
  <2> HIDE DEF x
  <2>7. /\ log' \in Seq(Requested) /\ Len(log') = Len(log) + 1 /\ Len(log) \in Nat
        /\ log'[Len(log) + 1] = x /\ \A i \in 1..Len(log) : log'[i] = log[i]
    BY <1>2, <2>5, <2>6, AppendProperties
  <2>8. \A i \in 1..Len(log') : i \in 1..Len(log) \/ i = Len(log')
    BY <2>7
  <2>9. Hungry'
    <3>1. CASE c
      BY <2>5, <3>1 DEF Hungry
    <3>2. CASE ~c
      <4>1. \A i \in 1..Len(log') : ~log'[i].complete
        BY <1>1, <2>6, <2>7, <2>8, <3>2
      <4> QED
        BY <4>1 DEF Hungry
    <3> QED
      BY <3>1, <3>2
  <2>10. StopsAtEvidence'
    <3>1. \A i \in 1..Len(log') : log'[i].complete => i = Len(log')
      BY <1>1, <2>7, <2>8
    <3> QED
      BY <3>1, Zenon DEF StopsAtEvidence
  <2>11. refs' \subseteq Refs /\ tools' \in 0..MaxTools
    <3>1. refs' \subseteq Refs
      BY <1>2, <2>1, <2>3
    <3>2. tools # MaxTools /\ tools' = tools + 1 /\ MaxTools \in Nat
      BY <1>4, <2>1
    <3> QED
      BY <1>2, <3>1, <3>2
  <2>12. /\ progress' \in [step : 1..MaxSteps, retries : 0..MaxRetries,
                   everRetried : BOOLEAN, recovered : BOOLEAN, extracted : BOOLEAN]
         /\ progress'.everRetried = progress.everRetried
    BY <1>2, <2>1
  <2> QED
    BY <2>5, <2>7, <2>9, <2>10, <2>11, <2>12
<1> QED
  BY <1>3, <1>4

----------------------------------------------------------------------------
(* Every step keeps the invariant.                                         *)

Progress == [step : 1..MaxSteps, retries : 0..MaxRetries,
             everRetried : BOOLEAN, recovered : BOOLEAN, extracted : BOOLEAN]

\* What is spent stays so while no search is sent.
LEMMA SpentStays ==
  ASSUME Spent, progress'.everRetried = progress.everRetried, step'.kind = step.kind,
         pass'.routes = pass.routes, searches' = searches
  PROVE  Spent'
<1> DEFINE OK(s) == Len(s) <= MaxRoutes /\ IsFiniteSet(Elements(s)) /\ Cardinality(Elements(s)) = Len(s)
<1>1. ~progress.everRetried => step.kind # "new" /\ searches = pass.routes /\ OK(searches)
  BY DEF Spent
<1>2. OK(searches) => OK(searches')
  <2> HIDE DEF OK
  <2> QED
    OBVIOUS
<1>3. ~progress'.everRetried => step'.kind # "new" /\ searches' = pass'.routes /\ OK(searches')
  <2> HIDE DEF OK
  <2> QED
    BY <1>1, <1>2
<1> QED
  BY <1>3, Zenon DEF Spent

\* A search that the step's list does not hold, sent while there is room for it.
LEMMA SpentGrows ==
  ASSUME RecoveryInv, NEW q \in Queries, AddRoute(q), q \notin Elements(Routes),
         Len(Routes) < MaxRoutes, searches' = Append(searches, q),
         progress'.everRetried = progress.everRetried
  PROVE  /\ Spent' /\ searches' \in Seq(Queries)
         /\ pass' \in Memory /\ step' \in Contexts
         /\ Routes \in Seq(Queries) /\ Routes' = Append(Routes, q)
<1>1. pass \in Memory /\ step \in Contexts /\ searches \in Seq(Queries) /\ MaxRoutes \in Nat
  BY DEF RecoveryInv, DiscoveryTypeOK
<1>2. /\ pass' \in Memory /\ step' \in Contexts /\ step'.kind = step.kind
      /\ step.kind # "new" => pass'.routes = Append(pass.routes, q)
      /\ Routes' = Append(Routes, q)
  BY <1>1, AddRouteOK
<1>3. Routes \in Seq(Queries)
  BY <1>1 DEF Routes, Memory, Contexts
<1>4. searches' \in Seq(Queries)
  BY <1>1
<1>5. Spent'
  <2>1. SUFFICES ASSUME ~progress'.everRetried
                 PROVE  /\ step'.kind # "new" /\ searches' = pass'.routes
                        /\ Len(searches') <= MaxRoutes
                        /\ IsFiniteSet(Elements(searches'))
                        /\ Cardinality(Elements(searches')) = Len(searches')
    BY Zenon DEF Spent
  <2>2. /\ step.kind # "new" /\ searches = pass.routes
        /\ Len(searches) <= MaxRoutes
        /\ IsFiniteSet(Elements(searches)) /\ Cardinality(Elements(searches)) = Len(searches)
    BY <2>1 DEF RecoveryInv, Spent
  <2>3. Routes = searches
    BY <2>2 DEF Routes
  <2> DEFINE a == Append(searches, q)
  <2>4. Len(a) = Len(searches) + 1 /\ IsFiniteSet(Elements(a)) /\ Cardinality(Elements(a)) = Len(a)
    BY <1>1, <2>2, <2>3, SearchesGrow
  <2>5. searches' = a /\ pass'.routes = a
    BY <1>2, <2>2
  <2>6. Len(searches) < MaxRoutes /\ Len(searches) \in Nat
    BY <1>1, <2>3
  <2> HIDE DEF a
  <2>7. Len(a) <= MaxRoutes
    BY <1>1, <2>4, <2>6
  <2> QED
    BY <1>2, <2>2, <2>4, <2>5, <2>7
<1> QED
  BY <1>2, <1>3, <1>4, <1>5

\* The step is on the way of a recovery, with searches to come or none.
LEMMA FetchKeeps ==
  ASSUME RecoveryInv, stage \in Hunger, NEW batch \in SUBSET Urls,
         NEW refused \in Stages, NEW otherwise \in Stages, AutoFetch(batch, refused, otherwise),
         UNCHANGED <<community, pass, carried, step, seen, calls, searches, refusals>>,
         queries' \in Seq(Queries),
         HintsDiffer => "search" \notin {refused, otherwise} \/ Ready'
  PROVE  RecoveryInv'
<1>1. /\ refs' \subseteq Refs /\ tools' \in 0..MaxTools /\ log' \in Seq(Requested)
      /\ stage' \in {refused, otherwise, "extract"}
      /\ progress' \in Progress
      /\ progress'.everRetried = progress.everRetried
      /\ Hungry' /\ StopsAtEvidence'
  BY AutoFetchOK, Zenon DEF Progress
<1>2. stage' \in Stages
  BY <1>1 DEF Stages
<1>3. Spent'
  <2>1. Spent /\ step' = step /\ pass' = pass /\ searches' = searches
    BY DEF RecoveryInv
  <2> QED
    BY <1>1, <2>1, SpentStays, Zenon
<1>4. DiscoveryTypeOK'
  BY <1>1, <1>2 DEF RecoveryInv, DiscoveryTypeOK, Progress
<1>5. HintsDiffer => Ready' /\ RecoverySearchIsAllowed'
  BY <1>1 DEF RecoveryInv, Ready, RecoverySearchIsAllowed
<1> QED
  BY <1>1, <1>3, <1>4, <1>5 DEF RecoveryInv

\* A fetch of the model may block the page's domain.
LEMMA ModelFetchesOK == RecoveryInv /\ ModelFetches => RecoveryInv'
<1> SUFFICES ASSUME RecoveryInv, ModelFetches PROVE RecoveryInv'
  OBVIOUS
<1>1. PICK u \in Supplied \cup seen.urls : \E o \in Outcomes({u}) :
        /\ refs' = refs \cup PageRefs(o, FALSE)
        /\ seen' = [seen EXCEPT !.complete = @ \/ HasComplete(o)]
        /\ BlockDomains({DomainOf[v] : v \in Denied(o)})
  BY Zenon DEF ModelFetches
<1>2. PICK o \in Outcomes({u}) :
        /\ refs' = refs \cup PageRefs(o, FALSE)
        /\ seen' = [seen EXCEPT !.complete = @ \/ HasComplete(o)]
        /\ BlockDomains({DomainOf[v] : v \in Denied(o)})
  BY <1>1, Zenon
<1>3. u \in Urls
  BY DEF RecoveryInv, DiscoveryTypeOK
<1> DEFINE ds == {DomainOf[v] : v \in Denied(o)}
<1>4. {u} \in SUBSET Urls /\ FALSE \in BOOLEAN
  BY <1>3
<1>5. PageRefs(o, FALSE) \subseteq Refs /\ HasComplete(o) \in BOOLEAN /\ ds \in SUBSET Scopes
  BY <1>4, OutcomesOK
<1>6. BlockDomains(ds)
  BY <1>2
<1> HIDE DEF ds
<1>7. /\ pass' \in Memory /\ step' \in Contexts /\ step'.kind = step.kind
      /\ pass'.routes = pass.routes
  BY <1>5, <1>6, BlockOK DEF RecoveryInv, DiscoveryTypeOK
<1>8. /\ stage = "execute" /\ calls < MaxCalls /\ tools < MaxTools
      /\ tools' = tools + 1 /\ calls' = calls + 1
      /\ UNCHANGED <<community, carried, stage, progress, queries, log, searches, refusals>>
  BY DEF ModelFetches, MayCall
<1>9. tools' \in 0..MaxTools /\ calls' \in 0..MaxCalls
  <2>1. tools \in 0..MaxTools /\ calls \in 0..MaxCalls /\ MaxTools \in Nat /\ MaxCalls \in Nat
    BY DEF RecoveryInv, DiscoveryTypeOK
  <2> QED
    BY <1>8, <2>1
<1>10. seen' \in [complete : BOOLEAN, urls : SUBSET Urls, scan : BOOLEAN]
  <2> DEFINE c == seen.complete \/ HasComplete(o)
  <2>1. c \in BOOLEAN /\ seen' = [seen EXCEPT !.complete = c]
    BY <1>2
  <2> HIDE DEF c
  <2> QED
    BY <2>1 DEF RecoveryInv, DiscoveryTypeOK
<1>11. refs' \subseteq Refs
  BY <1>2, <1>5 DEF RecoveryInv, DiscoveryTypeOK
<1>12. DiscoveryTypeOK'
  BY <1>7, <1>8, <1>9, <1>10, <1>11 DEF RecoveryInv, DiscoveryTypeOK
<1>13. Spent'
  <2>1. Spent /\ searches' = searches /\ progress' = progress
    BY <1>8 DEF RecoveryInv
  <2> QED
    BY <1>7, <2>1, SpentStays
<1>14. Hungry' /\ StopsAtEvidence' /\ (HintsDiffer => Ready' /\ RecoverySearchIsAllowed')
  BY <1>8 DEF RecoveryInv, Hungry, StopsAtEvidence, Ready, RecoverySearchIsAllowed
<1> QED
  BY <1>12, <1>13, <1>14 DEF RecoveryInv

\* What a search brings is URLs, or the end of a scan.
LEMMA SearchedOK ==
  ASSUME NEW result \in Searched
  PROVE  result \in Found /\ result.urls \subseteq Urls /\ result.scan \in BOOLEAN
<1>1. result \in Found
  BY DEF Searched, OfficialSearch, WebSearch
<1> QED
  BY <1>1 DEF Found

\* A search of the model spends a route that is not spent and leaves one.
LEMMA ModelSearchesOK == RecoveryInv /\ ModelSearches => RecoveryInv'
<1> SUFFICES ASSUME RecoveryInv, ModelSearches PROVE RecoveryInv'
  OBVIOUS
<1>1. PICK q \in ModelQueries, result \in Searched :
        /\ q \notin Elements(Routes) /\ Len(Routes) < MaxRoutes - 1
        /\ AddRoute(q)
        /\ searches' = Append(searches, q)
        /\ seen' = [seen EXCEPT !.urls = @ \cup result.urls, !.scan = @ \/ result.scan]
  BY Zenon DEF ModelSearches
<1>2. q \in Queries
  BY DEF Queries
<1>3. /\ stage = "execute" /\ calls < MaxCalls /\ tools < MaxTools
      /\ tools' = tools + 1 /\ calls' = calls + 1
      /\ UNCHANGED <<community, carried, refs, stage, progress, queries, log, refusals>>
  BY DEF ModelSearches, MayCall
<1>4. Len(Routes) < MaxRoutes
  <2>1. Routes \in Seq(Queries) /\ MaxRoutes \in Nat
    BY DEF Routes, RecoveryInv, DiscoveryTypeOK, Memory, Contexts
  <2>2. Len(Routes) \in Nat
    BY <2>1
  <2> QED
    BY <1>1, <2>1, <2>2
<1>5. /\ Spent' /\ searches' \in Seq(Queries)
      /\ pass' \in Memory /\ step' \in Contexts
  BY <1>1, <1>2, <1>3, <1>4, SpentGrows
<1>6. tools' \in 0..MaxTools /\ calls' \in 0..MaxCalls
  <2>1. tools \in 0..MaxTools /\ calls \in 0..MaxCalls /\ MaxTools \in Nat /\ MaxCalls \in Nat
    BY DEF RecoveryInv, DiscoveryTypeOK
  <2> QED
    BY <1>3, <2>1
<1>7. seen' \in [complete : BOOLEAN, urls : SUBSET Urls, scan : BOOLEAN]
  <2> DEFINE c == seen.scan \/ result.scan
             b == seen.urls \cup result.urls
  <2>1. seen \in [complete : BOOLEAN, urls : SUBSET Urls, scan : BOOLEAN]
    BY DEF RecoveryInv, DiscoveryTypeOK
  <2>2. result.urls \subseteq Urls
    BY SearchedOK
  <2>3. c \in BOOLEAN /\ b \in SUBSET Urls /\ seen' = [seen EXCEPT !.urls = b, !.scan = c]
    BY <1>1, <2>1, <2>2
  <2> HIDE DEF b, c
  <2> QED
    BY <2>1, <2>3
<1>8. DiscoveryTypeOK'
  BY <1>3, <1>5, <1>6, <1>7 DEF RecoveryInv, DiscoveryTypeOK
<1>9. Hungry' /\ StopsAtEvidence' /\ (HintsDiffer => Ready' /\ RecoverySearchIsAllowed')
  BY <1>3 DEF RecoveryInv, Hungry, StopsAtEvidence, Ready, RecoverySearchIsAllowed
<1> QED
  BY <1>5, <1>8, <1>9 DEF RecoveryInv

\* A sheet gives URLs.
LEMMA ModelReadsSheetOK == RecoveryInv /\ ModelReadsSheet => RecoveryInv'
<1> SUFFICES ASSUME RecoveryInv, ModelReadsSheet PROVE RecoveryInv'
  OBVIOUS
<1>1. /\ stage = "execute" /\ calls < MaxCalls /\ tools < MaxTools
      /\ tools' = tools + 1 /\ calls' = calls + 1
      /\ seen' = [seen EXCEPT !.urls = @ \cup Listed]
      /\ UNCHANGED <<community, pass, carried, step, refs, stage, progress, queries, log,
                     searches, refusals>>
  BY DEF ModelReadsSheet, MayCall
<1>2. tools' \in 0..MaxTools /\ calls' \in 0..MaxCalls
  <2>1. tools \in 0..MaxTools /\ calls \in 0..MaxCalls /\ MaxTools \in Nat /\ MaxCalls \in Nat
    BY DEF RecoveryInv, DiscoveryTypeOK
  <2> QED
    BY <1>1, <2>1
<1>3. seen' \in [complete : BOOLEAN, urls : SUBSET Urls, scan : BOOLEAN]
  <2> DEFINE b == seen.urls \cup Listed
  <2>1. seen \in [complete : BOOLEAN, urls : SUBSET Urls, scan : BOOLEAN]
    BY DEF RecoveryInv, DiscoveryTypeOK
  <2>2. b \in SUBSET Urls /\ seen' = [seen EXCEPT !.urls = b]
    BY <1>1, <2>1
  <2> HIDE DEF b
  <2> QED
    BY <2>1, <2>2
<1>4. DiscoveryTypeOK'
  BY <1>1, <1>2, <1>3 DEF RecoveryInv, DiscoveryTypeOK
<1>5. Spent'
  BY <1>1, SpentStays DEF RecoveryInv
<1>6. Hungry' /\ StopsAtEvidence' /\ (HintsDiffer => Ready' /\ RecoverySearchIsAllowed')
  BY <1>1 DEF RecoveryInv, Hungry, StopsAtEvidence, Ready, RecoverySearchIsAllowed
<1> QED
  BY <1>4, <1>5, <1>6 DEF RecoveryInv

\* A recovery starts with nothing requested.
LEMMA ExecutorReturnsOK == RecoveryInv /\ ExecutorReturns => RecoveryInv'
<1> SUFFICES ASSUME RecoveryInv, ExecutorReturns PROVE RecoveryInv'
  OBVIOUS
<1>1. /\ stage' \in {"extract", "priority"}
      /\ calls' = 0 /\ log' = <<>>
      /\ UNCHANGED <<community, pass, carried, step, refs, seen, tools, progress, queries,
                     searches, refusals>>
  BY DEF ExecutorReturns
<1>2. log' \in Seq(Requested) /\ Len(log') = 0 /\ calls' \in 0..MaxCalls /\ stage' \in Stages
  BY <1>1 DEF Stages
<1>3. DiscoveryTypeOK'
  BY <1>1, <1>2 DEF RecoveryInv, DiscoveryTypeOK
<1>4. Spent'
  BY <1>1, SpentStays DEF RecoveryInv
<1>5. Hungry' /\ StopsAtEvidence'
  BY <1>2 DEF Hungry, StopsAtEvidence
<1>6. HintsDiffer => Ready' /\ RecoverySearchIsAllowed'
  BY <1>1 DEF RecoveryInv, Ready, RecoverySearchIsAllowed
<1> QED
  BY <1>3, <1>4, <1>5, <1>6 DEF RecoveryInv

\* The fetches of the recovery.
LEMMA FetchPriorityOK == RecoveryInv /\ FetchPriority => RecoveryInv'
<1> SUFFICES ASSUME RecoveryInv, FetchPriority PROVE RecoveryInv'
  OBVIOUS
<1>1. /\ stage \in Hunger /\ AutoFetch(Priority \ Processed, "extract", "branch")
      /\ UNCHANGED <<community, pass, carried, step, seen, calls, queries, searches, refusals>>
  BY DEF FetchPriority, Hunger
<1>2. Priority \ Processed \in SUBSET Urls /\ "extract" \in Stages /\ "branch" \in Stages
      /\ "search" \notin {"extract", "branch"}
  BY DEF Stages
<1>3. queries' \in Seq(Queries)
  BY <1>1 DEF RecoveryInv, DiscoveryTypeOK
<1> QED
  BY <1>1, <1>2, <1>3, FetchKeeps

\* The lists among the results are expanded.
LEMMA ExpandListsOK == RecoveryInv /\ ExpandLists => RecoveryInv'
<1> SUFFICES ASSUME RecoveryInv, ExpandLists PROVE RecoveryInv'
  OBVIOUS
<1> DEFINE onward == IF Supplied \subseteq Processed THEN "seeds" ELSE "extract"
<1>1. PICK lists \in FirstOf(Unexpanded, MaxExpand) : AutoFetch(lists, "extract", onward)
  BY Zenon DEF ExpandLists
<1>2. onward \in Stages /\ "extract" \in Stages /\ "search" \notin {"extract", onward}
  BY DEF Stages
<1>3. lists \in SUBSET Urls
  <2>1. Unexpanded \subseteq Urls
    BY DEF Unexpanded, RecoveryInv, DiscoveryTypeOK, Refs
  <2> QED
    BY <2>1 DEF FirstOf
<1>4. /\ stage \in Hunger
      /\ UNCHANGED <<community, pass, carried, step, seen, calls, queries, searches, refusals>>
  BY DEF ExpandLists, Hunger
<1>5. queries' \in Seq(Queries)
  BY <1>4 DEF RecoveryInv, DiscoveryTypeOK
<1> HIDE DEF onward
<1> QED
  BY <1>1, <1>2, <1>3, <1>4, <1>5, FetchKeeps

\* The pages at hand are fetched.
LEMMA FetchAtHandOK == RecoveryInv /\ FetchAtHand => RecoveryInv'
<1> SUFFICES ASSUME RecoveryInv, FetchAtHand PROVE RecoveryInv'
  OBVIOUS
<1> DEFINE urls == IF seen.urls # {} THEN seen.urls ELSE Supplied \ Processed
<1>1. /\ stage \in Hunger /\ AutoFetch(urls, "seeds", "seeds")
      /\ UNCHANGED <<community, pass, carried, step, seen, calls, queries, searches, refusals>>
  BY DEF FetchAtHand, Hunger
<1>2. urls \in SUBSET Urls
  BY DEF RecoveryInv, DiscoveryTypeOK
<1>3. "seeds" \in Stages /\ "search" \notin {"seeds", "seeds"}
  BY DEF Stages
<1>4. queries' \in Seq(Queries)
  BY <1>1 DEF RecoveryInv, DiscoveryTypeOK
<1> HIDE DEF urls
<1> QED
  BY <1>1, <1>2, <1>3, <1>4, FetchKeeps

\* The pages found are fetched.
LEMMA FetchFoundOK == RecoveryInv /\ FetchFound => RecoveryInv'
<1> SUFFICES ASSUME RecoveryInv, FetchFound PROVE RecoveryInv'
  OBVIOUS
<1>1. /\ stage \in Hunger /\ AutoFetch(seen.urls, "extract", "extract")
      /\ UNCHANGED <<community, pass, carried, step, seen, calls, queries, searches, refusals>>
  BY DEF FetchFound, Hunger
<1>2. seen.urls \in SUBSET Urls
  BY DEF RecoveryInv, DiscoveryTypeOK
<1>3. "extract" \in Stages /\ "search" \notin {"extract", "extract"}
  BY DEF Stages
<1>4. queries' \in Seq(Queries)
  BY <1>1 DEF RecoveryInv, DiscoveryTypeOK
<1> QED
  BY <1>1, <1>2, <1>3, <1>4, FetchKeeps

\* Before it searches, the recovery sets the spent queries aside.
LEMMA FetchSeedsOK == RecoveryInv /\ FetchSeeds => RecoveryInv'
<1> SUFFICES ASSUME RecoveryInv, FetchSeeds PROVE RecoveryInv'
  OBVIOUS
<1>1. /\ stage \in Hunger /\ AutoFetch(Seeds \ Processed, "extract", "search")
      /\ queries' = Unspent
      /\ UNCHANGED <<community, pass, carried, step, seen, calls, searches, refusals>>
  BY DEF FetchSeeds, Hunger
<1>2. Seeds \ Processed \in SUBSET Urls /\ "extract" \in Stages /\ "search" \in Stages
  BY DEF Stages
<1>3. Routes \in Seq(Queries)
  BY DEF Routes, RecoveryInv, DiscoveryTypeOK, Memory, Contexts
<1>4. /\ Unspent \in Seq(Queries)
      /\ HintsDiffer =>
           /\ \A i \in 1..Len(Unspent) : Unspent[i] \notin Elements(Routes)
           /\ \A i, j \in 1..Len(Unspent) : Unspent[i] = Unspent[j] => i = j
           /\ Unspent # <<>> => Len(Unspent) + Len(Routes) <= MaxRoutes
  BY <1>3, UnspentOK
<1>5. Routes' = Routes
  BY <1>1 DEF Routes
<1>6. HintsDiffer => Ready'
  <2> DEFINE OK(qs, rs) == /\ \A i \in 1..Len(qs) : qs[i] \notin Elements(rs)
                           /\ \A i, j \in 1..Len(qs) : qs[i] = qs[j] => i = j
                           /\ qs # <<>> => Len(qs) + Len(rs) <= MaxRoutes
  <2>1. HintsDiffer => OK(Unspent, Routes)
    BY <1>4
  <2>2. OK(Unspent, Routes) => OK(queries', Routes')
    <3> HIDE DEF OK
    <3> QED
      BY <1>1, <1>5
  <2>3. OK(queries', Routes') => Ready'
    BY Zenon DEF Ready
  <2> QED
    BY <2>1, <2>2, <2>3
<1>7. queries' \in Seq(Queries)
  BY <1>1, <1>4
<1> QED
  BY <1>1, <1>2, <1>6, <1>7, FetchKeeps

\* A choice of the onward part of the recovery.
LEMMA ChooseBranchOK == RecoveryInv /\ ChooseBranch => RecoveryInv'
<1> SUFFICES ASSUME RecoveryInv, ChooseBranch PROVE RecoveryInv'
  OBVIOUS
<1>1. /\ stage = "branch"
      /\ UNCHANGED <<community, pass, carried, step, refs, seen, tools, calls, progress, queries,
                     log, searches, refusals>>
  BY DEF ChooseBranch
<1>2. stage' \in {"expand", "extract", "seeds", "fetch"}
  BY DEF ChooseBranch
<1>3. DiscoveryTypeOK'
  <2>1. stage' \in Stages
    BY <1>2 DEF Stages
  <2> QED
    BY <1>1, <2>1 DEF RecoveryInv, DiscoveryTypeOK
<1>4. Spent'
  BY <1>1, SpentStays DEF RecoveryInv
<1>5. Hungry' /\ StopsAtEvidence'
  BY <1>1 DEF RecoveryInv, Hungry, StopsAtEvidence
<1>6. HintsDiffer => Ready' /\ RecoverySearchIsAllowed'
  BY <1>1, <1>2 DEF RecoveryInv, Ready, RecoverySearchIsAllowed
<1> QED
  BY <1>3, <1>4, <1>5, <1>6 DEF RecoveryInv

\* After a search the rest of the queries is still unspent, and fits.
LEMMA ReadyGoesOn ==
  ASSUME queries \in Seq(Queries), Routes \in Seq(Queries), Ready, stage = "search",
         queries # <<>>
  PROVE  /\ Head(queries) \notin Elements(Routes) /\ Len(Routes) < MaxRoutes
         /\ queries' = Tail(queries) /\ Routes' = Append(Routes, Head(queries)) => Ready'
<1> DEFINE q == Head(queries)
           t == Tail(queries)
           r == Append(Routes, q)
<1>1. /\ Len(queries) \in Nat \ {0} /\ Len(Routes) \in Nat /\ q = queries[1] /\ q \in Queries
      /\ t \in Seq(Queries) /\ Len(t) = Len(queries) - 1
      /\ \A i \in 1..Len(t) : t[i] = queries[i + 1]
  BY HeadTailProperties
<1>2. /\ \A i \in 1..Len(queries) : queries[i] \notin Elements(Routes)
      /\ \A i, j \in 1..Len(queries) : queries[i] = queries[j] => i = j
      /\ Len(queries) + Len(Routes) <= MaxRoutes
  BY Zenon DEF Ready
<1>3. 1 \in 1..Len(queries) /\ MaxRoutes \in Nat
  BY <1>1
<1>4. q \notin Elements(Routes)
  BY <1>1, <1>2, <1>3
<1>5. Len(Routes) < MaxRoutes
  BY <1>1, <1>2, <1>3
<1>6. ASSUME queries' = t, Routes' = r PROVE Ready'
  <2>1. Elements(r) = Elements(Routes) \cup {q} /\ Len(r) = Len(Routes) + 1
    <3> HIDE DEF q
    <3> QED
      BY <1>1, ElementsGrow, AppendProperties
  <2> HIDE DEF q, t, r
  <2>2. \A i \in 1..Len(t) : i + 1 \in 1..Len(queries) /\ i + 1 # 1
    BY <1>1
  <2>3. ASSUME NEW i \in 1..Len(t) PROVE t[i] \notin Elements(Routes) /\ t[i] # q
    <3>1. t[i] = queries[i + 1] /\ i + 1 \in 1..Len(queries) /\ i + 1 # 1
      BY <1>1, <2>2
    <3>2. queries[i + 1] # queries[1]
      BY <1>2, <1>3, <3>1
    <3> QED
      BY <1>1, <1>2, <3>1, <3>2
  <2>4. ASSUME NEW i \in 1..Len(t), NEW j \in 1..Len(t), t[i] = t[j] PROVE i = j
    <3>1. i + 1 \in 1..Len(queries) /\ j + 1 \in 1..Len(queries)
      BY <2>2
    <3>2. queries[i + 1] = queries[j + 1]
      BY <1>1, <2>4
    <3>3. i + 1 = j + 1
      BY <1>2, <3>1, <3>2
    <3> QED
      BY <1>1, <3>3
  <2>5. Len(t) + Len(r) <= MaxRoutes
    BY <1>1, <1>2, <1>3, <2>1
  <2> DEFINE OK(qs, rs) == /\ \A i \in 1..Len(qs) : qs[i] \notin Elements(rs)
                           /\ \A i, j \in 1..Len(qs) : qs[i] = qs[j] => i = j
                           /\ qs # <<>> => Len(qs) + Len(rs) <= MaxRoutes
  <2>6. OK(t, r)
    BY <2>1, <2>3, <2>4, <2>5
  <2>7. OK(queries', Routes')
    <3> HIDE DEF OK
    <3> QED
      BY <1>6, <2>6
  <2> QED
    BY <2>7, Zenon DEF Ready
<1> QED
  BY <1>4, <1>5, <1>6

\* A search of the recovery is sent, or refused as spent, which does not happen
\* while the queries differ.
LEMMA RecoverySearchesOK == RecoveryInv /\ RecoverySearches => RecoveryInv'
<1> SUFFICES ASSUME RecoveryInv, RecoverySearches PROVE RecoveryInv'
  OBVIOUS
<1>1. stage = "search" /\ UNCHANGED <<community, carried, refs, calls, log>>
  BY DEF RecoverySearches
<1>2. /\ queries \in Seq(Queries) /\ Routes \in Seq(Queries)
      /\ seen \in [complete : BOOLEAN, urls : SUBSET Urls, scan : BOOLEAN]
      /\ tools \in 0..MaxTools /\ progress \in Progress /\ refusals \in Nat
      /\ pass \in Memory /\ step \in Contexts /\ searches \in Seq(Queries)
  BY DEF Routes, RecoveryInv, DiscoveryTypeOK, Memory, Contexts, Progress
<1>3. \A i \in 1..Len(log) : ~log[i].complete
  BY <1>1 DEF RecoveryInv, Hungry
<1>4. Hungry' /\ StopsAtEvidence'
  BY <1>1, <1>3 DEF Hungry, StopsAtEvidence
<1>5. CASE queries = <<>> \/ tools = MaxTools
  <2>1. /\ stage' = "extract"
        /\ UNCHANGED <<pass, step, seen, tools, progress, queries, searches, refusals>>
    BY <1>5 DEF RecoverySearches
  <2>2. DiscoveryTypeOK'
    BY <1>1, <2>1 DEF RecoveryInv, DiscoveryTypeOK, Stages
  <2>3. Spent'
    BY <2>1, SpentStays DEF RecoveryInv
  <2>4. HintsDiffer => Ready' /\ RecoverySearchIsAllowed'
    BY <2>1 DEF RecoveryInv, Ready, RecoverySearchIsAllowed
  <2> QED
    BY <1>4, <2>2, <2>3, <2>4 DEF RecoveryInv
<1>6. CASE ~ (queries = <<>> \/ tools = MaxTools)
  <2> DEFINE q == Head(queries)
             Refuse == q \in Elements(Routes) \/ Len(Routes) >= MaxRoutes
  <2>1. q \in Queries /\ Tail(queries) \in Seq(Queries)
    BY <1>2, <1>6, HeadTailProperties
  <2>2. /\ tools' = tools + 1 /\ progress' = [progress EXCEPT !.recovered = TRUE]
        /\ Refuse => /\ refusals' = refusals + 1
                     /\ stage' = "extract"
                     /\ UNCHANGED <<pass, step, seen, queries, searches>>
        /\ ~Refuse => /\ AddRoute(q)
                      /\ searches' = Append(searches, q)
                      /\ queries' = Tail(queries)
                      /\ UNCHANGED refusals
                      /\ \/ stage' = "extract" /\ UNCHANGED seen
                         \/ \E result \in Searched :
                              /\ seen' = IF result.urls = {}
                                         THEN [seen EXCEPT !.scan = @ \/ result.scan]
                                         ELSE [seen EXCEPT !.urls = result.urls]
                              /\ stage' = IF result.urls = {} THEN "search" ELSE "found"
    BY <1>6, Zenon DEF RecoverySearches
  <2>3. HintsDiffer => ~Refuse
    <3>1. HintsDiffer => q \notin Elements(Routes) /\ Len(Routes) < MaxRoutes
      BY <1>1, <1>2, <1>6, ReadyGoesOn DEF RecoveryInv
    <3>2. Len(Routes) \in Nat /\ MaxRoutes \in Nat
      BY <1>2
    <3> QED
      BY <3>1, <3>2
  <2> HIDE DEF q
  <2>4. tools' \in 0..MaxTools
    <3>1. tools # MaxTools /\ MaxTools \in Nat /\ tools \in 0..MaxTools
      BY <1>2, <1>6
    <3>2. tools' = tools + 1
      BY <2>2
    <3> QED
      BY <3>1, <3>2
  <2>5. progress' \in Progress /\ progress'.everRetried = progress.everRetried
    BY <1>2, <2>2 DEF Progress
  <2>6. CASE Refuse
    <3>1. /\ refusals' = refusals + 1 /\ stage' = "extract"
          /\ UNCHANGED <<pass, step, seen, queries, searches>>
      BY <2>2, <2>6
    <3>2. refusals' \in Nat /\ stage' \in Stages
      BY <1>2, <3>1 DEF Stages
    <3>3. DiscoveryTypeOK'
      BY <1>1, <2>4, <2>5, <3>1, <3>2 DEF RecoveryInv, DiscoveryTypeOK, Progress
    <3>4. Spent'
      <4>1. Spent /\ step' = step /\ pass' = pass /\ searches' = searches
        BY <3>1 DEF RecoveryInv
      <4> QED
        BY <2>5, <4>1, SpentStays, Zenon
    <3> HIDE DEF Refuse
    <3> QED
      BY <1>4, <2>3, <2>6, <3>3, <3>4 DEF RecoveryInv
  <2>7. CASE ~Refuse
    <3>1. /\ AddRoute(q) /\ searches' = Append(searches, q)
          /\ queries' = Tail(queries) /\ refusals' = refusals
      BY <2>2, <2>7
    <3>2. /\ q \notin Elements(Routes) /\ Len(Routes) < MaxRoutes
      <4>1. Len(Routes) \in Nat /\ MaxRoutes \in Nat
        BY <1>2
      <4> QED
        BY <2>7, <4>1
    <3>3. /\ Spent' /\ searches' \in Seq(Queries)
          /\ pass' \in Memory /\ step' \in Contexts
          /\ Routes' = Append(Routes, q)
      BY <2>1, <2>5, <3>1, <3>2, SpentGrows
    <3>4. /\ seen' \in [complete : BOOLEAN, urls : SUBSET Urls, scan : BOOLEAN]
          /\ stage' \in {"extract", "search", "found"}
      <4>1. CASE stage' = "extract" /\ seen' = seen
        BY <1>2, <4>1
      <4>2. ASSUME NEW result \in Searched,
                   seen' = IF result.urls = {}
                           THEN [seen EXCEPT !.scan = @ \/ result.scan]
                           ELSE [seen EXCEPT !.urls = result.urls],
                   stage' = IF result.urls = {} THEN "search" ELSE "found"
            PROVE  /\ seen' \in [complete : BOOLEAN, urls : SUBSET Urls, scan : BOOLEAN]
                   /\ stage' \in {"extract", "search", "found"}
        <5>1. result.urls \subseteq Urls
          BY SearchedOK
        <5> DEFINE c == seen.scan \/ result.scan
        <5>2. c \in BOOLEAN /\ seen' = IF result.urls = {} THEN [seen EXCEPT !.scan = c]
                                       ELSE [seen EXCEPT !.urls = result.urls]
          BY <4>2
        <5> HIDE DEF c
        <5>3. seen' \in [complete : BOOLEAN, urls : SUBSET Urls, scan : BOOLEAN]
          BY <1>2, <5>1, <5>2
        <5> QED
          BY <4>2, <5>3
      <4> QED
        BY <2>2, <2>7, <4>1, <4>2
    <3>5. stage' \in Stages /\ queries' \in Seq(Queries)
      BY <2>1, <3>1, <3>4 DEF Stages
    <3>6. DiscoveryTypeOK'
      BY <1>1, <2>4, <2>5, <3>1, <3>3, <3>4, <3>5 DEF RecoveryInv, DiscoveryTypeOK, Progress
    <3>7. HintsDiffer => Ready'
      BY <1>1, <1>2, <1>6, <3>1, <3>3, ReadyGoesOn DEF RecoveryInv, q
    <3>8. HintsDiffer => RecoverySearchIsAllowed'
      BY <3>1 DEF RecoveryInv, RecoverySearchIsAllowed
    <3> QED
      BY <1>4, <3>3, <3>6, <3>7, <3>8 DEF RecoveryInv
  <2> QED
    BY <2>6, <2>7
<1> QED
  BY <1>5, <1>6

\* The recovery is over: nothing is requested, and nothing to be searched.
LEMMA ExtractOK == RecoveryInv /\ Extract => RecoveryInv'
<1> SUFFICES ASSUME RecoveryInv, Extract PROVE RecoveryInv'
  OBVIOUS
<1>1. /\ stage' = "decide" /\ queries' = <<>> /\ log' = <<>>
      /\ UNCHANGED <<community, pass, carried, step, refs, seen, calls, searches, refusals>>
  BY DEF Extract
<1>2. tools' \in 0..MaxTools
  <2>1. tools \in 0..MaxTools /\ MaxTools \in Nat
    BY DEF RecoveryInv, DiscoveryTypeOK
  <2>2. tools' = tools \/ (tools < MaxTools /\ tools' = tools + 1)
    BY DEF Extract
  <2> QED
    BY <2>1, <2>2
<1>3. progress' \in Progress /\ progress'.everRetried = progress.everRetried
  <2>1. progress \in Progress
    BY DEF RecoveryInv, DiscoveryTypeOK, Progress
  <2>2. progress' = progress \/ progress' = [progress EXCEPT !.extracted = TRUE]
    BY DEF Extract
  <2> QED
    BY <2>1, <2>2 DEF Progress
<1>4. log' \in Seq(Requested) /\ Len(log') = 0 /\ queries' \in Seq(Queries) /\ stage' \in Stages
  BY <1>1 DEF Stages
<1>5. DiscoveryTypeOK'
  BY <1>1, <1>2, <1>3, <1>4 DEF RecoveryInv, DiscoveryTypeOK, Progress
<1>6. Spent'
  <2>1. Spent /\ step' = step /\ pass' = pass /\ searches' = searches
    BY <1>1 DEF RecoveryInv
  <2> QED
    BY <1>3, <2>1, SpentStays, Zenon
<1>7. Hungry' /\ StopsAtEvidence'
  BY <1>1, <1>4 DEF Hungry, StopsAtEvidence
<1>8. HintsDiffer => Ready' /\ RecoverySearchIsAllowed'
  BY <1>1 DEF RecoveryInv, Ready, RecoverySearchIsAllowed
<1> QED
  BY <1>5, <1>6, <1>7, <1>8 DEF RecoveryInv

\* A retry takes the step out of the pass's context for good.
LEMMA RetryOK == RecoveryInv /\ Retry => RecoveryInv'
<1> SUFFICES ASSUME RecoveryInv, Retry PROVE RecoveryInv'
  OBVIOUS
<1>1. /\ stage = "decide" /\ stage' = "execute"
      /\ progress.retries < MaxRetries
      /\ progress' = [progress EXCEPT !.retries = @ + 1, !.everRetried = TRUE]
      /\ UNCHANGED <<community, pass, carried, refs, seen, tools, calls, queries, log, searches,
                     refusals>>
  BY DEF Retry
<1>2. pass \in Memory /\ carried \in Memory /\ step \in Contexts /\ progress \in Progress
  BY DEF RecoveryInv, DiscoveryTypeOK, Progress
<1>3. step' \in Contexts
  <2> DEFINE b == carried.blocked \cup Blocked
             m == [blocked |-> b, routes |-> carried.routes]
  <2>1. Blocked \subseteq Scopes
    BY <1>2 DEF Blocked, Memory, Contexts
  <2>2. b \subseteq Scopes /\ carried.routes \in Seq(Queries)
    BY <1>2, <2>1 DEF Memory
  <2>3. step' = [kind |-> "new", memory |-> m] \/ step' = [kind |-> "new", memory |-> carried]
    BY DEF Retry
  <2> HIDE DEF b
  <2>4. m \in Memory
    BY <2>2 DEF Memory
  <2> HIDE DEF m
  <2> QED
    BY <1>2, <2>3, <2>4 DEF Contexts
<1>4. progress' \in Progress /\ progress'.everRetried
  <2>1. progress.retries + 1 \in 0..MaxRetries
    <3>1. progress.retries \in 0..MaxRetries /\ MaxRetries \in Nat
      BY <1>2 DEF Progress
    <3> QED
      BY <1>1, <3>1
  <2> DEFINE n == progress.retries + 1
  <2>2. n \in 0..MaxRetries /\ progress' = [progress EXCEPT !.retries = n, !.everRetried = TRUE]
    BY <1>1, <2>1
  <2> HIDE DEF n
  <2> QED
    BY <1>2, <2>2 DEF Progress
<1>5. DiscoveryTypeOK'
  BY <1>1, <1>3, <1>4 DEF RecoveryInv, DiscoveryTypeOK, Progress, Stages
<1>6. Spent'
  BY <1>4, Zenon DEF Spent
<1>7. Hungry' /\ StopsAtEvidence' /\ (HintsDiffer => Ready' /\ RecoverySearchIsAllowed')
  BY <1>1 DEF RecoveryInv, Hungry, StopsAtEvidence, Ready, RecoverySearchIsAllowed
<1> QED
  BY <1>5, <1>6, <1>7 DEF RecoveryInv

\* The onward step works in the context of the pass or in a copy of it.
LEMMA NextStepOK ==
  ASSUME RecoveryInv, stage = "decide", NEW pages \in SUBSET Refs, NEW scan \in BOOLEAN,
         NextStep(pages, scan), carried' \in Memory
  PROVE  RecoveryInv'
<1>1. /\ stage' = "execute"
      /\ progress.step < MaxSteps
      /\ progress' = [progress EXCEPT !.step = @ + 1, !.retries = 0,
                                      !.recovered = FALSE, !.extracted = FALSE]
      /\ UNCHANGED <<community, pass, tools, calls, queries, log, searches, refusals>>
  BY DEF NextStep
<1>2. pass \in Memory /\ progress \in Progress
  BY DEF RecoveryInv, DiscoveryTypeOK, Progress
<1>3. NothingKnown \in Memory /\ [NothingKnown EXCEPT !.blocked = pass.blocked] \in Memory
  <2>1. NothingKnown \in Memory
    BY DEF NothingKnown, Memory
  <2>2. pass.blocked \in SUBSET Scopes
    BY <1>2 DEF Memory
  <2> QED
    BY <2>1, <2>2 DEF Memory
<1>4. step' \in Contexts /\ step'.kind # "new"
  <2> DEFINE m == [NothingKnown EXCEPT !.blocked = pass.blocked]
  <2>1. step' = [kind |-> "same", memory |-> NothingKnown] \/ step' = [kind |-> "copy", memory |-> m]
    BY DEF NextStep
  <2>2. m \in Memory
    BY <1>3
  <2> HIDE DEF m
  <2> QED
    BY <1>3, <2>1, <2>2 DEF Contexts
<1>5. /\ refs' \subseteq Refs
      /\ seen' \in [complete : BOOLEAN, urls : SUBSET Urls, scan : BOOLEAN]
  <2>1. /\ refs' = {} \/ refs' = pages
        /\ seen' = NothingSeen \/ seen' = [NothingSeen EXCEPT !.scan = scan]
    BY DEF NextStep
  <2>2. NothingSeen \in [complete : BOOLEAN, urls : SUBSET Urls, scan : BOOLEAN]
    BY DEF NothingSeen
  <2>3. [NothingSeen EXCEPT !.scan = scan] \in [complete : BOOLEAN, urls : SUBSET Urls, scan : BOOLEAN]
    BY <2>2
  <2> QED
    BY <2>1, <2>2, <2>3
<1>6. progress' \in Progress /\ progress'.everRetried = progress.everRetried
  <2> DEFINE n == progress.step + 1
  <2>1. n \in 1..MaxSteps
    <3>1. progress.step \in 1..MaxSteps /\ MaxSteps \in Nat
      BY <1>2 DEF Progress
    <3> QED
      BY <1>1, <3>1
  <2>2. 0 \in 0..MaxRetries
    OBVIOUS
  <2>3. progress' = [progress EXCEPT !.step = n, !.retries = 0,
                                     !.recovered = FALSE, !.extracted = FALSE]
    BY <1>1
  <2> HIDE DEF n
  <2> QED
    BY <1>2, <2>1, <2>2, <2>3 DEF Progress
<1>7. DiscoveryTypeOK'
  BY <1>1, <1>4, <1>5, <1>6 DEF RecoveryInv, DiscoveryTypeOK, Progress, Stages
<1>8. Spent'
  <2> DEFINE OK(s) == Len(s) <= MaxRoutes /\ IsFiniteSet(Elements(s)) /\ Cardinality(Elements(s)) = Len(s)
  <2>1. ~progress.everRetried => searches = pass.routes /\ OK(searches)
    BY DEF RecoveryInv, Spent
  <2>2. OK(searches) => OK(searches')
    <3> HIDE DEF OK
    <3> QED
      BY <1>1
  <2>3. ~progress'.everRetried => step'.kind # "new" /\ searches' = pass'.routes /\ OK(searches')
    <3> HIDE DEF OK
    <3> QED
      BY <1>1, <1>4, <1>6, <2>1, <2>2
  <2> QED
    BY <2>3, Zenon DEF Spent
<1>9. Hungry' /\ StopsAtEvidence' /\ (HintsDiffer => Ready' /\ RecoverySearchIsAllowed')
  BY <1>1 DEF RecoveryInv, Hungry, StopsAtEvidence, Ready, RecoverySearchIsAllowed
<1> QED
  BY <1>7, <1>8, <1>9 DEF RecoveryInv

\* The executor ends with its result.
LEMMA SucceedOK == RecoveryInv /\ Succeed => RecoveryInv'
<1> SUFFICES ASSUME RecoveryInv, Succeed PROVE RecoveryInv'
  OBVIOUS
<1>1. stage = "decide" /\ carried' = pass /\ NextStep(refs, seen.scan)
  BY DEF Succeed
<1>2. pass \in Memory /\ refs \in SUBSET Refs /\ seen.scan \in BOOLEAN
  BY DEF RecoveryInv, DiscoveryTypeOK
<1> QED
  BY <1>1, <1>2, NextStepOK

\* It asks for another plan.
LEMMA ReplanOK == RecoveryInv /\ Replan => RecoveryInv'
<1> SUFFICES ASSUME RecoveryInv, Replan PROVE RecoveryInv'
  OBVIOUS
<1>1. stage = "decide" /\ carried' = carried /\ NextStep({}, FALSE)
  BY DEF Replan
<1>2. carried \in Memory /\ {} \in SUBSET Refs /\ FALSE \in BOOLEAN
  BY DEF RecoveryInv, DiscoveryTypeOK
<1> QED
  BY <1>1, <1>2, NextStepOK

\* It gives up.
LEMMA StopOK == RecoveryInv /\ Stop => RecoveryInv'
<1> SUFFICES ASSUME RecoveryInv, Stop PROVE RecoveryInv'
  OBVIOUS
<1>1. /\ stage' = "done"
      /\ UNCHANGED <<community, pass, carried, step, refs, seen, tools, calls, progress, queries,
                     log, searches, refusals>>
  BY DEF Stop
<1>2. DiscoveryTypeOK'
  BY <1>1 DEF RecoveryInv, DiscoveryTypeOK, Stages
<1>3. Spent'
  BY <1>1, SpentStays DEF RecoveryInv
<1>4. Hungry' /\ StopsAtEvidence' /\ (HintsDiffer => Ready' /\ RecoverySearchIsAllowed')
  BY <1>1 DEF RecoveryInv, Hungry, StopsAtEvidence, Ready, RecoverySearchIsAllowed
<1> QED
  BY <1>2, <1>3, <1>4 DEF RecoveryInv

\* A stuttering step.
LEMMA RecoveryStutters == RecoveryInv /\ UNCHANGED discoveryVars => RecoveryInv'
<1> SUFFICES ASSUME RecoveryInv, UNCHANGED discoveryVars PROVE RecoveryInv'
  OBVIOUS
<1>1. UNCHANGED <<community, pass, carried, step, refs, seen, stage, tools, calls, progress,
                  queries, log, searches, refusals>>
  BY DEF discoveryVars
<1>2. DiscoveryTypeOK'
  BY <1>1 DEF RecoveryInv, DiscoveryTypeOK
<1>3. Spent'
  BY <1>1, SpentStays DEF RecoveryInv
<1>4. Hungry' /\ StopsAtEvidence' /\ RecoverySearchIsAllowed' = RecoverySearchIsAllowed
  BY <1>1 DEF RecoveryInv, Hungry, StopsAtEvidence, RecoverySearchIsAllowed
<1>5. Ready => Ready'
  BY <1>1 DEF Ready, Routes
<1> QED
  BY <1>2, <1>3, <1>4, <1>5 DEF RecoveryInv

\* The invariant holds at first.
LEMMA RecoveryStarts == DiscoveryInit => RecoveryInv
<1> SUFFICES ASSUME DiscoveryInit PROVE RecoveryInv
  OBVIOUS
<1>0. NothingKnown \in Memory /\ NothingKnown.routes = <<>>
  BY DEF NothingKnown, Memory
<1>1. DiscoveryTypeOK
  <2>1. tools \in 0..MaxTools /\ calls \in 0..MaxCalls /\ 0 \in 0..MaxRetries /\ refusals \in Nat
    BY DEF DiscoveryInit
  <2>2. progress \in [step : 1..MaxSteps, retries : 0..MaxRetries,
                      everRetried : BOOLEAN, recovered : BOOLEAN, extracted : BOOLEAN]
    <3>1. 1 \in 1..MaxSteps
      OBVIOUS
    <3> QED
      BY <2>1, <3>1 DEF DiscoveryInit
  <2> QED
    BY <1>0, <2>1, <2>2 DEF DiscoveryInit, DiscoveryTypeOK, Contexts, Stages, NothingSeen
<1>2. Spent
  <2>1. Elements(<<>>) = {}
    BY DEF Elements
  <2>2. /\ step.kind # "new" /\ searches = <<>> /\ pass.routes = <<>> /\ Len(searches) = 0
    BY <1>0 DEF DiscoveryInit
  <2>3. IsFiniteSet(Elements(searches)) /\ Cardinality(Elements(searches)) = 0
    BY <2>1, <2>2, FS_EmptySet
  <2>4. Len(searches) <= MaxRoutes
    BY <2>2
  <2> QED
    BY <2>2, <2>3, <2>4, Zenon DEF Spent
<1>3. Hungry /\ StopsAtEvidence
  BY DEF DiscoveryInit, Hungry, StopsAtEvidence
<1>4. Ready /\ RecoverySearchIsAllowed
  BY DEF DiscoveryInit, Ready, RecoverySearchIsAllowed
<1> QED
  BY <1>1, <1>2, <1>3, <1>4 DEF RecoveryInv

----------------------------------------------------------------------------
(* Theorems.                                                               *)

\* The invariant of a pass of discovery steps with their recoveries.
THEOREM Recovers == DiscoverySpec => []RecoveryInv
<1>1. RecoveryInv /\ [DiscoveryNext]_discoveryVars => RecoveryInv'
  <2> SUFFICES ASSUME RecoveryInv, [DiscoveryNext]_discoveryVars PROVE RecoveryInv'
    OBVIOUS
  <2>1. CASE UNCHANGED discoveryVars
    BY <2>1, RecoveryStutters
  <2>2. CASE DiscoveryNext
    BY <2>2, ModelFetchesOK, ModelSearchesOK, ModelReadsSheetOK, ExecutorReturnsOK,
       FetchPriorityOK, ChooseBranchOK, ExpandListsOK, FetchAtHandOK, FetchSeedsOK,
       RecoverySearchesOK, FetchFoundOK, ExtractOK, RetryOK, SucceedOK, ReplanOK, StopOK,
       RecoveryStutters, Zenon DEF DiscoveryNext, Recovery, Done
  <2> QED
    BY <2>1, <2>2
<1> QED
  BY <1>1, RecoveryStarts, PTL DEF DiscoverySpec

\* A recovery that has captured a complete job description requests no more.
THEOREM StopsAtEvidenceAlways == DiscoverySpec => []StopsAtEvidence
<1>1. RecoveryInv => StopsAtEvidence
  BY DEF RecoveryInv
<1> QED
  BY <1>1, Recovers, PTL

\* The searches of a pass without a retry differ and are no more than the routes.
THEOREM RoutesAreSharedAlways == DiscoverySpec => []RoutesAreShared
<1>1. RecoveryInv => RoutesAreShared
  <2>1. Spent => RoutesAreShared
    BY Zenon DEF Spent, RoutesAreShared
  <2> QED
    BY <2>1 DEF RecoveryInv
<1> QED
  BY <1>1, Recovers, PTL

\* If its queries differ, no search of a recovery is refused as already spent.
THEOREM SearchesAllowed ==
  ASSUME HintsDiffer
  PROVE  DiscoverySpec => []RecoverySearchIsAllowed
<1>1. RecoveryInv => RecoverySearchIsAllowed
  BY DEF RecoveryInv
<1> QED
  BY <1>1, Recovers, PTL

----------------------------------------------------------------------------
(* A recovery comes to an end.                                             *)

Recovering == stage \notin {"execute", "decide", "done"}

\* The stages still ahead of a recovery, this one included; a search that
\* brings nothing stays in its stage.
StagesLeft ==
  CASE stage = "priority" -> 8
    [] stage = "branch"   -> 7
    [] stage \in {"expand", "fetch"} -> 6
    [] stage = "seeds"    -> 5
    [] stage = "search"   -> 4
    [] stage = "found"    -> 3
    [] stage = "extract"  -> 2
    [] OTHER -> 1

\* Whatever is done during a recovery brings it to a later stage, or to a shorter
\* list of queries in the stage of the search.
RecoveryMovesOn ==
  [][Recovering => \/ StagesLeft' < StagesLeft
                   \/ /\ stage = "search" /\ stage' = "search"
                      /\ Len(queries') < Len(queries)]_discoveryVars

\* The most batches a recovery can have asked for where it is: the priority
\* seeds, the pages at hand, the trusted seeds, and what a search found.
BatchesBefore ==
  CASE stage = "branch" -> 1
    [] stage \in {"expand", "fetch"} -> 1
    [] stage = "seeds"  -> 2
    [] stage \in {"search", "found"} -> 3
    [] stage = "extract" -> 4
    [] OTHER -> 0

\* A recovery asks for four batches at most, none larger than a batch may be.
FewBatches == Len(log) <= BatchesBefore

FourBatches ==
  /\ Len(log) <= 4
  /\ \A i \in 1..Len(log) : Cardinality(log[i].urls) <= MaxBatch

\* A recovery is left only by its own steps.
LEMMA OnlyRecovery == Recovering /\ DiscoveryNext => Recovery \/ UNCHANGED discoveryVars
<1> SUFFICES ASSUME Recovering PROVE DiscoveryNext => Recovery \/ UNCHANGED discoveryVars
  OBVIOUS
<1>1. stage # "execute" /\ stage # "decide" /\ stage # "done"
  BY DEF Recovering
<1>2. ~ ModelFetches /\ ~ ModelSearches /\ ~ ModelReadsSheet /\ ~ ExecutorReturns
  BY <1>1, Zenon DEF ModelFetches, ModelSearches, ModelReadsSheet, MayCall, ExecutorReturns
<1>3. ~ Retry /\ ~ Succeed /\ ~ Replan /\ ~ Stop /\ ~ Done
  BY <1>1, Zenon DEF Retry, Succeed, Replan, Stop, Done
<1> QED
  BY <1>2, <1>3, Zenon DEF DiscoveryNext

\* A fetch goes on to one of the stages it names.
LEMMA AutoFetchEnds ==
  ASSUME NEW batch, NEW refused, NEW otherwise, AutoFetch(batch, refused, otherwise)
  PROVE  stage' \in {refused, otherwise, "extract"}
<1>1. CASE batch = {} \/ tools = MaxTools
  BY <1>1 DEF AutoFetch
<1>2. CASE ~ (batch = {} \/ tools = MaxTools)
  <2>1. \E urls \in FirstOf(batch, MaxBatch) : \E o \in Outcomes(urls) :
          stage' = After(o, refused, otherwise)
    BY <1>2, Zenon DEF AutoFetch
  <2> QED
    BY <2>1 DEF After
<1> QED
  BY <1>1, <1>2

\* Each step of a recovery goes on.
LEMMA RecoveryGoesOn ==
  ASSUME RecoveryInv, Recovery
  PROVE  \/ StagesLeft' < StagesLeft
         \/ /\ stage = "search" /\ stage' = "search"
            /\ Len(queries') < Len(queries)
<1>1. CASE FetchPriority
  <2>1. stage = "priority" /\ stage' \in {"extract", "branch"}
    BY <1>1, AutoFetchEnds DEF FetchPriority
  <2> QED
    BY <2>1 DEF StagesLeft
<1>2. CASE ChooseBranch
  <2>1. stage = "branch" /\ stage' \in {"expand", "extract", "seeds", "fetch"}
    BY <1>2 DEF ChooseBranch
  <2> QED
    BY <2>1 DEF StagesLeft
<1>3. CASE ExpandLists
  <2> DEFINE onward == IF Supplied \subseteq Processed THEN "seeds" ELSE "extract"
  <2>1. PICK lists \in FirstOf(Unexpanded, MaxExpand) : AutoFetch(lists, "extract", onward)
    BY <1>3, Zenon DEF ExpandLists
  <2>2. stage' \in {"extract", onward}
    BY <2>1, AutoFetchEnds
  <2>3. stage = "expand" /\ stage' \in {"extract", "seeds"}
    BY <1>3, <2>2 DEF ExpandLists
  <2> QED
    BY <2>3 DEF StagesLeft
<1>4. CASE FetchAtHand
  <2>1. stage = "fetch" /\ stage' \in {"seeds", "extract"}
    BY <1>4, AutoFetchEnds DEF FetchAtHand
  <2> QED
    BY <2>1 DEF StagesLeft
<1>5. CASE FetchSeeds
  <2>1. stage = "seeds" /\ stage' \in {"extract", "search"}
    BY <1>5, AutoFetchEnds DEF FetchSeeds
  <2> QED
    BY <2>1 DEF StagesLeft
<1>6. CASE RecoverySearches
  <2>1. CASE stage' = "extract" \/ stage' = "found"
    <3>1. stage = "search"
      BY <1>6 DEF RecoverySearches
    <3> QED
      BY <2>1, <3>1 DEF StagesLeft
  <2>2. CASE ~ (stage' = "extract" \/ stage' = "found")
    <3>1. stage = "search" /\ stage' = "search" /\ queries # <<>> /\ queries' = Tail(queries)
      BY <1>6, <2>2 DEF RecoverySearches
    <3>2. queries \in Seq(Queries)
      BY DEF RecoveryInv, DiscoveryTypeOK
    <3>3. Len(queries') = Len(queries) - 1 /\ Len(queries) \in Nat
      BY <3>1, <3>2
    <3> QED
      BY <3>1, <3>3
  <2> QED
    BY <2>1, <2>2
<1>7. CASE FetchFound
  <2>1. stage = "found" /\ stage' = "extract"
    BY <1>7, AutoFetchEnds DEF FetchFound
  <2> QED
    BY <2>1 DEF StagesLeft
<1>8. CASE Extract
  <2>1. stage = "extract" /\ stage' = "decide"
    BY <1>8 DEF Extract
  <2> QED
    BY <2>1 DEF StagesLeft
<1> QED
  BY <1>1, <1>2, <1>3, <1>4, <1>5, <1>6, <1>7, <1>8 DEF Recovery

\* What RecoveryEnds needs of the code: a recovery cannot go round, it moves
\* through its stages, and its queries run out.
THEOREM RecoveriesMoveOn == DiscoverySpec => RecoveryMovesOn
<1>1. RecoveryInv /\ [DiscoveryNext]_discoveryVars =>
        [Recovering => \/ StagesLeft' < StagesLeft
                       \/ /\ stage = "search" /\ stage' = "search"
                          /\ Len(queries') < Len(queries)]_discoveryVars
  BY OnlyRecovery, RecoveryGoesOn
<1> QED
  BY <1>1, Recovers, PTL DEF DiscoverySpec, RecoveryMovesOn

----------------------------------------------------------------------------
(* A recovery asks for little.                                             *)

\* Every batch is as small as the code cuts it.
SmallBatches == \A i \in 1..Len(log) : Cardinality(log[i].urls) <= MaxBatch

BatchesInv == FewBatches /\ SmallBatches

\* A fetch asks for one batch at most.
LEMMA AutoFetchAsks ==
  ASSUME IsFiniteSet(Urls), RecoveryInv, NEW batch \in SUBSET Urls,
         NEW refused, NEW otherwise, AutoFetch(batch, refused, otherwise), SmallBatches
  PROVE  Len(log') \in Len(log)..(Len(log) + 1) /\ SmallBatches'
<1>0. log \in Seq(Requested) /\ Len(log) \in Nat
  BY DEF RecoveryInv, DiscoveryTypeOK
<1>1. CASE batch = {} \/ tools = MaxTools
  <2>1. log' = log
    BY <1>1 DEF AutoFetch
  <2> QED
    BY <1>0, <2>1 DEF SmallBatches
<1>2. CASE ~ (batch = {} \/ tools = MaxTools)
  <2> DEFINE Sent(urls) == {u \in urls : DomainOf[u] \notin Blocked}
             Entry(urls, o) == [urls |-> Sent(urls), complete |-> HasComplete(o),
                                refused |-> Denied(o) \cap Sent(urls)]
  <2>1. \E urls \in FirstOf(batch, MaxBatch) : \E o \in Outcomes(urls) :
          log' = Append(log, Entry(urls, o))
    BY <1>2, Zenon DEF AutoFetch
  <2>2. PICK urls \in FirstOf(batch, MaxBatch) : \E o \in Outcomes(urls) :
          log' = Append(log, Entry(urls, o))
    BY <2>1
  <2>3. PICK o \in Outcomes(urls) : log' = Append(log, Entry(urls, o))
    BY <2>2
  <2>4. urls \in SUBSET Urls /\ IsFiniteSet(urls) /\ IsFiniteSet(batch)
    <3>1. urls \in SUBSET batch
      BY DEF FirstOf
    <3> QED
      BY <3>1, FS_Subset
  <2>5. Cardinality(urls) <= MaxBatch
    <3>1. Cardinality(urls) = IF Cardinality(batch) < MaxBatch THEN Cardinality(batch) ELSE MaxBatch
      BY DEF FirstOf
    <3>2. Cardinality(batch) \in Nat /\ MaxBatch \in Nat
      BY <2>4, FS_CardinalityType
    <3> QED
      BY <3>1, <3>2
  <2>6. Sent(urls) \subseteq urls /\ Sent(urls) \subseteq Urls
    BY <2>4
  <2>7. Cardinality(Sent(urls)) <= MaxBatch
    <3>1. Cardinality(Sent(urls)) <= Cardinality(urls) /\ IsFiniteSet(Sent(urls))
      BY <2>4, <2>6, FS_Subset
    <3>2. Cardinality(urls) \in Nat /\ Cardinality(Sent(urls)) \in Nat /\ MaxBatch \in Nat
      BY <2>4, <3>1, FS_CardinalityType
    <3> QED
      BY <2>5, <3>1, <3>2
  <2>8. Entry(urls, o) \in Requested /\ Entry(urls, o).urls = Sent(urls)
    <3>1. HasComplete(o) \in BOOLEAN /\ Denied(o) \cap Sent(urls) \subseteq Urls
      BY <2>6 DEF HasComplete
    <3> QED
      BY <2>6, <3>1 DEF Requested
  <2> DEFINE x == Entry(urls, o)
  <2>9. log' = Append(log, x) /\ x \in Requested /\ Cardinality(x.urls) <= MaxBatch
    BY <2>3, <2>7, <2>8
  <2> HIDE DEF x
  <2>10. /\ Len(log') = Len(log) + 1 /\ log'[Len(log) + 1] = x
         /\ \A i \in 1..Len(log) : log'[i] = log[i]
    BY <1>0, <2>9, AppendProperties
  <2>11. SmallBatches'
    <3> SUFFICES ASSUME NEW i \in 1..Len(log') PROVE Cardinality(log'[i].urls) <= MaxBatch
      BY DEF SmallBatches
    <3>1. i \in 1..Len(log) \/ i = Len(log) + 1
      BY <1>0, <2>10
    <3> QED
      BY <2>9, <2>10, <3>1 DEF SmallBatches
  <2> QED
    BY <1>0, <2>10, <2>11
<1> QED
  BY <1>1, <1>2

\* A fetch that goes on to a stage with more batches behind it.
LEMMA BatchesGrow ==
  ASSUME IsFiniteSet(Urls), RecoveryInv, BatchesInv, NEW batch \in SUBSET Urls,
         NEW refused, NEW otherwise, AutoFetch(batch, refused, otherwise),
         BatchesBefore \in Nat, BatchesBefore' \in Nat, BatchesBefore + 1 <= BatchesBefore'
  PROVE  BatchesInv'
<1>0. FewBatches /\ SmallBatches
  BY DEF BatchesInv
<1>1. Len(log') \in Len(log)..(Len(log) + 1) /\ SmallBatches'
  BY <1>0, AutoFetchAsks, Zenon
<1>2. log \in Seq(Requested) /\ Len(log) \in Nat
  BY DEF RecoveryInv, DiscoveryTypeOK
<1>3. Len(log') <= BatchesBefore'
  BY <1>0, <1>1, <1>2 DEF FewBatches
<1> QED
  BY <1>1, <1>3 DEF BatchesInv, FewBatches

\* A step that asks for nothing and leaves no fewer batches behind it.
LEMMA BatchesStay ==
  ASSUME RecoveryInv, BatchesInv, log' = log, BatchesBefore \in Nat,
         BatchesBefore' \in Nat, BatchesBefore <= BatchesBefore'
  PROVE  BatchesInv'
<1>1. Len(log) \in Nat
  BY DEF RecoveryInv, DiscoveryTypeOK
<1>2. Len(log') <= BatchesBefore'
  BY <1>1 DEF BatchesInv, FewBatches
<1>3. SmallBatches'
  BY DEF BatchesInv, SmallBatches
<1> QED
  BY <1>2, <1>3 DEF BatchesInv, FewBatches

LEMMA NoBatches == ASSUME log = <<>> PROVE BatchesInv
<1>1. Len(log) = 0 /\ BatchesBefore \in Nat
  BY DEF BatchesBefore
<1> QED
  BY <1>1 DEF BatchesInv, FewBatches, SmallBatches

\* Every step keeps the count.
LEMMA BatchesKept ==
  ASSUME IsFiniteSet(Urls), RecoveryInv, BatchesInv, [DiscoveryNext]_discoveryVars
  PROVE  BatchesInv'
<1>1. CASE FetchPriority
  <2>1. /\ stage = "priority" /\ stage' \in {"extract", "branch"}
        /\ AutoFetch(Priority \ Processed, "extract", "branch")
    BY <1>1, AutoFetchEnds DEF FetchPriority
  <2>2. BatchesBefore = 0 /\ BatchesBefore' \in {1, 4}
    BY <2>1 DEF BatchesBefore
  <2>3. Priority \ Processed \in SUBSET Urls
    OBVIOUS
  <2> QED
    BY <2>1, <2>2, <2>3, BatchesGrow
<1>2. CASE ChooseBranch
  <2>1. /\ stage = "branch" /\ stage' \in {"expand", "extract", "seeds", "fetch"}
        /\ log' = log
    BY <1>2 DEF ChooseBranch
  <2>2. BatchesBefore = 1 /\ BatchesBefore' \in {1, 2, 4}
    BY <2>1 DEF BatchesBefore
  <2> QED
    BY <2>1, <2>2, BatchesStay
<1>3. CASE ExpandLists
  <2> DEFINE onward == IF Supplied \subseteq Processed THEN "seeds" ELSE "extract"
  <2>1. PICK lists \in FirstOf(Unexpanded, MaxExpand) : AutoFetch(lists, "extract", onward)
    BY <1>3, Zenon DEF ExpandLists
  <2>2. stage' \in {"extract", onward}
    BY <2>1, AutoFetchEnds
  <2>3. stage = "expand" /\ stage' \in {"extract", "seeds"}
    BY <1>3, <2>2 DEF ExpandLists
  <2>4. BatchesBefore = 1 /\ BatchesBefore' \in {2, 4}
    BY <2>3 DEF BatchesBefore
  <2>5. lists \in SUBSET Urls
    <3>1. Unexpanded \subseteq Urls
      BY DEF Unexpanded, RecoveryInv, DiscoveryTypeOK, Refs
    <3> QED
      BY <3>1 DEF FirstOf
  <2> HIDE DEF onward
  <2> QED
    BY <2>1, <2>4, <2>5, BatchesGrow
<1>4. CASE FetchAtHand
  <2> DEFINE urls == IF seen.urls # {} THEN seen.urls ELSE Supplied \ Processed
  <2>1. /\ stage = "fetch" /\ stage' \in {"seeds", "extract"}
        /\ AutoFetch(urls, "seeds", "seeds")
    BY <1>4, AutoFetchEnds DEF FetchAtHand
  <2>2. BatchesBefore = 1 /\ BatchesBefore' \in {2, 4}
    BY <2>1 DEF BatchesBefore
  <2>3. urls \in SUBSET Urls
    BY DEF RecoveryInv, DiscoveryTypeOK
  <2> HIDE DEF urls
  <2> QED
    BY <2>1, <2>2, <2>3, BatchesGrow
<1>5. CASE FetchSeeds
  <2>1. /\ stage = "seeds" /\ stage' \in {"extract", "search"}
        /\ AutoFetch(Seeds \ Processed, "extract", "search")
    BY <1>5, AutoFetchEnds DEF FetchSeeds
  <2>2. BatchesBefore = 2 /\ BatchesBefore' \in {3, 4}
    BY <2>1 DEF BatchesBefore
  <2>3. Seeds \ Processed \in SUBSET Urls
    OBVIOUS
  <2> QED
    BY <2>1, <2>2, <2>3, BatchesGrow
<1>6. CASE RecoverySearches
  <2>1. stage = "search" /\ stage' \in {"extract", "search", "found"} /\ log' = log
    BY <1>6 DEF RecoverySearches
  <2>2. BatchesBefore = 3 /\ BatchesBefore' \in {3, 4}
    BY <2>1 DEF BatchesBefore
  <2> QED
    BY <2>1, <2>2, BatchesStay
<1>7. CASE FetchFound
  <2>1. /\ stage = "found" /\ stage' = "extract"
        /\ AutoFetch(seen.urls, "extract", "extract")
    BY <1>7, AutoFetchEnds DEF FetchFound
  <2>2. BatchesBefore = 3 /\ BatchesBefore' = 4
    BY <2>1 DEF BatchesBefore
  <2>3. seen.urls \in SUBSET Urls
    BY DEF RecoveryInv, DiscoveryTypeOK
  <2> QED
    BY <2>1, <2>2, <2>3, BatchesGrow
<1>8. CASE Extract \/ ExecutorReturns
  <2>1. log' = <<>>
    BY <1>8 DEF Extract, ExecutorReturns
  <2>2. Len(log') = 0 /\ BatchesBefore' \in Nat
    BY <2>1 DEF BatchesBefore
  <2>3. FewBatches'
    BY <2>2 DEF FewBatches
  <2>4. SmallBatches'
    BY <2>2 DEF SmallBatches
  <2> QED
    BY <2>3, <2>4 DEF BatchesInv
<1>9. CASE ModelFetches \/ ModelSearches \/ ModelReadsSheet
  <2>a. /\ ModelFetches => stage' = stage /\ log' = log
        /\ ModelSearches => stage' = stage /\ log' = log
        /\ ModelReadsSheet => stage' = stage /\ log' = log
    BY Zenon DEF ModelFetches, ModelSearches, ModelReadsSheet
  <2>1. stage' = stage /\ log' = log
    BY <1>9, <2>a
  <2>2. BatchesBefore' = BatchesBefore /\ BatchesBefore \in Nat
    BY <2>1 DEF BatchesBefore
  <2> QED
    BY <2>1, <2>2, BatchesStay
<1>10. CASE Retry \/ Succeed \/ Replan \/ Stop
  <2>1. stage = "decide" /\ stage' \in {"execute", "done"} /\ log' = log
    BY <1>10 DEF Retry, Succeed, Replan, Stop, NextStep
  <2>2. BatchesBefore' = 0 /\ BatchesBefore = 0
    BY <2>1 DEF BatchesBefore
  <2> QED
    BY <2>1, <2>2, BatchesStay
<1>11. CASE UNCHANGED discoveryVars
  <2>1. stage' = stage /\ log' = log
    BY <1>11 DEF discoveryVars
  <2>2. BatchesBefore' = BatchesBefore /\ BatchesBefore \in Nat
    BY <2>1 DEF BatchesBefore
  <2> QED
    BY <2>1, <2>2, BatchesStay
<1> QED
  BY <1>1, <1>2, <1>3, <1>4, <1>5, <1>6, <1>7, <1>8, <1>9, <1>10, <1>11
  DEF DiscoveryNext, Recovery, Done

\* However many pages and seeds there are, a recovery asks for at most four
\* batches, each no larger than a batch may be.
THEOREM RecoveryAsksLittle ==
  ASSUME IsFiniteSet(Urls)
  PROVE  DiscoverySpec => []FourBatches
<1>1. DiscoveryInit => BatchesInv
  BY NoBatches DEF DiscoveryInit
<1>2. RecoveryInv /\ BatchesInv /\ [DiscoveryNext]_discoveryVars => BatchesInv'
  BY BatchesKept
<1>3. RecoveryInv /\ BatchesInv => FourBatches
  <2> SUFFICES ASSUME RecoveryInv, BatchesInv PROVE FourBatches
    OBVIOUS
  <2>1. BatchesBefore \in 0..4
    BY DEF BatchesBefore
  <2>2. Len(log) \in Nat
    BY DEF RecoveryInv, DiscoveryTypeOK
  <2>3. Len(log) <= 4
    BY <2>1, <2>2 DEF BatchesInv, FewBatches
  <2> QED
    BY <2>3 DEF BatchesInv, SmallBatches, FourBatches
<1> QED
  BY <1>1, <1>2, <1>3, Recovers, PTL DEF DiscoverySpec
=============================================================================
