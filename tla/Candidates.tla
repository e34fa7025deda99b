----------------------------- MODULE Candidates -----------------------------
(***************************************************************************)
(* What becomes of the job descriptions that sub-agents extract from the   *)
(* pages of one list: write_candidates.py keeps them in one file per page, *)
(* deduplicate.py merges the files, coverage_gate.py judges the result.    *)
(*                                                                         *)
(* A sub-agent hands over its page in several calls of the writer, each a  *)
(* process of its own that reads the page's file, adds what is new and     *)
(* writes the file again.  Nothing orders two calls: a model may issue     *)
(* several in one message, and the path of every run is the same.  A call  *)
(* that exceeds its time is killed (skill_script_runner.py).               *)
(*                                                                         *)
(* Texts are compared after normalisation in the code and are values here; *)
(* Within says which title is part of which.  All openings have one        *)
(* recruitment type and department.                                        *)
(***************************************************************************)
EXTENDS Naturals, Sequences, FiniteSets, FiniteSetsExt, SequencesExt

CONSTANTS
  Pages,    \* the page files, 1 .. n
  Calls,    \* calls of the scripts that may be under way together
  MaxCalls, \* calls per page
  BatchMax, \* candidates per call
  Worlds,   \* what the pages offer, see WorldType
  Openings, Companies, Titles, Places, Urls, Bodies,
  Within,   \* pairs of titles, the first part of the second
  None      \* an empty field

\* refs: the openings whose evidence the candidate cites.  titleOnly: cited
\* as a row of a list.  junk: title or body is a placeholder.
CandidateType ==
  [company : Companies, title : Titles, place : Places \cup {None},
   url : Urls \cup {None}, body : Bodies \cup {None},
   refs : SUBSET Openings, titleOnly : BOOLEAN, junk : BOOLEAN]

\* emits: what sub-agents may extract from a page.  others: what other files
\* under output/ hold.  listed: the openings the site counts, if it does.
WorldType ==
  [emits : [Pages -> SUBSET CandidateType], others : Seq(CandidateType),
   listed : SUBSET Openings]

ASSUME CandidatesAssumption ==
  /\ IsFiniteSet(Pages) /\ Pages = 1..Cardinality(Pages) /\ Pages # {}
  /\ IsFiniteSet(Openings)
  /\ MaxCalls \in Nat \ {0} /\ BatchMax \in Nat \ {0}
  /\ Worlds \subseteq WorldType
  /\ Within \subseteq Titles \X Titles

VARIABLES
  world,
  files,     \* the file of each page: Absent, Torn or a sequence in "list"
  calls,     \* the calls under way
  left,      \* calls a page has left
  answered,  \* candidates of the calls that reported "ok", per page
  disturbed, \* pages where calls overlapped or one was killed while writing
  stage,
  merged,    \* candidates_merged.json
  verdict    \* the answer of the gate

vars == <<world, files, calls, left, answered, disturbed, stage, merged, verdict>>

Absent == [is |-> "absent", list |-> <<>>]
Torn == [is |-> "torn", list |-> <<>>]
Listing(s) == [is |-> "list", list |-> s]

Idle == [at |-> "idle", page |-> 1, found |-> <<>>, batch |-> <<>>]

-----------------------------------------------------------------------------
\* The candidates of a sequence that are in a set, in their order.
Filtered(s, kept) ==
  LET Upto[n \in 0..Len(s)] ==
        IF n = 0 THEN <<>>
        ELSE IF s[n] \in kept THEN Append(Upto[n - 1], s[n]) ELSE Upto[n - 1]
  IN Upto[Len(s)]

-----------------------------------------------------------------------------
(* write_candidates.py                                                     *)

HasBody(c) == c.body # None

\* Mutant of Valid: title-only rows pass.
ValidAnyEvidence(c) == HasBody(c)

\* _valid_candidate
Valid(c) == HasBody(c) /\ ~c.titleOnly

\* _identity
Identity(c) == <<c.company, c.title, c.place>>

Added(s, c) ==
  IF \E i \in DOMAIN s : Identity(s[i]) = Identity(c) THEN s ELSE Append(s, c)

\* The loop of main: what the batch adds to the candidates found in the file.
Accumulated(found, batch) ==
  LET Upto[n \in 0..Len(batch)] ==
        IF n = 0 THEN found ELSE Added(Upto[n - 1], batch[n])
  IN Upto[Len(batch)]

\* Mutant of Found: a batch without --append starts the file anew.
FoundNothing(file) == <<>>

\* What a call makes of the file: an unreadable one counts as empty.
Found(file) == file.list

Busy(p) == {c \in Calls : calls[c].at # "idle" /\ calls[c].page = p}

\* A call starts and reads the file of its page; a suffix of the page's name
\* in --out leads to the same file.
Load(c, p, batch) ==
  /\ stage = "extracting" /\ calls[c].at = "idle" /\ left[p] > 0
  /\ calls' = [calls EXCEPT ![c] =
                 [at |-> "loaded", page |-> p, found |-> Found(files[p]),
                  batch |-> Filtered(batch, {b \in ToSet(batch) : Valid(b)})]]
  /\ left' = [left EXCEPT ![p] = @ - 1]
  /\ disturbed' = IF Busy(p) = {} THEN disturbed ELSE disturbed \cup {p}
  /\ UNCHANGED <<world, files, answered, stage, merged, verdict>>

\* validate.py --package reads the file and, if every candidate is valid,
\* writes it again with the keys added.
LoadToPackage(c, p) ==
  /\ files[p].is = "list"
  /\ Load(c, p, <<>>)

\* The call ends without touching a file: no JSON in its input, a path
\* outside output/ or of another form, candidates that do not validate.
Refuse(p) ==
  /\ stage = "extracting" /\ left[p] > 0
  /\ left' = [left EXCEPT ![p] = @ - 1]
  /\ UNCHANGED <<world, files, calls, answered, disturbed, stage, merged, verdict>>

\* write_text opens the file, which empties it ...
Open(c) ==
  /\ calls[c].at = "loaded"
  /\ files' = [files EXCEPT ![calls[c].page] = Torn]
  /\ calls' = [calls EXCEPT ![c].at = "open"]
  /\ UNCHANGED <<world, left, answered, disturbed, stage, merged, verdict>>

Contents(c) == Listing(Accumulated(calls[c].found, calls[c].batch))

\* ... and fills it; the call reports what it kept.
Fill(c) ==
  LET p == calls[c].page
  IN  /\ calls[c].at = "open"
      /\ files' = [files EXCEPT ![p] = Contents(c)]
      /\ answered' = [answered EXCEPT ![p] = @ \cup ToSet(calls[c].batch)]
      /\ calls' = [calls EXCEPT ![c] = Idle]
      /\ UNCHANGED <<world, left, disturbed, stage, merged, verdict>>

\* The runner kills a call that is out of time, perhaps after its last write.
Kill(c) ==
  LET p == calls[c].page
  IN  /\ calls[c].at # "idle"
      /\ calls' = [calls EXCEPT ![c] = Idle]
      /\ IF calls[c].at = "open"
           THEN /\ files' \in {files, [files EXCEPT ![p] = Contents(c)]}
                /\ disturbed' = disturbed \cup {p}
           ELSE UNCHANGED <<files, disturbed>>
      /\ UNCHANGED <<world, left, answered, stage, merged, verdict>>

-----------------------------------------------------------------------------
(* deduplicate.py                                                          *)

\* The files a glob over output/ finds, by name; an unreadable one is skipped.
Loaded ==
  LET Upto[n \in 0..Cardinality(Pages)] ==
        IF n = 0 THEN <<>> ELSE Upto[n - 1] \o files[n].list
  IN Upto[Cardinality(Pages)] \o world.others

\* _identity_key
JobIdentity(c) ==
  IF HasBody(c) THEN <<"jd", c.company, c.body, c.place>>
                ELSE <<"title", c.company, c.title, c.place>>

Meets(s, t) == s = t \/ <<s, t>> \in Within \/ <<t, s>> \in Within

\* Mutant of Compatible: every route fits a cluster.
CompatibleAlways(url, members) == TRUE

Compatible(url, members) ==
  LET routes == {members[i].url : i \in DOMAIN members} \ {None}
  IN  routes = {} \/ url = None \/ url \in routes

\* Rows of one identity are merged; those with a description only if a title
\* meets one of the cluster's and the routes do not contradict each other.
Fits(c, members) ==
  /\ JobIdentity(members[1]) = JobIdentity(c)
  /\ HasBody(c) => /\ Compatible(c.url, members)
                   /\ \E i \in DOMAIN members : Meets(members[i].title, c.title)

\* _cluster_by_title_substring: the first cluster that fits takes the row.
Place(clusters, c) ==
  LET fits == {k \in DOMAIN clusters : Fits(c, clusters[k])}
  IN  IF fits = {} THEN Append(clusters, <<c>>)
                   ELSE [clusters EXCEPT ![Min(fits)] = Append(@, c)]

\* A title or a text that is nothing but a placeholder ("test", "tbd").
Junk(c) == c.junk

\* The rows in clusters, without placeholders (Pass 0).  The code groups them by
\* identity before it clusters a group; only the order of the clusters differs.
Clusters(s) ==
  LET Upto[n \in 0..Len(s)] ==
        IF n = 0 THEN <<>>
        ELSE IF Junk(s[n]) THEN Upto[n - 1] ELSE Place(Upto[n - 1], s[n])
  IN Upto[Len(s)]

\* _merge, into the first member: it keeps its title and fills its route from the
\* first that has one; the text is that of the last.
Combined(members) ==
  LET routed == {i \in DOMAIN members : members[i].url # None}
      full == {i \in DOMAIN members : HasBody(members[i])}
  IN [members[1] EXCEPT
        !.refs = UNION {members[i].refs : i \in DOMAIN members},
        !.url = IF routed = {} THEN None ELSE members[Min(routed)].url,
        !.body = IF full = {} THEN None ELSE members[Max(full)].body]

\* Pass 1.
Deduplicated(s) ==
  LET clusters == Clusters(s) IN [k \in DOMAIN clusters |-> Combined(clusters[k])]

\* Pass 2: a row without a body whose title has a full description is dropped.
WithoutEchoes(s) ==
  LET full == {c.title : c \in {d \in ToSet(s) : HasBody(d)}}
  IN  Filtered(s, {c \in ToSet(s) : HasBody(c) \/ c.title \notin full})

\* The routes that several titles share.
SharedUrls(s) ==
  {u \in Urls : Cardinality({s[i].title : i \in {j \in DOMAIN s : s[j].url = u}}) > 1}

\* _clear_shared_listing_apply_urls
WithoutSharedUrls(s) ==
  [i \in DOMAIN s |-> IF s[i].url \in SharedUrls(s) THEN [s[i] EXCEPT !.url = None]
                                                    ELSE s[i]]

\* The keys and warnings that are added in the end change no field that tells
\* candidates apart.
Processed(s) == WithoutSharedUrls(WithoutEchoes(Deduplicated(s)))

\* The planner merges when the calls of its sub-agents have returned.
Merge ==
  /\ stage = "extracting" /\ \A c \in Calls : calls[c].at = "idle"
  /\ merged' = Processed(Loaded)
  /\ stage' = "merged"
  /\ UNCHANGED <<world, files, calls, left, answered, disturbed, verdict>>

-----------------------------------------------------------------------------
(* coverage_gate.py                                                        *)

\* Mutant of GateIdentity: the text tells openings apart, not the route.
GateIdentityOfText(c) == <<"fallback", c.title, c.place, c.body>>

\* _candidate_identity
GateIdentity(c) ==
  IF c.url # None THEN <<"url", c.url>> ELSE <<"fallback", c.title, c.place, c.body>>

\* _identities
GateIdentities(s) == {GateIdentity(WithoutSharedUrls(s)[i]) : i \in DOMAIN s}

\* evaluate_coverage; terminal: the browser saw the end of the list.
Reasons(s, terminal, counted) ==
  {r \in {"missing_terminal_evidence", "missing_jd_body",
          "duplicate_candidate_identity", "expected_count_mismatch"} :
     CASE r = "missing_terminal_evidence" -> ~terminal
       [] r = "missing_jd_body" -> \E i \in DOMAIN s : ~HasBody(s[i])
       [] r = "duplicate_candidate_identity" -> Cardinality(GateIdentities(s)) # Len(s)
       [] r = "expected_count_mismatch" -> counted /\ Len(s) # Cardinality(world.listed)}

\* The gate is asked once; counted: the site told how many openings it lists.
Gate(terminal, counted) ==
  /\ stage = "merged"
  /\ verdict' = [passed |-> Reasons(merged, terminal, counted) = {}, counted |-> counted]
  /\ stage' = "judged"
  /\ UNCHANGED <<world, files, calls, left, answered, disturbed, merged>>

-----------------------------------------------------------------------------
NoVerdict == [passed |-> FALSE, counted |-> FALSE]

Init ==
  /\ world \in Worlds
  /\ files = [p \in Pages |-> Absent]
  /\ calls = [c \in Calls |-> Idle]
  /\ left = [p \in Pages |-> MaxCalls]
  /\ answered = [p \in Pages |-> {}]
  /\ disturbed = {}
  /\ stage = "extracting"
  /\ merged = <<>>
  /\ verdict = NoVerdict

\* The batches a sub-agent may hand over: each candidate once.
Batches(p) ==
  {s \in BoundedSeq(world.emits[p], BatchMax) : Cardinality(ToSet(s)) = Len(s)}

Next ==
  \/ \E p \in Pages :
       \/ \E c \in Calls :
            \/ \E batch \in Batches(p) : Load(c, p, batch)
            \/ LoadToPackage(c, p)
       \/ Refuse(p)
  \/ \E c \in Calls : Open(c) \/ Fill(c) \/ Kill(c)
  \/ Merge
  \/ \E terminal, counted \in BOOLEAN : Gate(terminal, counted)

Spec == Init /\ [][Next]_vars

-----------------------------------------------------------------------------
(***************************************************************************)
(* The variables have their types; a page file holds publishable           *)
(* descriptions only, and each identity once, however often a batch was    *)
(* sent again ("deduped, never double-counted", write_candidates.py:345).  *)
(***************************************************************************)
TypeOK ==
  /\ world \in Worlds
  /\ \A p \in Pages :
       LET s == files[p].list
       IN  /\ files[p].is \in {"absent", "torn", "list"}
           /\ \A i \in DOMAIN s : s[i] \in CandidateType /\ HasBody(s[i]) /\ ~s[i].titleOnly
           /\ \A i, j \in DOMAIN s : Identity(s[i]) = Identity(s[j]) => i = j
  /\ \A c \in Calls : calls[c].at \in {"idle", "loaded", "open"} /\ calls[c].page \in Pages
  /\ left \in [Pages -> 0..MaxCalls]
  /\ disturbed \subseteq Pages
  /\ stage \in {"extracting", "merged", "judged"}
  /\ ToSet(merged) \subseteq CandidateType

(***************************************************************************)
(* A batch that was reported as written is never lost by a later one: as   *)
(* long as the calls of a page do not overlap and none is killed while it  *)
(* writes, what was reported stays in the file, and the merged list has a  *)
(* job of that company and place that cites its evidence.                  *)
(* ("never overwrites prior batches", write_candidates.py:345.)            *)
(***************************************************************************)
AnsweredIsKept ==
  \A p \in Pages \ disturbed :
    \A c \in answered[p] :
      /\ files[p].is = "list" =>
           \E i \in DOMAIN files[p].list : Identity(files[p].list[i]) = Identity(c)
      /\ stage # "extracting" =>
           \E d \in ToSet(Loaded) :
             /\ Identity(d) = Identity(c)
             /\ Junk(d) \/ \E i \in DOMAIN merged :
                             /\ merged[i].company = c.company /\ merged[i].place = c.place
                             /\ d.refs \subseteq merged[i].refs

\* The full descriptions that are merged.
Full == {c \in ToSet(Loaded) : HasBody(c) /\ ~Junk(c)}

\* Each cites an opening, and those that cite the same one have the same route, or
\* none of them has one.
RoutesTell ==
  \A c, d \in Full : c.refs # {} /\ (c.refs \cap d.refs # {} => c.url = d.url)

(***************************************************************************)
(* Openings that share the text of a template but lead to different        *)
(* applications are never merged into one, in whatever order the pages are *)
(* read and whichever openings lack a route (deduplicate.py:383-386).      *)
(***************************************************************************)
RoutesStayApart ==
  stage # "extracting" /\ RoutesTell =>
    \A i \in DOMAIN merged : HasBody(merged[i]) =>
      \A c, d \in Full :
        c.refs \cup d.refs \subseteq merged[i].refs => c.url = d.url \/ None \in {c.url, d.url}

\* What is extracted are openings that the site lists, and each of them has a route
\* of its own, copied faithfully with the title; only the text may be extracted
\* differently from time to time.
Routed ==
  LET all == (UNION {world.emits[p] : p \in Pages}) \cup ToSet(world.others)
  IN  /\ \A c \in all : c.url # None /\ \E o \in world.listed : c.refs = {o}
      /\ \A c, d \in all : /\ (c.refs = d.refs) <=> (c.url = d.url)
                           /\ (c.refs = d.refs) => (c.title = d.title)

(***************************************************************************)
(* A gate that passes with the site's own count has every opening: a lost  *)
(* batch cannot be made up for by an opening that was extracted twice with *)
(* different text, whatever overlapped or was killed on the way            *)
(* ("PASS only when observed evidence is complete", coverage_gate.py:79).  *)
(***************************************************************************)
GateIsSound ==
  (stage = "judged" /\ verdict.passed /\ verdict.counted /\ Routed) =>
     \A o \in world.listed : \E i \in DOMAIN merged : o \in merged[i].refs

(***************************************************************************)
(* "A campus portal can legitimately publish two openings with the same    *)
(* title under different teams while omitting both location and detail     *)
(* URL.  Their full JD body is the only auditable discriminator"           *)
(* (coverage_gate.py:45-47): an opening reported as written is in the file *)
(* until a call writes over it.  Violated by CandidatesTwins.cfg: the      *)
(* writer's identity looks at neither body nor route.                      *)
(***************************************************************************)
TwinsAreKept ==
  \A p \in Pages \ disturbed :
    files[p].is = "list" =>
      \A c \in answered[p] : \E i \in DOMAIN files[p].list : files[p].list[i].refs = c.refs

(***************************************************************************)
(* "Company A's full JD won't shadow-delete Company B's title-only entry"  *)
(* (deduplicate.py:362): a row without a description is dropped for a full *)
(* one of its own company only.  Violated by CandidatesEchoes.cfg: Pass 2  *)
(* compares titles.                                                        *)
(***************************************************************************)
EchoesAreOwn ==
  stage # "extracting" =>
    \A i \in DOMAIN Loaded :
      (~HasBody(Loaded[i]) /\ ~Junk(Loaded[i])) =>
        \E j \in DOMAIN merged : merged[j].company = Loaded[i].company /\ merged[j].title = Loaded[i].title
=============================================================================
