---------------------------- MODULE MCCandidates ----------------------------
(* Instances of Candidates: two pages with up to three openings.           *)
EXTENDS Candidates, TLC

CONSTANTS c1, c2

Job(o, title, url, body) ==
  [company |-> "acme", title |-> title, place |-> "here", url |-> url, body |-> body,
   refs |-> {o}, titleOnly |-> FALSE, junk |-> FALSE]

World(emits, others, listed) == [emits |-> emits, others |-> others, listed |-> listed]

\* Two openings with routes of their own; the list moved between the pages,
\* and the first is extracted from both, with different text.
RoutedWorld ==
  World(<<{Job("o1", "eng", "u1", "b1")},
          {Job("o1", "eng", "u1", "b2"), Job("o2", "ops", "u2", "b3")}>>,
        <<>>, {"o1", "o2"})

\* Openings of one template, told apart by their routes, if these are copied;
\* a placeholder, and a row without a description.
TemplateWorld ==
  World(<<{Job("o1", "eng", "u1", "b1"), Job("o2", "eng senior", None, "b1")},
          {Job("o3", "eng senior", "u2", "b1"),
           [Job("o3", "ops", None, "b2") EXCEPT !.titleOnly = TRUE],
           [Job("o3", "ops", None, "b2") EXCEPT !.junk = TRUE]}>>,
        <<>>, {"o1", "o2", "o3"})

\* The list's own URL is copied into every row; another file under output/
\* has titles without descriptions.
SharedWorld ==
  World(<<{Job("o1", "eng", "u1", "b1"), Job("o2", "ops", "u1", "b2")},
          {Job("o3", "eng", "u1", "b3")}>>,
        <<Job("o1", "eng", None, None), [Job("o3", "hr", None, None) EXCEPT !.company = "other"]>>,
        {"o1", "o2", "o3"})

\* Two openings of one title and place; a row of another company.
MCTwins ==
  {World(<<{Job("o1", "eng", "u1", "b1"), Job("o2", "eng", "u2", "b2")}, {}>>,
         <<>>, {"o1", "o2"})}

MCEchoes ==
  {World(<<{Job("o1", "eng", "u1", "b1")}, {}>>,
         <<[Job("o2", "eng", None, None) EXCEPT !.company = "other"]>>, {"o1", "o2"})}

MCWorlds == {RoutedWorld, TemplateWorld, SharedWorld}

MCWithin == {<<"eng", "eng senior">>}

CallSymmetry == Permutations(Calls)
=============================================================================
