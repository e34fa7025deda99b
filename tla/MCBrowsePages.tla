--------------------------- MODULE MCBrowsePages ---------------------------
(* Instances of BrowsePages: sites of one to three pages.                  *)
EXTENDS BrowsePages, TLC

CONSTANTS w1, w2

Site(pager, size, stays, declared, counted, cards, json) ==
  [pager |-> pager, size |-> size, stays |-> stays, declared |-> declared,
   counted |-> counted, cards |-> cards, json |-> json, shell |-> "full"]

\* Every pager with and without what a site may announce, and pages of one.
MCSites ==
  {Site(pager, 3, stays, FALSE, counted, cards, FALSE) :
     pager \in {"path", "replace", "append"}, stays, counted, cards \in BOOLEAN}
    \cup {Site(pager, 3, stays, FALSE, FALSE, cards, TRUE) :
            pager \in {"path", "append"}, stays, cards \in BOOLEAN}
    \cup {Site("keyed", n, stays, declared, FALSE, TRUE, FALSE) :
            n \in 2..4, stays, declared \in BOOLEAN}
    \cup {[Site("none", 1, FALSE, FALSE, FALSE, cards, json) EXCEPT !.shell = shell] :
            cards, json \in BOOLEAN, shell \in {"full", "thin", "empty"}}

\* Lists without a page number in the URL, for the run about the fallback.
MCLists ==
  {Site(pager, 3, FALSE, FALSE, FALSE, FALSE, FALSE) :
     pager \in {"path", "replace", "append"}}

WorkerSymmetry == Permutations(Workers)
=============================================================================
