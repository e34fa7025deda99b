---------------------------- MODULE MCSiteCrawl -----------------------------
(* Instances of SiteCrawl.                                                 *)
EXTENDS SiteCrawl, TLC

CONSTANTS u1, u2

UrlSymmetry == Permutations(Urls)
=============================================================================
