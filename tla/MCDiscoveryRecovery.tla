------------------------ MODULE MCDiscoveryRecovery ------------------------
(* An instance of DiscoveryRecovery: a supplied page, a seed, and a page     *)
(* that searches and sheets return, which is on the domain of the supplied.  *)
EXTENDS DiscoveryRecovery

CONSTANTS given, seed, hit, board, portal

MCDomainOf == [u \in Urls |-> IF u = seed THEN portal ELSE board]
MCHints == <<"hint", "goal", "goal details">>

\* A goal as long as a query: what is added to it is cut off.
MCLongHints == <<"goal", "goal">>
=============================================================================
