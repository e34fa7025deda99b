--------------------------- MODULE MCPublicFetch ---------------------------
(* An instance of PublicFetch: a posting of the campus portal, whose two    *)
(* indexes link to postings of the portal and to another site, one of those *)
(* postings by itself, a list of a board, and two articles.                 *)
EXTENDS PublicFetch

CONSTANTS t1, t2, post, index1, index2, job1, job2, list, card1, card2, art1, art2,
          portal, board, postings, wechat

MCBatch == <<post, list, job1, art1>>

\* Two articles, for the run about their images.
MCArticles == <<art1, art2>>

Web(d, hosts, details, links, indexes) ==
  [domain |-> d, hosts |-> hosts, channel |-> "web", details |-> details, links |-> links,
   indexes |-> indexes, images |-> 0]

MCSite ==
  [p \in Pages |->
     CASE p = post -> Web(portal, {portal}, "campus", <<job1, job2>>, <<index1, index2>>)
       [] p = index1 -> Web(portal, {portal}, "links", <<card1, job2, job1>>, <<>>)
       [] p = index2 -> Web(portal, {portal}, "links", <<job1, card2, job1>>, <<>>)
       [] p \in {job1, job2} -> Web(portal, {portal}, "links", <<>>, <<>>)
       [] p = list -> Web(board, {postings}, "iguopin", <<card1, job1, card1>>, <<>>)
       [] p \in {card1, card2} -> Web(postings, {postings}, "links", <<>>, <<>>)
       [] OTHER -> [domain |-> wechat, hosts |-> {wechat}, channel |-> "wechat",
                    details |-> "links", links |-> <<>>, indexes |-> <<>>, images |-> 1]]
=============================================================================
