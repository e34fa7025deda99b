\* Two threads, four URLs of four domains.
CONSTANTS
  t1 = t1  t2 = t2
  post = post  index1 = index1  index2 = index2  job1 = job1  job2 = job2  list = list  card1 = card1  card2 = card2  art1 = art1  art2 = art2
  portal = portal  board = board  postings = postings  wechat = wechat
  Threads = {t1, t2}
  Pages = {post, index1, index2, job1, job2, list, card1, card2, art1, art2}
  Domains = {portal, board, postings, wechat}
  Batch <- MCBatch
  Site <- MCSite
  MaxExpansion = 2
  MaxCampus = 2
  CanRender = TRUE
  NoPage = NoPage
  NoThread = NoThread
SPECIFICATION Spec
INVARIANTS NothingHidden FailuresAreExplained
PROPERTY BatchIsAnswered
