\* Two pages, two calls at a time, three per page, of at most two candidates.
CONSTANTS
  c1 = c1  c2 = c2
  Pages = {1, 2}
  Calls = {c1, c2}
  MaxCalls = 3
  BatchMax = 2
  Worlds <- MCWorlds
  Openings = {"o1", "o2", "o3"}
  Companies = {"acme", "other"}
  Titles = {"eng", "eng senior", "ops", "hr"}
  Places = {"here"}
  Urls = {"u1", "u2"}
  Bodies = {"b1", "b2", "b3"}
  Within <- MCWithin
  None = "none"
SYMMETRY CallSymmetry
SPECIFICATION Spec
CHECK_DEADLOCK FALSE
INVARIANTS AnsweredIsKept RoutesStayApart GateIsSound
