\* Two threads, lists of up to four pages, at most three captured.
CONSTANTS
  w1 = w1  w2 = w2
  Workers = {w1, w2}
  Boards <- MCSites
  Modes = {"detail", "list", "click", "interact", "search", "parallel"}
  PageLimit = 3
  MaxCards = 3
  Retries = 2
  MaxTerms = 2
  Faults = {"dead", "fail", "error", "blank", "wall", "start"}
SYMMETRY WorkerSymmetry
SPECIFICATION BrowseSpec
INVARIANTS WallWins CapturedInOrder GateIsSound
