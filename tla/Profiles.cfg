\* Two sessions, one file with one import that finds one fact, three changes.
CONSTANTS
  import = import  degree = degree  skill = skill
  Sessions = {s1, s2}
  Assets = {file}
  Imports = {import}
  Evidence = {degree}
  FoundBy <- MCFoundBy
  MaxVersion = 3
SYMMETRY Symmetry
SPECIFICATION Spec
INVARIANTS ReadyHasObject NothingDangles
PROPERTY ConfirmsLatest
CHECK_DEADLOCK FALSE
