CONSTANTS
  Key = {k1, k2, k3}
  Asked = {k1}
  Value = {0, 1, 2}
  Moved = Moved
  Nullopt = Nullopt
  Capacity = 3
  CleanSize = 1
  Ttl = 1
  MaxTime = 4
  Call = {c1, c2, c3}
  MaxFetch = 1
  None = None
  Nil = 0
  Word = 16
SPECIFICATION MCSpec
SYMMETRY Symmetry
INVARIANTS
  ListsAgree
  TreesKeepTheirNodes
  AlgorithmsAgree
  ArithmeticAgrees
PROPERTIES
  ImplementsAgingCache
  AnswersAreRecent
CHECK_DEADLOCK FALSE
