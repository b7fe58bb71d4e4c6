SPECIFICATION Spec
CONSTANTS
  Vertex = {v1, v2}
  Edge = {e1}
  s1 = s1
  Sym = {s1}
  Name = {n1}
  Key = {k1}
  KeyLabel <- MCKeyLabel
  Value = {x}
  Content = {0}
  None = None
  Cap = 0
  ReportWarning = TRUE
  SelfEdges = TRUE
  ParallelEdges = FALSE
  PersistOnCommit = FALSE
  InMemory = TRUE
SYMMETRY MCSymmetry
INVARIANT AbortRestoresAlways
