SPECIFICATION Spec
CONSTANTS
  Vertex = {v1, v2}
  Edge = {e1}
  s1 = s1
  Sym = {}
  Name = {n1}
  Key = {}
  KeyLabel <- MCKeyLabel
  Value = {}
  Content = {0, 1}
  None = None
  Cap = 0
  ReportWarning = FALSE
  SelfEdges = TRUE
  ParallelEdges = TRUE
  PersistOnCommit = TRUE
  InMemory = FALSE
SYMMETRY MCSymmetry
INVARIANT RebornEdgeImage
