SPECIFICATION Spec
CONSTANTS
  Vertex = {v1, v2}
  Edge = {e1}
  s1 = s1
  Sym = {s1}
  Name = {n1, n2}
  Key = {k1}
  KeyLabel <- MCKeyLabel
  Value = {x}
  Content = {0}
  None = None
  Cap = 4
  ReportWarning = TRUE
  SelfEdges = TRUE
  ParallelEdges = FALSE
  PersistOnCommit = FALSE
  InMemory = TRUE
SYMMETRY MCSymmetry
INVARIANTS
  TypeOK
  GraphOK
  AbortRestores
