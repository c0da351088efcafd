CONSTANTS
  Heads = {h1, h2}
  Nodes = {n1, n2, n3, n4}
  NULL = NULL
SPECIFICATION Spec
INVARIANTS
  TypeOK
  LinksOK
  CountOK
  SweepOK
  SweepEmpties
  WalksAgree
PROPERTIES
  Refines
  SweepTerminates
