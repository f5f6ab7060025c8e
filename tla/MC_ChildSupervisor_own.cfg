SPECIFICATION Spec
CONSTANTS
  Starters = {s1, s2}
  Changers = {}
  NoOp = NoOp
  MaxProcs = 2
  MaxGen = 3
  Configs = {c1}
SYMMETRY Symmetry
INVARIANTS ChildrenOwned StopSuccessMeansReaped
CHECK_DEADLOCK FALSE
