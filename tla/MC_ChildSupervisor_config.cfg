SPECIFICATION Spec
CONSTANTS
  Starters = {s1}
  Changers = {t1}
  NoOp = NoOp
  MaxProcs = 2
  MaxGen = 2
  Configs = {c1, c2}
SYMMETRY Symmetry
INVARIANTS ConfigCoherent
PROPERTY ConfigHeld
CHECK_DEADLOCK FALSE
