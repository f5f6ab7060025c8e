SPECIFICATION FairSpec
CONSTANTS
  Starters = {s1}
  Changers = {}
  NoOp = NoOp
  MaxProcs = 1
  MaxGen = 3
  Configs = {c1}
PROPERTIES StopEnds StartSettles
CHECK_DEADLOCK FALSE
