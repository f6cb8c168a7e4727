SPECIFICATION TSpec
CONSTANTS
  a = a
  k = k
  Signals <- Both
  OutPorts <- JustA
  Immutable <- JustK
  ErrorTyped <- JustK
  Compounds = {"comb", "unchecked", "for", "if", "match", "priority", "parallel", "reg", "gen", "module"}
  MaxDepth = 4
  MaxSize = 5
INVARIANTS
  TypeOK
  DefiniteOnEveryPath
  FlawsReported
  ExactLatchReports
  WalkAgrees
CHECK_DEADLOCK FALSE
