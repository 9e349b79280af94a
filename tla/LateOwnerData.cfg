SPECIFICATION Spec
CONSTANTS
  c1 = c1
  c2 = c2
  c3 = c3
  l1 = l1
  l2 = l2
  Cores = {c1, c2}
  Directory = dir
  Lines = {l1, l2}
  Values = {v0, v1}
  ZeroValue = v0
  Garbage = garbage
  None = none
  Ways = 1
  DirWays = 2
  LlcWays = 2
  Workload <- AnyAccess
  TimelyForwards = TRUE
  DataBeforeRespOk = FALSE
  DefinedReads = TRUE
INVARIANTS
  MemoryValue
