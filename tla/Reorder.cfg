SPECIFICATION FairSpec
CONSTANTS
  c1 = c1
  c2 = c2
  c3 = c3
  l1 = l1
  l2 = l2
  Cores = {c1, c2, c3}
  Directory = dir
  Lines = {l1}
  Values = {v0}
  ZeroValue = v0
  Garbage = garbage
  None = none
  Ways = 1
  DirWays = 3
  LlcWays = 1
  Workload <- AnyAccess
  TimelyForwards = TRUE
  DataBeforeRespOk = FALSE
  DefinedReads = TRUE
INVARIANTS
  SingleWriterMultipleReaders
  NoUnspecifiedEvent
  NoForwardWhileCollecting
  CoherenceInv
PROPERTIES
  RequestServed
