SPECIFICATION Spec
CONSTANTS
  c1 = c1
  c2 = c2
  c3 = c3
  l1 = l1
  l2 = l2
  Cores = {c1, c2, c3}
  Directory = dir
  Lines = {l1, l2}
  Values = {v0}
  ZeroValue = v0
  Garbage = garbage
  None = none
  Ways = 1
  DirWays = 3
  LlcWays = 1
  Workload <- SharedAndRecalled
  TimelyForwards = TRUE
  DataBeforeRespOk = TRUE
  DefinedReads = TRUE
SYMMETRY SymmetricSharers
INVARIANTS
  SingleWriterMultipleReaders
  NoUnspecifiedEvent
  DirectoryCoversCopies
  SharerCount
  Inclusive
  BlockingDiscipline
  AckAccounting
  ResponsesFit
  ForwardsFit
  OrderedInv
