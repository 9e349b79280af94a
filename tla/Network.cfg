SPECIFICATION Spec
CONSTANTS
  X_DIM = 2
  Y_DIM = 2
  MAX_RATE = 2
  MAX_TOKEN = 1
  Packets <- Copy
  None = None
  Ports = {0, 3, 4}
  MaxCores = 4
  NoMessage = NoMessage
  SendDepth = 1
  QueueDepth = 2
  Workload <- Responses
INVARIANTS
  TypeOK
PROPERTIES
  ImplementsDelivery
  MulticastEnds
