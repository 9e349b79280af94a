SPECIFICATION Spec
CONSTANTS
  X_DIM = 2
  Y_DIM = 2
  MAX_RATE = 2
  MAX_TOKEN = 2
  Packets = {pkt}
  None = None
  Flows <- Crossing
INVARIANTS
  TrafficTypeOK
  FlitsInPlace
  FlightBound
  BurstBound
  FlitsConserved
