SPECIFICATION Spec
CONSTANTS
  X_DIM = 2
  Y_DIM = 2
  MAX_RATE = 4
  MAX_TOKEN = 4
  Packets = {pkt}
  None = None
  Flows <- Crossing
INVARIANTS
  WithinLatency
