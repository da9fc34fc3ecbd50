CONSTANTS
  NCtl = 1
  NLine = 1
  Vector = {0, 64}
  Ipl = {0, 7}
  Quantum = 2
SPECIFICATION CpuSpec
INVARIANTS CpuSound LatencyBounded
PROPERTIES InterruptServed ControllerSpec
