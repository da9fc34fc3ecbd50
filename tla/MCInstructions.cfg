CONSTANTS
  ByteBits = 4
  FullShiftKeeps = TRUE
  StackLimit = 96
  Programs <- MCPrograms
  ExpBits = 5
  SingleBits = 4
  DoubleBits = 7
  ImmediateBits = 2
  IntegerBits = 3
  Floats <- MCFloats
SPECIFICATION MCSpec
INVARIANTS RestartExact BranchesDecide ArithmeticExact FloatExact
CHECK_DEADLOCK FALSE
