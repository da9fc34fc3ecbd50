CONSTANTS
  ModeBit = {1}
  RegValue = {0, 1}
  Words = 3
  Mmr3Data = {{}, {"KDS"}, {"SDS", "CSM"}}
SPECIFICATION Spec
INVARIANTS ModeSound
PROPERTY ImplementsBanks
