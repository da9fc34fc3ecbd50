CONSTANTS
  IndexBit = {1, 2}
  Guest = {{1}}
  LastBn = 2
  Blocks22 = 8
  Blocks18 = 4
  IoPage18 = 3
  PdrFlags = {{}, {"NR"}, {"NR", "WE", "ED"}}
  PdrLength = {1}
  ParBase = {0, 3}
  Mmr0Data = {{}, {"MME"}, {"MME", "NR"}}
  Pc = {1, 2}
SPECIFICATION Spec
PROPERTY PageFieldNamesFault
