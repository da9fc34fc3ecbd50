CONSTANTS
  IndexBit = {1}
  Guest = {{1}}
  CacheBit = {}
  LastBn = 1
  Blocks22 = 4
  Blocks18 = 2
  IoPage18 = 1
  PdrFlags = {{"NR"}, {"NR", "WE", "ED"}}
  PdrLength = {0, 1}
  ParBase = {0, 3}
  Mmr0Data = {{}, {"MME"}}
  Pc = {0, 1}
SPECIFICATION CachedSpec
INVARIANTS CachesCoherent
PROPERTIES UncachedSpec FirstFaultKept
