CONSTANTS
  Drive = {0, 1, 2}
  Exist = {0, 1}
  Closed = {0}
  File <- MCFile
  Fits <- MCFits
  ReadOnly <- MCReadOnly
  Tracks = 2
  Spt = 2
  Bytes = 2
  Byte = {0, 1}
  Number = {0, 1, 2, 3}
  Wanted <- MCWanted
  Rack <- MCRack
  Payload <- MCPayload
  MaxWrites = 1
SPECIFICATION DriverSpec
INVARIANT KnownOrTold
PROPERTY ImplementsMedia
