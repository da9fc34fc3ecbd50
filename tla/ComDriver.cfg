CONSTANTS
  Char = {0, 1}
  DataDepth = 3
  IntDepth = 5
  Dtr = {FALSE}
  MaxTyped = 2
  MaxWrites = 2
SPECIFICATION DriverSpec
INVARIANTS Signalled
PROPERTIES ImplementsLine CharactersMove
