CONSTANTS
  Char = {0, 1}
  Mode = {0, 1}
  Dtr = {FALSE}
  MaxTyped = 2
  MaxWrites = 2
SPECIFICATION DriverSpec
INVARIANTS Signalled LineCurrent
PROPERTIES ImplementsLine CharactersMove
