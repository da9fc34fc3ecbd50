CONSTANTS
  Cyls = 2
  Heads = 2
  Secs = 2
  Bytes = 4
  Byte <- MCByte
  Register <- MCRegister
  MaxEvents = 2
  Payload <- MCPayload
  MaxChanges = 2
SPECIFICATION DriverSpec
INVARIANTS Signalled
PROPERTIES ImplementsStore OperationEnds
