CONSTANTS
  Depth = 8
  XDepth = 3
  Devices <- DeskDevices
  La50Device = "null"
  PortConfig <- AtWindow
  FileConfig <- Names
  DirConfig <- Dirs
  Closed = {0}
  Tree <- SmallTree
  Fits = {"work"}
  Window = 13
  Repeats = FALSE
  HostKey = {"CTRL", "SHIFT", "ALLUPS", "COMMA", "PRINT", "HOLD", "RETURN"}
  LineKey = {}
  Command = {"LCK", "UNLCK", "PWRUP"}
  Base = 2
  Freq <- Rates
  AnyTime = 99
  SecondsShown = 2
  Throttle = TRUE
  MaxTime = 3
  Csr1 <- Controls
  Alarm = {99}
  NLines = 2
  NRows = 2
  Box = {0}
  Colour = {}
  Clutmodes = {0}
  NPlanes = 1
  WordBits = 2
  LineWords = 1
  Commands <- Drawings
  Patterns = {{0}}
  Data = {{0}}
  Pictures = {}
  CsrValues <- DrawingCsr
  MaxDrawing = 2
  FifoDepth = 6
  MaxCols = 2
  SixRows = 1
  ColRep <- Columns
  RowRep <- RowTurns
  MaxPos = 1
  Dots <- Sixels
  Burst = 2
  MaxRefused = 3
  PadDepth = 11
  ReportLen = 3
  Place = {"a", "b"}
  HostLine = {"tty0", "tty1"}
  Configured = "tty0"
  RSize = 3
  WDepth = 0
  Countable = {"tty0"}
  HostDepth = 2
  Speed = {"50", "2000"}
  Unsupported = {"2000"}
  Slowest = "50"
  MaxCome <- Coming
  Address <- Tried
  Value <- Words
  CsrInit <- Csr256K
  Present <- Modules
SPECIFICATION Spec
INVARIANTS
  KeyboardRight
  TicksFollowTime
  ScreenShowsMemory
  DoneIsTold
  PrintsInOrder
  ReportsFollowPen
  LinesKept
  BatteryKept
PROPERTIES
  MenuKept
  CalendarSteady
