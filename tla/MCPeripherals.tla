---------------------------- MODULE MCPeripherals ----------------------------
(***************************************************************************)
(* The peripherals around the machine, one at a time: they share nothing,  *)
(* so that the first state chooses one and the others rest.  The keyboard  *)
(* and the menu are tried at the window of the host and at a terminal, and *)
(* the keyboard with all its commands; the video board with drawing, and   *)
(* with colours and the menu.                                              *)
(***************************************************************************)
EXTENDS Desk, Clock, Video, La50, Digipad, HostSerial, Bus, TLC

(* Characters the printer's device refuses between two resets: enough that *)
(* the ring overruns with any line of graphics, and with text alone.       *)
CONSTANT MaxRefused

VARIABLE unit

units == <<deskVars, clockVars, videoVars, la50Vars, padVars, serialVars, busVars>>
allVars == <<unit, units>>

-----------------------------------------------------------------------------
(* The desk.  The root has a directory and images; at the terminal it is   *)
(* longer than the menu, and the second drive's directory is gone.         *)
DeskDevices == <<"serial0", "lk201", "la50", "null">>
AtWindow == [com |-> "serial0", ptr |-> "null", kb |-> "lk201"]
AtTerminal == [com |-> "lk201", ptr |-> "null", kb |-> "serial0"]
Names == 0 :> "work" @@ 1 :> ""
Dirs == 0 :> <<".">> @@ 1 :> <<".">>
DirsGone == 0 :> <<".">> @@ 1 :> <<"gone">>
File(n) == [name |-> n, isDir |-> FALSE]
Folder(n) == [name |-> n, isDir |-> TRUE]
SmallTree ==
  <<".">> :> <<Folder("."), Folder("sub"), File("work")>> @@
  <<".", "sub">> :> <<Folder(".."), File("short")>>
LongTree ==
  <<".">> :> <<File("short"), Folder("sub")>> \o [i \in 1 .. 10 |-> Folder("zoo")]
             \o <<File("work"), Folder("zoo")>> @@
  <<".", "sub">> :> <<Folder("..")>>

Terminal == INSTANCE Desk WITH
  XDepth <- 2, La50Device <- "la50", PortConfig <- AtTerminal, DirConfig <- DirsGone,
  Tree <- LongTree, Repeats <- TRUE, HostKey <- {},
  LineKey <- {"CTRL", "ALLUPS", "HOLD", "UP", "DOWN", "RETURN", "REPEAT"}, Command <- {}

(* The keyboard with all its commands, without the menu.                   *)
Keyboard == INSTANCE Desk WITH
  XDepth <- 2, HostKey <- {"CTRL", "PRINT", "PERIOD", "ALLUPS"},
  Command <- {"LCK", "UNLCK", "ID", "DECTOUCH", "PWRUP", "CLICK_D", "CLICK_E", "AUTO_D", "AUTO_E",
              "BELL_D", "BELL_E", "end"}

(* The clock: a fast rate and a slow one, and what the program writes.     *)
Rates == 0 :> 3 @@ 1 :> 2
Controls == {{}, {"P", "U"}, {"A", "SET"}}

(* The video board: drawing, and everything else.                          *)
Command1(oc1, oc0, op, x, y, n) ==
  [oc1 |-> oc1, oc0 |-> oc0, op |-> [p \in Plane |-> op], x |-> x, y |-> y, cnt |-> n]
Drawings ==
  {Command1(FALSE, FALSE, "XOR", 1, 0, 2), Command1(FALSE, TRUE, "NMOVE", 0, 0, 2),
   Command1(TRUE, FALSE, "S1", 0, 0, 2), Command1(TRUE, TRUE, "COM", 0, 0, 2),
   Command1(FALSE, FALSE, "NOP", 0, 0, 0)}
DrawingCsr == {<<TRUE, FALSE>>, <<FALSE, FALSE>>}

Coloured == INSTANCE Video WITH
  Colour <- {"red"}, Clutmodes <- {0, 1}, Commands <- {}, MaxDrawing <- 0,
  Patterns <- {}, Data <- {{}}, Pictures <- {"a"}, CsrValues <- {<<FALSE, TRUE>>, <<FALSE, FALSE>>}

(* The printer's sixels: one dot and none.                                 *)
Columns == <<1>>
RowTurns == <<1, 2, 4>>
Sixels == [P |-> {0}, q |-> {}]

(* A serial line that the host can count and one it cannot.                *)
Coming == "tty0" :> 4 @@ "tty1" :> 2

(* Addresses at the ends of the battery-backed memory, around them, and of *)
(* each kind.                                                              *)
Tried ==
  {\o17773032, \o17773033, \o17773034, \o17773035, \o17773176, \o17773177, \o17773200, \o17773600,
   \o17773700, \o17773701, \o17773704, \o17773705, \o17775000}
Words == {{0, 8}, {7, 15}, {4}}
Csr256K == {0, 2, 4}
Modules == {0, 1, 2, 3}

-----------------------------------------------------------------------------
Init ==
  /\ unit \in {"window", "terminal", "keyboard", "clock", "drawing", "colours", "printer", "tablet",
               "serial", "bus"}
  /\ IF unit = "terminal" THEN Terminal!DeskInit ELSE DeskInit
  /\ IF unit = "colours" THEN Coloured!VideoInit ELSE VideoInit
  /\ ClockInit /\ La50Init /\ PadInit /\ pen = "a"
  /\ SerialInit /\ (unit # "serial" => sfd = "closed")
  /\ BusInit /\ (unit # "bus" => batFile = <<>>)

WindowStep ==
  /\ unit = "window" /\ DeskNext
  /\ UNCHANGED <<unit, clockVars, videoVars, la50Vars, padVars, serialVars, busVars>>
TerminalStep ==
  /\ unit = "terminal" /\ Terminal!DeskNext
  /\ UNCHANGED <<unit, clockVars, videoVars, la50Vars, padVars, serialVars, busVars>>
KeyboardStep ==
  /\ unit = "keyboard" /\ Keyboard!DeskNext
  /\ UNCHANGED <<unit, clockVars, videoVars, la50Vars, padVars, serialVars, busVars>>
ClockStep ==
  /\ unit = "clock" /\ ClockNext
  /\ UNCHANGED <<unit, deskVars, videoVars, la50Vars, padVars, serialVars, busVars>>
DrawingStep ==
  /\ unit = "drawing" /\ VideoNext
  /\ UNCHANGED <<unit, deskVars, clockVars, la50Vars, padVars, serialVars, busVars>>
ColoursStep ==
  /\ unit = "colours" /\ Coloured!VideoNext
  /\ UNCHANGED <<unit, deskVars, clockVars, la50Vars, padVars, serialVars, busVars>>
PrinterStep ==
  /\ unit = "printer" /\ La50Next /\ refused' <= MaxRefused
  /\ UNCHANGED <<unit, deskVars, clockVars, videoVars, padVars, serialVars, busVars>>
TabletStep ==
  /\ unit = "tablet" /\ PadNext
  /\ UNCHANGED <<unit, deskVars, clockVars, videoVars, la50Vars, serialVars, busVars>>

SerialStep ==
  /\ unit = "serial" /\ SerialNext
  /\ UNCHANGED <<unit, deskVars, clockVars, videoVars, la50Vars, padVars, busVars>>
BusStep ==
  /\ unit = "bus" /\ BusNext
  /\ UNCHANGED <<unit, deskVars, clockVars, videoVars, la50Vars, padVars, serialVars>>

Next ==
  \/ WindowStep \/ TerminalStep \/ KeyboardStep \/ ClockStep \/ DrawingStep \/ ColoursStep
  \/ PrinterStep \/ TabletStep \/ SerialStep \/ BusStep

Spec == Init /\ [][Next]_allVars

-----------------------------------------------------------------------------
(* At both desks a device is at one port only and the menu stands on an    *)
(* item that counts and is seen (PortsExclusive of Menu), and the file of  *)
(* a drive changes with its door open only (RespectsDoors of Desk).        *)
OnePortEach == IF unit = "terminal" THEN Terminal!PortsExclusive ELSE PortsExclusive
DoorsRespected == IF unit = "terminal" THEN Terminal!RespectsDoors ELSE RespectsDoors
MenuKept == []OnePortEach /\ [][DoorsRespected]_deskVars

=============================================================================
