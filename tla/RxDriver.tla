------------------------------ MODULE RxDriver -------------------------------
(***************************************************************************)
(* The RX controller with a program that reads and writes sectors, and     *)
(* keeps what it knows of the drives up to date: at a volume-changed       *)
(* interrupt, and once for every drive after a restart, it issues status   *)
(* commands until no change is left to look at.  Doors open and close, and *)
(* the machine restarts, between any two of its steps.                     *)
(***************************************************************************)
EXTENDS RxDisk

CONSTANTS
  Wanted,     \* drives, tracks and sectors that the program asks for, right or
              \* wrong
  Rack,       \* the files the operator has for each drive
  Payload,    \* sectors that the program writes
  MaxWrites   \* bound: writes asked for

ASSUME WantedAssumption == Wanted \subseteq Drive \X Number \X Number
ASSUME RackAssumption == Rack \in [Exist -> SUBSET File]
ASSUME PayloadAssumption == Payload \subseteq Sector
ASSUME WritesAssumption == MaxWrites \in Nat

VARIABLES
  request,   \* the request under way: a read, a write or a status command
  moved,     \* bytes moved; a read moves them after its end was signalled
  received,  \* the program's buffer for a read
  ended,     \* interrupt A of the request was taken
  noticed,   \* interrupt B was taken, and no status command started since
  todo,      \* drives whose status has to be asked for
  known,     \* what the program believes of each drive
  writes     \* writes asked for

driverVars == <<request, moved, received, ended, noticed, todo, known, writes>>
allVars == <<vars, driverVars>>

Idle == [op |-> "none"]
State(d) == [ready |-> Ready(d), wprot |-> d \in wprot]
Unknown == [ready |-> FALSE, wprot |-> FALSE]

DriverTypeOK ==
  /\ TypeOK
  /\ request = Idle \/ request.op \in {"read", "write", "other", "stat"}
  /\ moved \in 0 .. Bytes /\ received \in Sector
  /\ {ended, noticed} \subseteq BOOLEAN
  /\ todo \subseteq Exist
  /\ known \in [Exist -> [ready : BOOLEAN, wprot : BOOLEAN]]
  /\ writes \in 0 .. MaxWrites

DriverInit ==
  /\ Init
  /\ request = Idle /\ moved = 0 /\ received = Zeros /\ ended = FALSE
  /\ noticed = FALSE /\ todo = Exist /\ known = [d \in Exist |-> Unknown]
  /\ writes = 0

Started == intA \/ ended

(* Registers are written, and the buffer pointer cleared for a write.      *)
AskSector(op, d, track, sector, data) ==
  /\ request = Idle /\ ~noticed /\ todo = {}
  /\ request' = [op |-> op, drive |-> d, track |-> track, sector |-> sector, data |-> data]
  /\ writes' = IF op = "write" THEN writes + 1 ELSE writes
  /\ writes' <= MaxWrites
  /\ command' = [fn |-> op, drive |-> d, track |-> track, sector |-> sector]
  /\ ptr' = IF op = "write" THEN 0 ELSE ptr
  /\ UNCHANGED <<status, secbuf, doors, intA, image>>
  /\ UNCHANGED <<moved, received, ended, noticed, todo, known>>

AskStatus(d) ==
  /\ request = Idle /\ (noticed \/ d \in todo)
  /\ request' = [op |-> "stat", drive |-> d]
  /\ WriteCommand([NoCommand EXCEPT !.drive = d])
  /\ UNCHANGED <<moved, received, ended, noticed, todo, known, writes>>

(* Commands that move no sector: recalibrate and the like.                 *)
AskOther(fn) ==
  /\ request = Idle /\ ~noticed /\ todo = {}
  /\ request' = [op |-> "other"]
  /\ WriteCommand([NoCommand EXCEPT !.fn = fn])
  /\ UNCHANGED <<moved, received, ended, noticed, todo, known, writes>>

Fill ==
  /\ request.op = "write" /\ ~Started /\ moved < Bytes
  /\ FillByte(request.data[moved])
  /\ moved' = moved + 1
  /\ UNCHANGED <<request, received, ended, noticed, todo, known, writes>>

Start ==
  /\ request # Idle /\ ~Started
  /\ request.op = "write" => moved = Bytes
  /\ StartCommand
  /\ noticed' = (noticed /\ request.op # "stat")
  /\ UNCHANGED <<request, moved, received, ended, todo, known, writes>>

(* The end of the command: the pointer is cleared to read the buffer.      *)
EnterA ==
  /\ intA /\ intA' = FALSE
  /\ ended' = TRUE
  /\ ptr' = IF request.op = "read" THEN 0 ELSE ptr
  /\ UNCHANGED <<regs, secbuf, doors, image>>
  /\ UNCHANGED <<request, moved, received, noticed, todo, known, writes>>

EnterB ==
  /\ TakeB
  /\ noticed' = TRUE
  /\ UNCHANGED <<request, moved, received, ended, todo, known, writes>>

Empty ==
  /\ request.op = "read" /\ ended /\ status.error = "none" /\ moved < Bytes
  /\ EmptyByte
  /\ received' = [received EXCEPT ![moved] = secbuf[ptr]]
  /\ moved' = moved + 1
  /\ UNCHANGED <<request, ended, noticed, todo, known, writes>>

(* Between requests the program leaves the command registers at zero.      *)
Done == request' = Idle /\ ended' = FALSE /\ moved' = 0 /\ received' = Zeros

FinishSector ==
  /\ request.op \in {"read", "write"} /\ ended
  /\ request.op = "read" /\ status.error = "none" => moved = Bytes
  /\ Done /\ WriteCommand(NoCommand)
  /\ UNCHANGED <<noticed, todo, known, writes>>

FinishOther ==
  /\ request.op = "other" /\ ended
  /\ Done /\ WriteCommand(NoCommand)
  /\ UNCHANGED <<noticed, todo, known, writes>>

FinishStatus ==
  /\ request.op = "stat" /\ ended
  /\ known' = [known EXCEPT ![request.drive] = [ready |-> status.ready, wprot |-> status.wprot]]
  /\ todo' = (todo \cup (status.changed \cap Exist)) \ {request.drive}
  /\ Done /\ WriteCommand(NoCommand)
  /\ UNCHANGED <<noticed, writes>>

(* The operator, through the menu, which only knows the drives there are.  *)
Operate ==
  /\ \E d \in Exist : OpenDoor(d) \/ \E f \in Rack[d] : CloseDoor(d, f)
  /\ UNCHANGED driverVars

Restart ==
  /\ Reset \/ ExitAndStart
  /\ Done
  /\ noticed' = FALSE /\ todo' = Exist /\ known' = [d \in Exist |-> Unknown]
  /\ UNCHANGED writes

Serve ==
  \/ \E d \in Exist : AskStatus(d)
  \/ Fill \/ Start \/ EnterA \/ Empty
  \/ FinishSector \/ FinishOther \/ FinishStatus

DriverNext ==
  \/ \E op \in {"read", "write"}, at \in Wanted, data \in Payload :
       AskSector(op, at[1], at[2], at[3], data)
  \/ \E fn \in {"init", "address", "version"} : AskOther(fn)
  \/ Serve
  \/ EnterB
  \/ Operate
  \/ Restart

DriverSpec == DriverInit /\ [][DriverNext]_allVars

-----------------------------------------------------------------------------
(* What is still to come for drive d: its change is remembered by the      *)
(* controller, or in a status that the program has not read, or on its     *)
(* list.                                                                   *)
Underway(d) ==
  \/ d \in vchanged \/ d \in todo
  \/ request.op = "stat" /\ Started /\ d \in status.changed \cup {request.drive}

(* What the program believes of a drive is true, or it is about to be told *)
(* better: no order of doors, status commands, interrupts and restarts     *)
(* leaves it with a diskette that has gone.  A remembered change has an    *)
(* interrupt, or a program that is going to ask.                           *)
KnownOrTold ==
  /\ DriverTypeOK
  /\ \A d \in Exist : known[d] = State(d) \/ Underway(d)
  /\ vchanged # {} => intB \/ noticed \/ todo # {}
  /\ intbEn => vchanged = {}

(* The controller with this program is a store of sectors on changeable    *)
(* diskettes: a sector is read as it was written last on that diskette, a  *)
(* write takes place as a whole, on a diskette that is in the drive and    *)
(* not protected, and where it was asked for; a failure has its reason,    *)
(* whatever came before, and delivers no data.                             *)
Media == INSTANCE MediaStore WITH
  Image <- Fits, Protected <- ReadOnly,
  content <- image,
  request <- IF request.op \in {"stat", "other"} THEN Idle ELSE request,
  outcome <- IF request.op \notin {"read", "write"} \/ ~Started THEN Idle
             ELSE IF request.op = "read" /\ status.error = "none"
             THEN [error |-> "none", data |-> IF moved = Bytes THEN received ELSE secbuf]
             ELSE [error |-> status.error]

ImplementsMedia == Media!MediaSpec
=============================================================================
