------------------------------ MODULE RdDriver -------------------------------
(***************************************************************************)
(* The RD controller with an interrupt driven program: it moves two bytes  *)
(* at each interrupt B, takes interrupt A for the end of the operation,    *)
(* and writes the address and the command only when none is under way.     *)
(***************************************************************************)
EXTENDS RdDisk

CONSTANTS
  Payload,    \* sectors that the program writes
  MaxChanges  \* bound: writes and formats

ASSUME PayloadAssumption == Payload \subseteq Sector
ASSUME ChangesAssumption == MaxChanges \in Nat

VARIABLES
  request,   \* what the program asked for
  moved,     \* words moved
  received,  \* the program's buffer for a read
  isr,       \* the interrupt that is being handled
  answer,    \* what the program was told last
  changes    \* writes and formats asked for

driverVars == <<request, moved, received, isr, answer, changes>>
allVars == <<vars, driverVars>>

Idle == [op |-> "none"]
Request == [op : Cmd, at : [cyl : Register, head : Register, sec : Register], data : Payload]

DriverTypeOK ==
  /\ TypeOK
  /\ request \in Request \cup {Idle}
  /\ moved \in 0 .. Bytes \div 2
  /\ received \in Sector
  /\ isr \in {"none", "A", "B"}
  /\ answer \in [error : BOOLEAN, data : Sector]
  /\ changes \in 0 .. MaxChanges

DriverInit ==
  /\ Init
  /\ request = Idle /\ moved = 0 /\ received = Zeros /\ isr = "none"
  /\ answer = [error |-> FALSE, data |-> Zeros]
  /\ changes = 0

SetAddress ==
  /\ request = Idle
  /\ \E v \in Register : WriteCyl(v) \/ WriteHead(v) \/ WriteSec(v)
  /\ UNCHANGED driverVars

Ask(op, d) ==
  /\ request = Idle
  /\ request' = [op |-> op, at |-> [cyl |-> cyl, head |-> head, sec |-> sec], data |-> d]
  /\ changes' = IF op \in {"write", "format"} THEN changes + 1 ELSE changes
  /\ changes' <= MaxChanges
  /\ WriteCommand(op)
  /\ UNCHANGED <<moved, received, isr, answer>>

DataIsReady == RdEvent /\ UNCHANGED driverVars

EnterB == TakeB /\ isr' = "B" /\ UNCHANGED <<request, moved, received, answer, changes>>
EnterA == TakeA /\ isr' = "A" /\ UNCHANGED <<request, moved, received, answer, changes>>

MoveWord ==
  /\ isr = "B" /\ isr' = "none"
  /\ IF request.op = "read"
     THEN /\ ReadData
          /\ received' = [received EXCEPT ![2 * moved] = DataWord[1],
                                          ![2 * moved + 1] = DataWord[2]]
     ELSE /\ WriteData(request.data[2 * moved], request.data[2 * moved + 1])
          /\ UNCHANGED received
  /\ moved' = moved + 1
  /\ UNCHANGED <<request, answer, changes>>

Finish ==
  /\ isr = "A" /\ isr' = "none"
  /\ ReadS2c
  /\ answer' = [error |-> error,
                data |-> IF request.op = "read" /\ ~error THEN received ELSE answer.data]
  /\ request' = Idle /\ moved' = 0 /\ received' = Zeros
  /\ UNCHANGED changes

Restart ==
  /\ Reset
  /\ request' = Idle /\ moved' = 0 /\ received' = Zeros /\ isr' = "none"
  /\ UNCHANGED <<answer, changes>>

DriverNext ==
  \/ SetAddress
  \/ \E op \in Cmd, d \in Payload : Ask(op, d)
  \/ DataIsReady
  \/ EnterB \/ EnterA
  \/ MoveWord
  \/ Finish
  \/ Restart

(* Events come up, and the program serves its interrupts.                  *)
DriverSpec ==
  /\ DriverInit /\ [][DriverNext]_allVars
  /\ WF_allVars(DataIsReady)
  /\ WF_allVars(EnterA) /\ WF_allVars(EnterB)
  /\ WF_allVars(MoveWord) /\ WF_allVars(Finish)

-----------------------------------------------------------------------------
(* An operation always has exactly one thing coming: its event, one of the *)
(* two interrupts, or a handler that runs; an idle program has none.  The  *)
(* two copies of the data request agree and are set when interrupt B is,   *)
(* and the end is shown when interrupt A says so.                          *)
Coming ==
  <<events, IF intA THEN 1 ELSE 0, IF intB THEN 1 ELSE 0, IF isr = "none" THEN 0 ELSE 1>>

Signalled ==
  /\ DriverTypeOK
  /\ Coming[1] + Coming[2] + Coming[3] + Coming[4] = IF request = Idle THEN 0 ELSE 1
  /\ drq = datareq
  /\ drq <=> (intB \/ isr = "B")
  /\ request # Idle => (opended <=> (intA \/ isr = "A"))

(* The controller with this program is a store of sectors: a sector has    *)
(* one place in the file, a sector is read as it was written last, word by *)
(* word and in order, a write or a format takes place as a whole and where *)
(* it was asked for, or not at all, and an address that is not on the disk *)
(* is refused.                                                             *)
Store == INSTANCE SectorStore WITH
  store <- [a \in [cyl : 0 .. Cyls - 1, head : 0 .. Heads - 1, sec : 0 .. Secs - 1] |->
              disk[Offset(a.cyl, a.head, a.sec)]],
  performed <- request # Idle /\ opended

ImplementsStore == Store!StoreSpec

(* An operation ends, with an error or without.                            *)
OperationEnds == (request # Idle) ~> (request = Idle)
=============================================================================
