------------------------------ MODULE ComDriver ------------------------------
(***************************************************************************)
(* The communication port with an interrupt driven program: its interrupt  *)
(* routine asks the port what happened, serves it and ends the interrupt;  *)
(* it sends the next character after the transmitter has interrupted, and  *)
(* disables nothing that is in use.  Interrupts are off between the two    *)
(* writes that set a register of channel A.                                *)
(***************************************************************************)
EXTENDS ComPort, FiniteSets

ASSUME RoomAssumption == DataDepth > 2 /\ IntDepth > 4

VARIABLES
  isr,      \* where the interrupt routine is
  waiting,  \* a character was sent and the transmitter has not interrupted
  got,      \* the character the program read last
  left      \* the character the port accepted last

driverVars == <<isr, waiting, got, left>>
allVars == <<vars, driverVars>>

DriverTypeOK ==
  /\ TypeOK
  /\ isr \in {"idle", "entered", "rcv", "xmit", "none", "served"}
  /\ waiting \in BOOLEAN
  /\ got \in Char /\ left \in Char

DriverInit == Init /\ isr = "idle" /\ waiting = FALSE /\ got = 0 /\ left = 0

World ==
  /\ \/ \E c \in Char : Type(c)
     \/ Poll
  /\ UNCHANGED driverVars

CharacterLeaves ==
  /\ WriteDone
  /\ left' = IF mm THEN left ELSE wdata
  /\ UNCHANGED <<isr, waiting, got>>

EnterIsr ==
  /\ isr = "idle" /\ ptrA = 0
  /\ TakeRequest
  /\ isr' = "entered"
  /\ UNCHANGED <<waiting, got, left>>

(* Read register 2 of channel B: the interrupt at the head of the queue.   *)
AskPort ==
  /\ isr = "entered"
  /\ \/ ptrB = 0 /\ WriteB(2) /\ UNCHANGED isr
     \/ ptrB = 2 /\ ReadInterrupt /\ isr' = IF intq = <<>> THEN "none" ELSE Head(intq)
  /\ UNCHANGED <<waiting, got, left>>

ServeReceiver ==
  /\ isr = "rcv" /\ isr' = "served"
  /\ got' = IF dataq = <<>> THEN 0 ELSE Head(dataq)
  /\ ReadData
  /\ UNCHANGED <<waiting, left>>

ServeTransmitter ==
  /\ isr = "xmit" /\ isr' = "served"
  /\ waiting' = FALSE
  /\ UNCHANGED <<vars, got, left>>

LeaveIsr ==
  /\ isr \in {"served", "none"} /\ isr' = "idle"
  /\ EndOfInterrupt(0)
  /\ UNCHANGED <<waiting, got, left>>

InterruptRoutine == EnterIsr \/ AskPort \/ ServeReceiver \/ ServeTransmitter \/ LeaveIsr

SendCharacter(c) ==
  /\ ~waiting /\ ptrA = 0
  /\ tbmt /\ tie
  /\ mm => rxen
  /\ WriteData(c)
  /\ waiting' = TRUE
  /\ UNCHANGED <<isr, got, left>>

(* Interrupts are off from the selection of a register to its write.       *)
SelectRegister ==
  /\ isr = "idle"
  /\ \E p \in {1, 3, 5} : SelectA(p)
  /\ UNCHANGED driverVars

SetRegister ==
  /\ isr = "idle"
  /\ \E on \in BOOLEAN : (waiting => on) /\ WriteSelectedA(on)
  /\ UNCHANGED driverVars

Configure ==
  /\ isr = "idle"
  /\ \/ \E m \in Modem : ~waiting /\ WriteModemControl(m)
     \/ WriteBaud
     \/ ReadStatusA
  /\ UNCHANGED driverVars

Restart == Reset /\ isr' = "idle" /\ waiting' = FALSE /\ UNCHANGED <<got, left>>

DriverNext ==
  \/ World
  \/ CharacterLeaves
  \/ InterruptRoutine
  \/ \E c \in Char : SendCharacter(c)
  \/ SelectRegister
  \/ SetRegister
  \/ Configure
  \/ Restart

(* Events come up, the port does not refuse a character forever, and the   *)
(* program goes on: with its interrupt routine, and to where interrupts    *)
(* are on again, where one is taken sooner or later.                       *)
DriverSpec ==
  /\ DriverInit /\ [][DriverNext]_allVars
  /\ WF_allVars(CharacterLeaves)
  /\ WF_allVars(SetRegister) /\ SF_allVars(EnterIsr)
  /\ WF_allVars(AskPort \/ ServeReceiver \/ ServeTransmitter \/ LeaveIsr)

-----------------------------------------------------------------------------
Count(q, x) == Cardinality({i \in DOMAIN q : q[i] = x})
One(b) == IF b THEN 1 ELSE 0

(* The rings, whose filling nobody checks, stay this small.                *)
QueuesFit == Len(dataq) < DataDepth /\ Len(intq) < IntDepth

(* Characters and interrupts in the two queues belong together, and while  *)
(* the routine does not run the request is there exactly when there is an  *)
(* interrupt to serve: no wakeup is lost, however arrivals, completed      *)
(* writes and ends of interrupts interleave, and none is spurious.         *)
Signalled ==
  /\ DriverTypeOK
  /\ QueuesFit
  /\ isr = "idle" => (comInt <=> intq # <<>>)
  /\ isr # "idle" => intq # <<>> /\ (comInt => Len(intq) > 1)
  /\ Count(intq, "rcv") = Len(dataq) + One(isr = "served" /\ Head(intq) = "rcv")
  /\ waiting <=> writes > 0 \/ Count(intq, "xmit") > One(isr = "served" /\ Head(intq) = "xmit")
  /\ rxca <=> dataq # <<>>
  /\ intp => intq # <<>>

(* With this program the port is the serial line it should be.             *)
Channel == INSTANCE SerialLine WITH
  buffer <- dataq,
  sending <- IF writes > 0 THEN <<wdata>> ELSE <<>>

ImplementsLine == Channel!LineSpec

(* A character that was sent leaves and the program hears of it; the       *)
(* routine comes to read those that were received.                         *)
CharactersMove == (waiting ~> ~waiting) /\ (rxca ~> isr = "rcv" \/ ~rxca)
=============================================================================
