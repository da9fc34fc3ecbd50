----------------------------- MODULE UsartDriver -----------------------------
(***************************************************************************)
(* A 2661 controller with an interrupt driven program: it reads a          *)
(* character when the receiver interrupts, sends the next one after the    *)
(* transmitter has interrupted, and changes the operating mode or disables *)
(* a side of the controller only when nothing is under way there.          *)
(***************************************************************************)
EXTENDS Usart2661

VARIABLES
  inIsr,    \* the receiver's interrupt is being handled
  waiting,  \* a character was sent and the transmitter has not interrupted
  got,      \* the character the program read last
  left      \* the character the port accepted last

driverVars == <<inIsr, waiting, got, left>>
allVars == <<vars, driverVars>>

DriverTypeOK ==
  /\ TypeOK
  /\ inIsr \in BOOLEAN /\ waiting \in BOOLEAN
  /\ got \in Char /\ left \in Char

DriverInit == Init /\ inIsr = FALSE /\ waiting = FALSE /\ got = 0 /\ left = 0

World ==
  /\ \/ \E c \in Char : Type(c)
     \/ Poll
  /\ UNCHANGED driverVars

CharacterLeaves ==
  /\ WriteDone
  /\ left' = IF cmd.om = "normal" THEN wdata ELSE left
  /\ UNCHANGED <<inIsr, waiting, got>>

EnterReceiverIsr ==
  /\ TakeReceiverInterrupt
  /\ inIsr' = TRUE
  /\ UNCHANGED <<waiting, got, left>>

ReadCharacter ==
  /\ inIsr /\ inIsr' = FALSE
  /\ ReadData
  /\ got' = data
  /\ UNCHANGED <<waiting, left>>

TransmitterIsr ==
  /\ TakeTransmitterInterrupt
  /\ waiting' = FALSE
  /\ UNCHANGED <<inIsr, got, left>>

(* In a loopback test the previous character has been read back.           *)
SendCharacter(c) ==
  /\ ~waiting /\ tr
  /\ cmd.om = "loopback" => ~rd
  /\ WriteData(c)
  /\ waiting' = TRUE
  /\ UNCHANGED <<inIsr, got, left>>

Configure ==
  /\ \/ \E m \in Mode : WriteMode(m)
     \/ ReadModeOrCommand
     \/ \E c \in Command :
          /\ c.om \in {"normal", "loopback"}
          /\ rd => c.rxen
          /\ waiting => c.txen
          /\ c.om # cmd.om => ~rd /\ ~waiting
          /\ WriteCommand(c)
  /\ UNCHANGED driverVars

Restart == Reset /\ inIsr' = FALSE /\ waiting' = FALSE /\ UNCHANGED <<got, left>>

DriverNext ==
  \/ World
  \/ CharacterLeaves
  \/ EnterReceiverIsr
  \/ ReadCharacter
  \/ TransmitterIsr
  \/ \E c \in Char : SendCharacter(c)
  \/ Configure
  \/ Restart

(* Events come up, the port does not refuse a character forever, and the   *)
(* program serves its interrupts.                                          *)
DriverSpec ==
  /\ DriverInit /\ [][DriverNext]_allVars
  /\ WF_allVars(CharacterLeaves)
  /\ WF_allVars(EnterReceiverIsr) /\ WF_allVars(ReadCharacter)
  /\ WF_allVars(TransmitterIsr)

-----------------------------------------------------------------------------
(* No wakeup is lost and none is spurious: a character is there exactly    *)
(* when the receiver's interrupt is requested or being handled, and a      *)
(* program that waits for the transmitter has its event or its interrupt   *)
(* coming.                                                                 *)
Signalled ==
  /\ DriverTypeOK
  /\ rd <=> (rcvInt \/ inIsr)
  /\ ~(rcvInt /\ inIsr)
  /\ waiting <=> (writes > 0 \/ xmitInt)
  /\ writes = 0 \/ ~xmitInt

(* The controller with this program is the serial line it should be: a     *)
(* character is neither lost nor doubled nor taken out of order, though    *)
(* the command register, which makes the transmitter look ready, is        *)
(* written while characters are under way.                                 *)
Line == INSTANCE SerialLine WITH
  buffer <- IF rd THEN <<data>> ELSE <<>>,
  sending <- IF writes > 0 THEN <<wdata>> ELSE <<>>

ImplementsLine == Line!LineSpec

(* A character that was sent leaves, and one that was received is read.    *)
CharactersMove == (waiting ~> ~waiting) /\ (rd ~> ~rd)
=============================================================================
