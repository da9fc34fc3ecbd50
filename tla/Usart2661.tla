------------------------------ MODULE Usart2661 ------------------------------
(***************************************************************************)
(* The 2661 serial controllers of the keyboard and of the printer          *)
(* (src/src/pro_2661kb.c and src/src/pro_2661ptr.c, which differ in names  *)
(* only), with the events and interrupts they cause.  The guest may do     *)
(* anything; UsartDriver is a guest that follows the protocol.             *)
(***************************************************************************)
EXTENDS Naturals, Sequences

CONSTANTS
  Char,       \* characters; 0 is what a reset leaves
  Mode,       \* values of a mode register
  Dtr,        \* values of the DTR bit a guest writes
  MaxTyped,   \* bound: characters on their way from the line
  MaxWrites   \* bound: write events in the event queue

Om == {"normal", "echo", "loopback", "remote"}
Command == [om : Om, rxen : BOOLEAN, txen : BOOLEAN, dtr : Dtr]
Off == [om |-> "normal", rxen |-> FALSE, txen |-> FALSE, dtr |-> FALSE]

ASSUME CharAssumption == 0 \in Char /\ 0 \in Mode
ASSUME DtrAssumption == Dtr \subseteq BOOLEAN
ASSUME BoundAssumption == MaxTyped \in Nat /\ MaxWrites \in Nat

VARIABLES
  data, wdata,      \* received character, character to send
  rd, tr,           \* receiver done, transmitter ready (stat)
  mr1, mr2, ptr,    \* mode registers, and the one that is accessed next
  cmd,              \* command register
  writes,           \* PRO_EVENT_KB events in the event queue
  rcvInt, xmitInt,  \* interrupt requests in the controller
  line,             \* characters the port will deliver
  params            \* line parameters the port was given last

registers == <<mr1, mr2, ptr, cmd, params>>
vars == <<data, wdata, rd, tr, registers, writes, rcvInt, xmitInt, line>>

TypeOK ==
  /\ data \in Char /\ wdata \in Char
  /\ rd \in BOOLEAN /\ tr \in BOOLEAN
  /\ mr1 \in Mode /\ mr2 \in Mode /\ ptr \in {0, 1}
  /\ cmd \in Command \cup {Off}
  /\ writes \in 0 .. MaxWrites
  /\ rcvInt \in BOOLEAN /\ xmitInt \in BOOLEAN
  /\ line \in Seq(Char) /\ Len(line) <= MaxTyped
  /\ params \in [mr1 : Mode, mr2 : Mode, dtr : BOOLEAN]

(* After the first reset.                                                  *)
Init ==
  /\ data = 0 /\ wdata = 0
  /\ rd = FALSE /\ tr = TRUE
  /\ mr1 = 0 /\ mr2 = 0 /\ ptr = 0
  /\ cmd = Off
  /\ writes = 0
  /\ rcvInt = FALSE /\ xmitInt = FALSE
  /\ line = <<>>
  /\ params = [mr1 |-> 0, mr2 |-> 0, dtr |-> FALSE]

-----------------------------------------------------------------------------
(* The world outside: a character is typed.                                *)
Type(c) ==
  /\ Len(line) < MaxTyped
  /\ line' = Append(line, c)
  /\ UNCHANGED <<data, wdata, rd, tr, registers, writes, rcvInt, xmitInt>>

(* pro_2661kb_poll_eq, when there is something to do.                      *)
Poll ==
  /\ cmd.om = "normal" /\ cmd.rxen /\ ~rd
  /\ line # <<>>
  /\ data' = Head(line) /\ line' = Tail(line)
  /\ rd' = TRUE /\ rcvInt' = TRUE
  /\ UNCHANGED <<wdata, tr, registers, writes, xmitInt>>

(* Slips: a loopback does not copy the character; a write completes in     *)
(* normal mode only.                                                       *)
WriteDone_NoCopy ==
  /\ writes > 0
  /\ writes' = writes - 1
  /\ tr' = TRUE /\ xmitInt' = TRUE
  /\ IF cmd.om = "loopback" THEN rd' = TRUE /\ rcvInt' = TRUE ELSE UNCHANGED <<rd, rcvInt>>
  /\ UNCHANGED <<data, wdata, registers, line>>
WriteDone_NormalOnly ==
  /\ writes > 0 /\ cmd.om = "normal"
  /\ writes' = writes - 1
  /\ tr' = TRUE /\ xmitInt' = TRUE
  /\ UNCHANGED <<data, rd, rcvInt, wdata, registers, line>>

(* pro_2661kb_eq, when it completes the write.  When the port refuses the  *)
(* character the event is scheduled again and nothing changes.             *)
WriteDone ==
  /\ writes > 0
  /\ writes' = writes - 1
  /\ tr' = TRUE /\ xmitInt' = TRUE
  /\ IF cmd.om = "loopback"
     THEN data' = wdata /\ rd' = TRUE /\ rcvInt' = TRUE
     ELSE UNCHANGED <<data, rd, rcvInt>>
  /\ UNCHANGED <<wdata, registers, line>>

ReadData ==
  /\ rd' = FALSE
  /\ UNCHANGED <<data, wdata, tr, registers, writes, rcvInt, xmitInt, line>>

(* Reading a mode register or the command register moves the pointer.      *)
ReadModeOrCommand ==
  /\ ptr' = 1 - ptr
  /\ UNCHANGED <<data, wdata, rd, tr, mr1, mr2, cmd, params, writes, rcvInt, xmitInt, line>>

WriteData(c) ==
  /\ cmd.txen
  /\ writes < MaxWrites
  /\ wdata' = c
  /\ tr' = FALSE
  /\ writes' = writes + 1
  /\ UNCHANGED <<data, rd, registers, rcvInt, xmitInt, line>>

CtrlPut(m1, m2, c) == params' = [mr1 |-> m1, mr2 |-> m2, dtr |-> c.dtr]

(* Slip: the port is not told.                                             *)
WriteMode_NoPut(m) ==
  /\ IF ptr = 0 THEN mr1' = m /\ UNCHANGED mr2 ELSE mr2' = m /\ UNCHANGED mr1
  /\ ptr' = 1 - ptr
  /\ UNCHANGED <<data, wdata, rd, tr, cmd, params, writes, rcvInt, xmitInt, line>>

WriteMode(m) ==
  /\ IF ptr = 0 THEN mr1' = m /\ UNCHANGED mr2 ELSE mr2' = m /\ UNCHANGED mr1
  /\ ptr' = 1 - ptr
  /\ CtrlPut(mr1', mr2', cmd)
  /\ UNCHANGED <<data, wdata, rd, tr, cmd, writes, rcvInt, xmitInt, line>>

(* "(cmd & PRO_2661_OM0) == 1" is false of every cmd: PRO_2661_OM0 is      *)
(* 0100.                                                                   *)
WriteCommand(c) ==
  /\ cmd' = c
  /\ rd' = (rd /\ c.rxen)
  /\ tr' = c.txen
  /\ CtrlPut(mr1, mr2, c)
  /\ UNCHANGED <<data, wdata, mr1, mr2, ptr, writes, rcvInt, xmitInt, line>>

(* Slip: the event queue is not cleared.                                   *)
Reset_KeepsEvents ==
  /\ data' = 0
  /\ rd' = FALSE /\ tr' = TRUE
  /\ mr1' = 0 /\ mr2' = 0 /\ ptr' = 0 /\ cmd' = Off
  /\ CtrlPut(0, 0, Off)
  /\ rcvInt' = FALSE /\ xmitInt' = FALSE
  /\ UNCHANGED <<wdata, writes, line>>

(* RESET or RUN at the console: the event queue, the interrupt controllers,*)
(* pro_2661kb_reset and pro_2661kb_open.                                   *)
Reset ==
  /\ data' = 0
  /\ rd' = FALSE /\ tr' = TRUE
  /\ mr1' = 0 /\ mr2' = 0 /\ ptr' = 0 /\ cmd' = Off
  /\ CtrlPut(0, 0, Off)
  /\ writes' = 0
  /\ rcvInt' = FALSE /\ xmitInt' = FALSE
  /\ UNCHANGED <<wdata, line>>

(* The guest acknowledges a request, or clears it in the controller.       *)
TakeReceiverInterrupt ==
  /\ rcvInt /\ rcvInt' = FALSE
  /\ UNCHANGED <<data, wdata, rd, tr, registers, writes, xmitInt, line>>

TakeTransmitterInterrupt ==
  /\ xmitInt /\ xmitInt' = FALSE
  /\ UNCHANGED <<data, wdata, rd, tr, registers, writes, rcvInt, line>>

Next ==
  \/ \E c \in Char : Type(c) \/ WriteData(c)
  \/ Poll
  \/ WriteDone
  \/ ReadData
  \/ ReadModeOrCommand
  \/ \E m \in Mode : WriteMode(m)
  \/ \E c \in Command : WriteCommand(c)
  \/ Reset
  \/ TakeReceiverInterrupt
  \/ TakeTransmitterInterrupt

(* Events come up, and the port does not refuse a character forever.       *)
Spec == Init /\ [][Next]_vars /\ WF_vars(WriteDone)

-----------------------------------------------------------------------------
(* The port works with the parameters that the registers show.             *)
LineCurrent == params = [mr1 |-> mr1, mr2 |-> mr2, dtr |-> cmd.dtr]

(* "Clear transmitter ready if auto-echo or remote loopback modes"         *)
(* (pro_2661kb_wr).                                                        *)
EchoClearsReady == [][cmd' # cmd /\ cmd'.om \in {"echo", "remote"} => ~tr']_vars
=============================================================================
