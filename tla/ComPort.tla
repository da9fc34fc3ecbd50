------------------------------- MODULE ComPort -------------------------------
(***************************************************************************)
(* The communication port (src/src/pro_com.c): a received character queue  *)
(* and a queue of pending interrupts that share one request to the         *)
(* interrupt controller.  The queues are rings whose filling nobody        *)
(* checks: one entry too many and they look empty.  The guest may do       *)
(* anything; ComDriver is a guest that follows the protocol.               *)
(***************************************************************************)
EXTENDS Naturals, Sequences

CONSTANTS
  Char,       \* characters; 0 is what a reset leaves
  DataDepth,  \* PRO_COM_DATAQ_DEPTH, 6
  IntDepth,   \* PRO_COM_INTQ_DEPTH, 16
  Dtr,        \* values of the DTR bit a guest writes
  MaxTyped,   \* bound: characters on their way from the line
  MaxWrites   \* bound: write events in the event queue

ASSUME CharAssumption == 0 \in Char
ASSUME DepthAssumption == DataDepth \in Nat /\ IntDepth \in Nat
ASSUME DtrAssumption == Dtr \subseteq BOOLEAN
ASSUME BoundAssumption == MaxTyped \in Nat /\ MaxWrites \in Nat

VARIABLES
  dataq, intq,        \* received characters; "rcv" and "xmit" interrupts
  rxca, tbmt, intp,   \* bits of a_rr0: character available, transmit buffer
                      \* empty, interrupt pending
  allSent,            \* bit of a_rr1
  ptrA, ptrB,         \* register pointers in a_wr0 and b_wr0
  tie, rxen, txen,    \* enables in a_wr1, a_wr3 and a_wr5
  mm, dtr,            \* maintenance mode and DTR, in mcr0
  wdata,              \* character to send
  writes,             \* PRO_EVENT_COM events in the event queue
  comInt,             \* the request in the interrupt controller
  line,               \* characters the port will deliver
  portDtr             \* DTR as the port was told last

rcvVars == <<dataq, rxca>>
intVars == <<intq, intp, comInt>>
xmitVars == <<tbmt, allSent, wdata, writes>>
ctlVars == <<ptrA, ptrB, tie, rxen, txen, mm, dtr, portDtr>>
vars == <<rcvVars, intVars, xmitVars, ctlVars, line>>

(* Pointers a guest uses: WR0, interrupts, vector, receiver, transmitter.  *)
Pointer == {0, 1, 2, 3, 5}

(* Values of mcr0 a guest writes: maintenance mode and DTR.                *)
Modem == [mm : BOOLEAN, dtr : Dtr]

TypeOK ==
  /\ dataq \in Seq(Char) /\ Len(dataq) <= DataDepth
  /\ intq \in Seq({"rcv", "xmit"}) /\ Len(intq) <= IntDepth
  /\ rxca \in BOOLEAN /\ tbmt \in BOOLEAN /\ intp \in BOOLEAN /\ allSent \in BOOLEAN
  /\ ptrA \in Pointer /\ ptrB \in Pointer
  /\ tie \in BOOLEAN /\ rxen \in BOOLEAN /\ txen \in BOOLEAN
  /\ mm \in BOOLEAN /\ dtr \in BOOLEAN /\ portDtr \in BOOLEAN
  /\ wdata \in Char /\ writes \in 0 .. MaxWrites
  /\ comInt \in BOOLEAN
  /\ line \in Seq(Char) /\ Len(line) <= MaxTyped

Init ==
  /\ dataq = <<>> /\ intq = <<>>
  /\ rxca = FALSE /\ tbmt = TRUE /\ intp = FALSE /\ allSent = TRUE
  /\ ptrA = 0 /\ ptrB = 0
  /\ tie = FALSE /\ rxen = FALSE /\ txen = FALSE
  /\ mm = FALSE /\ dtr = FALSE /\ portDtr = FALSE
  /\ wdata = 0 /\ writes = 0
  /\ comInt = FALSE
  /\ line = <<>>

-----------------------------------------------------------------------------
(* pro_com_qdata and pro_com_qint: when the ring is full, its tail meets   *)
(* its head.                                                               *)
Queued(q, x, depth) == IF Len(q) = depth THEN <<>> ELSE Append(q, x)

QueueData(c) == dataq' = Queued(dataq, c, DataDepth) /\ rxca' = TRUE

Type(c) ==
  /\ Len(line) < MaxTyped
  /\ line' = Append(line, c)
  /\ UNCHANGED <<rcvVars, intVars, xmitVars, ctlVars>>

(* pro_com_poll_eq, when there is something to do.                         *)
Poll ==
  /\ ~mm /\ rxen /\ ~rxca
  /\ line # <<>>
  /\ QueueData(Head(line)) /\ line' = Tail(line)
  /\ intq' = Queued(intq, "rcv", IntDepth) /\ comInt' = TRUE
  /\ UNCHANGED <<intp, xmitVars, ctlVars>>

(* Slip: a looped character is not received.                               *)
WriteDone_NoLoop ==
  /\ writes > 0
  /\ writes' = writes - 1
  /\ tbmt' = TRUE /\ allSent' = TRUE
  /\ intq' = IF txen /\ tie THEN Queued(intq, "xmit", IntDepth) ELSE intq
  /\ comInt' = (comInt \/ (txen /\ tie))
  /\ UNCHANGED <<rcvVars, intp, wdata, ctlVars, line>>

(* pro_com_eq, when it completes the write.  When the port refuses the     *)
(* character the event is scheduled again and nothing changes.             *)
WriteDone ==
  LET afterXmit == IF txen /\ tie THEN Queued(intq, "xmit", IntDepth) ELSE intq
      loops == txen /\ mm /\ rxen
  IN /\ writes > 0
     /\ writes' = writes - 1
     /\ tbmt' = TRUE /\ allSent' = TRUE
     /\ IF loops
        THEN QueueData(wdata) /\ intq' = Queued(afterXmit, "rcv", IntDepth)
        ELSE UNCHANGED rcvVars /\ intq' = afterXmit
     /\ comInt' = (comInt \/ loops \/ (txen /\ tie))
     /\ UNCHANGED <<intp, wdata, ctlVars, line>>

(* Register 17773300.                                                      *)
ReadData ==
  /\ dataq' = IF dataq = <<>> THEN <<>> ELSE Tail(dataq)
  /\ rxca' = (rxca /\ dataq' # <<>>)
  /\ UNCHANGED <<intVars, xmitVars, ctlVars, line>>

WriteData(c) ==
  /\ txen
  /\ writes < MaxWrites
  /\ wdata' = c
  /\ tbmt' = FALSE /\ allSent' = FALSE
  /\ writes' = writes + 1
  /\ UNCHANGED <<rcvVars, intVars, ctlVars, line>>

(* Registers 17773302 and 17773306.                                        *)
ReadStatusA ==
  /\ ptrA' = 0
  /\ UNCHANGED <<rcvVars, intVars, xmitVars, ptrB, tie, rxen, txen, mm, dtr, portDtr, line>>

ReadInterrupt ==
  /\ ptrB' = 0
  /\ intp' = (intp \/ (ptrB = 2 /\ intq # <<>>))
  /\ UNCHANGED <<rcvVars, intq, comInt, xmitVars, ptrA, tie, rxen, txen, mm, dtr, portDtr, line>>

SelectA(p) ==
  /\ ptrA = 0 /\ ptrA' = p
  /\ UNCHANGED <<rcvVars, intVars, xmitVars, ptrB, tie, rxen, txen, mm, dtr, portDtr, line>>

(* Slip: the next interrupt of the queue is not requested.                 *)
EndOfInterrupt_NoRequest(p) ==
  /\ ptrA = 0 /\ ptrA' = p
  /\ IF intq = <<>>
     THEN UNCHANGED intVars
     ELSE /\ intq' = Tail(intq)
          /\ intp' = (intp /\ intq' # <<>>)
          /\ UNCHANGED comInt
  /\ UNCHANGED <<rcvVars, xmitVars, ptrB, tie, rxen, txen, mm, dtr, portDtr, line>>

(* The end of interrupt command, which may also set the pointer.           *)
EndOfInterrupt(p) ==
  /\ ptrA = 0 /\ ptrA' = p
  /\ IF intq = <<>>
     THEN UNCHANGED intVars
     ELSE /\ intq' = Tail(intq)
          /\ IF intq' # <<>> THEN comInt' = TRUE /\ UNCHANGED intp
                             ELSE intp' = FALSE /\ UNCHANGED comInt
  /\ UNCHANGED <<rcvVars, xmitVars, ptrB, tie, rxen, txen, mm, dtr, portDtr, line>>

(* The register that the pointer selects: WR1, WR3 or WR5 with this enable *)
(* bit, or another one that has no part here.                              *)
WriteSelectedA(on) ==
  /\ ptrA # 0 /\ ptrA' = 0
  /\ tie' = IF ptrA = 1 THEN on ELSE tie
  /\ rxen' = IF ptrA = 3 THEN on ELSE rxen
  /\ txen' = IF ptrA = 5 THEN on ELSE txen
  /\ portDtr' = IF ptrA \in {3, 5} THEN dtr ELSE portDtr
  /\ UNCHANGED <<rcvVars, intVars, xmitVars, ptrB, mm, dtr, line>>

(* Slip: the pointer of channel B is incremented.                          *)
WriteB_Increment(p) ==
  /\ ptrB' = ptrB + 1
  /\ UNCHANGED <<rcvVars, intVars, xmitVars, ptrA, tie, rxen, txen, mm, dtr, portDtr, line>>

WriteB(p) ==
  /\ ptrB' = IF ptrB = 0 THEN p ELSE 0
  /\ UNCHANGED <<rcvVars, intVars, xmitVars, ptrA, tie, rxen, txen, mm, dtr, portDtr, line>>

(* Registers 17773310 and 17773314.                                        *)
WriteModemControl(m) ==
  /\ mm' = m.mm /\ dtr' = m.dtr
  /\ UNCHANGED <<rcvVars, intVars, xmitVars, ptrA, ptrB, tie, rxen, txen, portDtr, line>>

WriteBaud ==
  /\ portDtr' = dtr
  /\ UNCHANGED <<rcvVars, intVars, xmitVars, ptrA, ptrB, tie, rxen, txen, mm, dtr, line>>

(* RESET or RUN at the console: the event queue, the interrupt controllers *)
(* and pro_com_reset.                                                      *)
Reset ==
  /\ dataq' = <<>> /\ intq' = <<>>
  /\ rxca' = FALSE /\ tbmt' = TRUE /\ intp' = FALSE /\ allSent' = TRUE
  /\ ptrA' = 0 /\ ptrB' = 0
  /\ tie' = FALSE /\ rxen' = FALSE /\ txen' = FALSE
  /\ mm' = FALSE /\ dtr' = FALSE /\ portDtr' = FALSE
  /\ wdata' = 0 /\ writes' = 0
  /\ comInt' = FALSE
  /\ UNCHANGED line

(* The guest acknowledges the request, or clears it in the controller.     *)
TakeRequest ==
  /\ comInt /\ comInt' = FALSE
  /\ UNCHANGED <<rcvVars, intq, intp, xmitVars, ctlVars, line>>

Next ==
  \/ \E c \in Char : Type(c) \/ WriteData(c)
  \/ Poll
  \/ WriteDone
  \/ ReadData
  \/ ReadStatusA
  \/ ReadInterrupt
  \/ \E p \in Pointer : SelectA(p) \/ EndOfInterrupt(p) \/ WriteB(p)
  \/ \E on \in BOOLEAN : WriteSelectedA(on)
  \/ \E m \in Modem : WriteModemControl(m)
  \/ WriteBaud
  \/ Reset
  \/ TakeRequest

(* Events come up, and the port does not refuse a character forever.       *)
Spec == Init /\ [][Next]_vars /\ WF_vars(WriteDone)

-----------------------------------------------------------------------------
(* "Stores line control parameters" (pro_com_ctrl): DTR at the port is DTR *)
(* in the modem control register.                                          *)
LineCurrent == portDtr = dtr
=============================================================================
