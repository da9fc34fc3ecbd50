------------------------- MODULE UsartDriver_proofs --------------------------
(* Proofs about the 2661 controllers and their driver program, for any     *)
(* characters, modes and commands.                                         *)
EXTENDS UsartDriver, SequenceTheorems, TLAPS

-----------------------------------------------------------------------------
(* Signalled is not inductive: a completed write in a loopback test asks   *)
(* for the receiver, which must not have anything to read by then.         *)
NoOverrun == writes > 0 /\ cmd.om = "loopback" => ~rd

(* What Signalled says beside the types.                                   *)
Wakeups ==
  /\ rd <=> (rcvInt \/ inIsr)
  /\ ~(rcvInt /\ inIsr)
  /\ waiting <=> (writes > 0 \/ xmitInt)
  /\ writes = 0 \/ ~xmitInt

UsartInv ==
  /\ DriverTypeOK /\ Wakeups /\ LineCurrent /\ NoOverrun
  /\ writes <= 1 /\ cmd.om \in {"normal", "loopback"}

LEMMA UsartInit == DriverInit => UsartInv
<1> SUFFICES ASSUME DriverInit PROVE UsartInv
  OBVIOUS
<1> USE DEF DriverInit, Init, Off
<1>1. DriverTypeOK
  <2>1. writes \in 0 .. MaxWrites /\ line \in Seq(Char) /\ Len(line) <= MaxTyped
    BY BoundAssumption, EmptySeq
  <2>2. params \in [mr1 : Mode, mr2 : Mode, dtr : BOOLEAN]
    BY CharAssumption
  <2>3. QED
    BY <2>1, <2>2, CharAssumption DEF DriverTypeOK, TypeOK
<1>2. Wakeups /\ NoOverrun
  BY DEF Wakeups, NoOverrun
<1>3. LineCurrent
  BY DEF LineCurrent
<1>4. QED
  BY <1>1, <1>2, <1>3 DEF UsartInv

(* What is typed or read keeps the line a line.                            *)
LEMMA LineTypes ==
  ASSUME NEW q \in Seq(Char), NEW n \in Nat
  PROVE  /\ \A c \in Char : Len(q) < n => Append(q, c) \in Seq(Char) /\ Len(Append(q, c)) <= n
         /\ q # <<>> => /\ Head(q) \in Char /\ Tail(q) \in Seq(Char)
                        /\ Len(q) <= n => Len(Tail(q)) <= n
<1>1. ASSUME NEW c \in Char PROVE Append(q, c) \in Seq(Char) /\ Len(Append(q, c)) = Len(q) + 1
  BY AppendProperties
<1>2. ASSUME q # <<>> PROVE Head(q) \in Char /\ Tail(q) \in Seq(Char) /\ Len(Tail(q)) = Len(q) - 1
  BY <1>2, HeadTailProperties
<1>3. Len(q) \in Nat
  BY LenProperties
<1>4. QED
  BY <1>1, <1>2, <1>3

LEMMA UsartWorld == ASSUME UsartInv, World PROVE UsartInv'
<1> USE DEF UsartInv, registers, driverVars
<1>1. ASSUME NEW c \in Char, Type(c), UNCHANGED driverVars PROVE UsartInv'
  <2>1. DriverTypeOK'
    BY <1>1, LineTypes, BoundAssumption DEF Type, DriverTypeOK, TypeOK
  <2>2. QED
    BY <1>1, <2>1 DEF Type, Wakeups, LineCurrent, NoOverrun
<1>2. CASE Poll /\ UNCHANGED driverVars
  <2>1. DriverTypeOK'
    BY <1>2, LineTypes, BoundAssumption DEF Poll, DriverTypeOK, TypeOK
  <2>2. Wakeups' /\ NoOverrun'
    BY <1>2 DEF Poll, Wakeups, NoOverrun
  <2>3. QED
    BY <1>2, <2>1, <2>2 DEF Poll, LineCurrent
<1>3. QED
  BY <1>1, <1>2 DEF World

LEMMA UsartLeaves == ASSUME UsartInv, CharacterLeaves PROVE UsartInv'
<1> USE DEF UsartInv, registers, CharacterLeaves, WriteDone
<1>1. writes = 1 /\ writes' = 0
  BY BoundAssumption DEF DriverTypeOK, TypeOK
<1>2. DriverTypeOK'
  <2>1. writes' \in 0 .. MaxWrites
    BY <1>1, BoundAssumption
  <2>2. QED
    BY <2>1 DEF DriverTypeOK, TypeOK
<1>3. NoOverrun' /\ (waiting <=> (writes > 0 \/ xmitInt))'
  BY <1>1 DEF Wakeups, NoOverrun
<1>4. cmd.om = "loopback" => ~rcvInt /\ ~inIsr
  BY <1>1 DEF Wakeups, NoOverrun
<1>5. (rd <=> (rcvInt \/ inIsr))' /\ ~(rcvInt /\ inIsr)'
  BY <1>4 DEF Wakeups
<1>6. QED
  BY <1>1, <1>2, <1>3, <1>5 DEF Wakeups, LineCurrent

LEMMA UsartIsr ==
  ASSUME UsartInv, EnterReceiverIsr \/ ReadCharacter \/ TransmitterIsr
  PROVE  UsartInv'
<1> USE DEF UsartInv, registers
<1>1. CASE EnterReceiverIsr
  <2> USE <1>1 DEF EnterReceiverIsr, TakeReceiverInterrupt
  <2>1. DriverTypeOK'
    BY DEF DriverTypeOK, TypeOK
  <2>2. QED
    BY <2>1 DEF Wakeups, LineCurrent, NoOverrun
<1>2. CASE ReadCharacter
  <2> USE <1>2 DEF ReadCharacter, ReadData
  <2>1. DriverTypeOK'
    BY DEF DriverTypeOK, TypeOK
  <2>2. QED
    BY <2>1 DEF Wakeups, LineCurrent, NoOverrun
<1>3. CASE TransmitterIsr
  <2> USE <1>3 DEF TransmitterIsr, TakeTransmitterInterrupt
  <2>1. DriverTypeOK'
    BY DEF DriverTypeOK, TypeOK
  <2>2. writes = 0
    BY DEF Wakeups
  <2>3. QED
    BY <2>1, <2>2 DEF Wakeups, LineCurrent, NoOverrun
<1>4. QED
  BY <1>1, <1>2, <1>3

LEMMA UsartSends == ASSUME UsartInv, NEW c \in Char, SendCharacter(c) PROVE UsartInv'
<1> USE DEF UsartInv, registers, SendCharacter, WriteData
<1>1. ~(writes > 0) /\ ~xmitInt
  BY DEF Wakeups
<1>2. writes = 0 /\ writes' = 1
  BY <1>1, BoundAssumption DEF DriverTypeOK, TypeOK
<1>3. DriverTypeOK'
  <2>1. writes' \in 0 .. MaxWrites
    BY <1>2, BoundAssumption
  <2>2. QED
    BY <2>1 DEF DriverTypeOK, TypeOK
<1>4. Wakeups' /\ NoOverrun'
  BY <1>1, <1>2 DEF Wakeups, NoOverrun
<1>5. QED
  BY <1>2, <1>3, <1>4 DEF LineCurrent

LEMMA UsartConfigures == ASSUME UsartInv, Configure PROVE UsartInv'
<1> USE DEF UsartInv, DriverTypeOK, TypeOK, LineCurrent, NoOverrun, Wakeups, driverVars
<1>1. ASSUME NEW m \in Mode, WriteMode(m) PROVE UsartInv'
  BY <1>1 DEF Configure, WriteMode, CtrlPut
<1>2. CASE ReadModeOrCommand
  BY <1>2 DEF Configure, ReadModeOrCommand
<1>3. ASSUME NEW c \in Command, c.om \in {"normal", "loopback"}, rd => c.rxen, waiting => c.txen,
             c.om # cmd.om => ~rd /\ ~waiting, WriteCommand(c)
      PROVE  UsartInv'
  <2>1. c.dtr \in BOOLEAN /\ c.txen \in BOOLEAN
    BY DtrAssumption DEF Command
  <2>2. rd' = rd
    BY <1>3 DEF WriteCommand
  <2>3. NoOverrun'
    BY <1>3, <2>2 DEF WriteCommand
  <2>4. QED
    BY <1>3, <2>1, <2>2, <2>3 DEF Configure, WriteCommand, CtrlPut
<1>4. QED
  BY <1>1, <1>2, <1>3 DEF Configure

LEMMA UsartRestarts == ASSUME UsartInv, Restart PROVE UsartInv'
<1> USE DEF UsartInv, Restart, Reset, CtrlPut, Off
<1>1. DriverTypeOK'
  <2>1. writes' \in 0 .. MaxWrites
    BY BoundAssumption
  <2>2. params' \in [mr1 : Mode, mr2 : Mode, dtr : BOOLEAN]
    BY CharAssumption
  <2>3. QED
    BY <2>1, <2>2, CharAssumption DEF DriverTypeOK, TypeOK
<1>2. Wakeups' /\ NoOverrun'
  BY DEF Wakeups, NoOverrun
<1>3. LineCurrent'
  BY DEF LineCurrent
<1>4. QED
  BY <1>1, <1>2, <1>3

LEMMA UsartStep == ASSUME UsartInv, [DriverNext]_allVars PROVE UsartInv'
<1>1. CASE UNCHANGED allVars
  BY <1>1 DEF UsartInv, Wakeups, DriverTypeOK, TypeOK, LineCurrent, NoOverrun, allVars, vars,
              registers, driverVars
<1>2. QED
  BY <1>1, UsartWorld, UsartLeaves, UsartIsr, UsartSends, UsartConfigures, UsartRestarts
  DEF DriverNext

LEMMA UsartInvariant == DriverSpec => []UsartInv
  BY UsartInit, UsartStep, PTL DEF DriverSpec

(* No wakeup of the driver program is lost and none is spurious, for any   *)
(* characters, modes and commands (pro_2661kb_poll_eq, pro_2661kb_eq and   *)
(* the register accesses in every order).                                  *)
THEOREM UsartSignals == DriverSpec => []Signalled
<1>1. UsartInv => Signalled
  BY DEF UsartInv, Wakeups, Signalled
<1>2. QED
  BY <1>1, UsartInvariant, PTL

(* The port always has the parameters that the registers show.             *)
THEOREM LineIsCurrent == DriverSpec => []LineCurrent
<1>1. UsartInv => LineCurrent
  BY DEF UsartInv
<1>2. QED
  BY <1>1, UsartInvariant, PTL

-----------------------------------------------------------------------------
(* The refinement: each step is one of the line or leaves it alone.        *)
LEMMA LineStarts == DriverInit => Line!LineInit
  BY CharAssumption DEF DriverInit, Init, Line!LineInit

LEMMA LineSteps ==
  ASSUME UsartInv, [DriverNext]_allVars
  PROVE  [Line!LineNext]_(Line!lineVars)
<1> DEFINE Buffer == IF rd THEN <<data>> ELSE <<>>
           Sending == IF writes > 0 THEN <<wdata>> ELSE <<>>
<1> USE DEF Line!LineNext, Line!lineVars
<1>1. ASSUME NEW c \in Char, Type(c), UNCHANGED driverVars PROVE Line!LineNext
  <2>1. Line!Types(c)
    BY <1>1 DEF Type, Line!Types, driverVars
  <2>2. QED
    BY <2>1
<1>2. CASE Poll /\ UNCHANGED driverVars
  <2>1. ~rd /\ rd' /\ data' = Head(line)
    BY <1>2 DEF Poll
  <2>2. Append(<<>>, Head(line)) = <<Head(line)>>
    OBVIOUS
  <2>3. Line!Arrives
    BY <1>2, <2>1, <2>2 DEF Poll, Line!Arrives, driverVars
  <2>4. QED
    BY <2>3
<1>3. CASE CharacterLeaves
  <2>1. writes = 1 /\ writes' = 0 /\ Head(<<wdata>>) = wdata
    BY <1>3, BoundAssumption DEF CharacterLeaves, WriteDone, UsartInv, Wakeups, DriverTypeOK, TypeOK
  <2>2. CASE cmd.om = "normal"
    <3>1. Line!Leaves
      BY <1>3, <2>1, <2>2 DEF CharacterLeaves, WriteDone, Line!Leaves
    <3>2. QED
      BY <3>1
  <2>3. CASE cmd.om = "loopback"
    <3>1. ~rd /\ rd' /\ data' = wdata
      BY <1>3, <2>1, <2>3 DEF CharacterLeaves, WriteDone, UsartInv, NoOverrun
    <3>2. Append(<<>>, wdata) = <<wdata>>
      OBVIOUS
    <3>3. Line!ComesBack
      BY <1>3, <2>1, <2>3, <3>1, <3>2 DEF CharacterLeaves, WriteDone, Line!ComesBack
    <3>4. QED
      BY <3>3
  <2>4. QED
    BY <2>2, <2>3 DEF UsartInv
<1>4. CASE ReadCharacter
  <2>1. rd /\ ~rd' /\ Head(<<data>>) = data /\ Tail(<<data>>) = <<>>
    BY <1>4 DEF ReadCharacter, ReadData, UsartInv, Wakeups
  <2>2. Line!Reads
    BY <1>4, <2>1 DEF ReadCharacter, ReadData, Line!Reads
  <2>3. QED
    BY <2>2
<1>5. ASSUME NEW c \in Char, SendCharacter(c) PROVE Line!LineNext
  <2>1. writes = 0 /\ writes' = 1 /\ wdata' = c
    BY <1>5, BoundAssumption
    DEF SendCharacter, WriteData, UsartInv, Wakeups, DriverTypeOK, TypeOK
  <2>2. Line!Sends(c)
    BY <1>5, <2>1 DEF SendCharacter, WriteData, Line!Sends
  <2>3. QED
    BY <2>2
<1>6. CASE Restart
  <2>1. Line!Forgets
    BY <1>6 DEF Restart, Reset, Line!Forgets
  <2>2. QED
    BY <2>1
<1>7. ASSUME UNCHANGED <<line, rd, data, writes, wdata, got, left>> PROVE UNCHANGED Line!lineVars
  BY <1>7
<1>8. CASE EnterReceiverIsr \/ TransmitterIsr
  BY <1>7, <1>8 DEF EnterReceiverIsr, TakeReceiverInterrupt, TransmitterIsr, TakeTransmitterInterrupt
<1>9. CASE Configure
  <2>1. rd' = rd
    BY <1>9 DEF Configure, WriteMode, ReadModeOrCommand, WriteCommand, UsartInv, Wakeups, DriverTypeOK, TypeOK
  <2>2. QED
    BY <1>7, <1>9, <2>1
    DEF Configure, WriteMode, ReadModeOrCommand, WriteCommand, driverVars
<1>10. CASE UNCHANGED allVars
  BY <1>7, <1>10 DEF allVars, vars, driverVars
<1>11. QED
  BY <1>1, <1>2, <1>3, <1>4, <1>5, <1>6, <1>8, <1>9, <1>10 DEF DriverNext, World

(* The controller with its driver program is a serial line that neither    *)
(* loses nor repeats nor reorders a character, for any characters, modes   *)
(* and commands.                                                           *)
THEOREM UsartImplementsLine == DriverSpec => ImplementsLine
<1>1. QED
  BY LineStarts, LineSteps, UsartInvariant, PTL DEF DriverSpec, ImplementsLine, Line!LineSpec
=============================================================================
