------------------------- MODULE CpuInterrupts_proofs -------------------------
(* Proofs about the interrupt controllers, for any number of controllers   *)
(* and lines, and about the processor's side of an interrupt.              *)
EXTENDS CpuInterrupts, TLAPS

-----------------------------------------------------------------------------
(* The controllers.                                                        *)
LEMMA ZeroLine == 0 \in Ctl /\ 0 \in Line
  BY SizeAssumption DEF Ctl, Line

(* A selection of lines is a set of lines.                                 *)
LEMMA SelectionType == \A lines \in LineSelection : lines \subseteq Line
  BY DEF LineSelection

(* An answer is always for a line of some controller.                      *)
LEMMA AckSourceType == \A s \in AckSource : s \in Ctl \X Line
  BY DEF AckSource, Deliverable

(* Setting, clearing or replacing bits of a register gives a register.     *)
LEMMA RegisterUpdate ==
  ASSUME NEW f \in [Ctl -> SUBSET Line], NEW c \in Ctl, NEW lines \in SUBSET Line
  PROVE  /\ [f EXCEPT ![c] = @ \cup lines] \in [Ctl -> SUBSET Line]
         /\ [f EXCEPT ![c] = @ \ lines] \in [Ctl -> SUBSET Line]
         /\ [f EXCEPT ![c] = lines] \in [Ctl -> SUBSET Line]
<1>1. f[c] \cup lines \in SUBSET Line /\ f[c] \ lines \in SUBSET Line
  OBVIOUS
<1>2. QED
  BY <1>1

(* Every variable stays in its domain, whatever the guest and the devices  *)
(* do to the controllers.                                                  *)
THEOREM TypeCorrect == Spec => []TypeOK
<1>1. Init => TypeOK
  <2> SUFFICES ASSUME Init PROVE TypeOK
    OBVIOUS
  <2> USE DEF Init
  <2>1. irr \in [Ctl -> SUBSET Line] /\ isr \in [Ctl -> SUBSET Line]
    OBVIOUS
  <2>2. imr \in [Ctl -> SUBSET Line] /\ acr \in [Ctl -> SUBSET Line]
    OBVIOUS
  <2>3. mode \in [Ctl -> SUBSET ModeFlag] /\ presel \in [Ctl -> Preselect]
    BY DEF Preselect
  <2>4. preselVec \in [Ctl -> Line] /\ vec \in [Ctl -> [Line -> Vector]]
    BY ZeroLine, VectorAssumption
  <2>5. QED
    BY <2>1, <2>2, <2>3, <2>4 DEF TypeOK
<1>2. TypeOK /\ [Next]_ctlVars => TypeOK'
  <2> SUFFICES ASSUME TypeOK, [Next]_ctlVars PROVE TypeOK'
    OBVIOUS
  <2> USE DEF TypeOK, guestRegs, Update
  <2>1. ASSUME NEW c \in Ctl, NEW l \in Line, Raise(c, l) PROVE TypeOK'
    BY <2>1 DEF Raise
  <2>2. ASSUME NEW c \in Ctl, GuestWrite(c) PROVE TypeOK'
    <3>1. CASE ResetCommand(c)
      BY <3>1 DEF ResetCommand, Preselect, ModeFlag
    <3>2. ASSUME NEW lines \in LineSelection, ClearRequestAndMask(c, lines)
          PROVE  TypeOK'
      BY <3>2, SelectionType, RegisterUpdate DEF ClearRequestAndMask
    <3>3. ASSUME NEW lines \in LineSelection, Unmask(c, lines) \/ Mask(c, lines)
          PROVE  TypeOK'
      <4>1. CASE Unmask(c, lines)
        BY <4>1, SelectionType, RegisterUpdate DEF Unmask
      <4>2. CASE Mask(c, lines)
        BY <4>2, SelectionType, RegisterUpdate DEF Mask
      <4>3. QED
        BY <3>3, <4>1, <4>2
    <3>4. ASSUME NEW lines \in LineSelection, ClearRequest(c, lines) \/ SetRequest(c, lines)
          PROVE  TypeOK'
      <4>1. CASE ClearRequest(c, lines)
        BY <4>1, SelectionType, RegisterUpdate DEF ClearRequest
      <4>2. CASE SetRequest(c, lines)
        BY <4>2, SelectionType, RegisterUpdate DEF SetRequest
      <4>3. QED
        BY <3>4, <4>1, <4>2
    <3>5. CASE \E lines \in LineSelection : ClearService(c, lines)
      BY <3>5, SelectionType DEF ClearService
    <3>6. CASE \E low \in SUBSET LowModeFlag : LoadMode(c, low)
      BY <3>6 DEF LoadMode, ModeFlag
    <3>7. ASSUME NEW op \in {"set", "clear", "keep"}, ControlMode(c, op)
          PROVE  TypeOK'
      <4>1. \A m \in SUBSET ModeFlag : m \cup {"MM"} \in SUBSET ModeFlag /\ m \ {"MM"} \in SUBSET ModeFlag
        BY DEF ModeFlag
      <4>2. mode' \in [Ctl -> SUBSET ModeFlag]
        BY <3>7, <4>1 DEF ControlMode
      <4>3. QED
        BY <3>7, <4>2 DEF ControlMode
    <3>8. CASE \E p \in Preselect, l \in Line : PreselectPort(c, p, l)
      BY <3>8 DEF PreselectPort
    <3>9. ASSUME NEW lines \in SUBSET Line, NEW v \in Vector,
                 WriteData(c, lines, v)
          PROVE  TypeOK'
      <4>1. CASE presel[c] \in {"IMR", "ACR"}
        BY <3>9, <4>1, RegisterUpdate DEF WriteData
      <4>2. CASE presel[c] = "RESP"
        <5>1. vec' = [vec EXCEPT ![c][preselVec[c]] = v]
          BY <3>9, <4>2 DEF WriteData
        <5>2. vec' \in [Ctl -> [Line -> Vector]]
          BY <5>1
        <5>3. QED
          BY <3>9, <4>2, <5>2 DEF WriteData
      <4>3. QED
        BY <4>1, <4>2 DEF Preselect
    <3>10. QED
      BY <2>2, <3>1, <3>2, <3>3, <3>4, <3>5, <3>6, <3>7, <3>8, <3>9
         DEF GuestWrite, Command
  <2>3. ASSUME NEW s \in AckSource, Acknowledge(s) PROVE TypeOK'
    BY <2>3, AckSourceType DEF Acknowledge
  <2>4. CASE DropLine
    BY <2>4 DEF DropLine
  <2>5. CASE Reset
    <3>1. /\ irr' \in [Ctl -> SUBSET Line] /\ isr' \in [Ctl -> SUBSET Line]
          /\ imr' \in [Ctl -> SUBSET Line] /\ acr' \in [Ctl -> SUBSET Line]
          /\ mode' \in [Ctl -> SUBSET ModeFlag] /\ presel' \in [Ctl -> Preselect]
      BY <2>5 DEF Reset, Preselect
    <3>2. preselVec' \in [Ctl -> Line] /\ vec' \in [Ctl -> [Line -> Vector]]
      BY <2>5, ZeroLine, VectorAssumption DEF Reset
    <3>3. QED
      BY <2>5, <3>1, <3>2 DEF Reset
  <2>6. CASE UNCHANGED ctlVars
    BY <2>6 DEF ctlVars
  <2>7. QED
    BY <2>1, <2>2, <2>3, <2>4, <2>5, <2>6 DEF Next
<1>3. QED
  BY <1>1, <1>2, PTL DEF Spec

(* Every step either ends in pro_int_update, or zeroes the line, or leaves *)
(* the line and everything the line depends on alone.                      *)
LEMMA StepShape ==
  ASSUME Next
  PROVE  \/ Update
         \/ pir4' = FALSE /\ dropped' = TRUE
         \/ UNCHANGED <<irr, imr, mode, pir4, dropped>>
<1> USE DEF guestRegs
<1>1. ASSUME NEW c \in Ctl, NEW l \in Line, Raise(c, l) PROVE Update
  BY <1>1 DEF Raise
<1>2. ASSUME NEW c \in Ctl, GuestWrite(c)
      PROVE  Update \/ UNCHANGED <<irr, imr, mode, pir4, dropped>>
  <2>1. CASE Command(c)
    BY <2>1 DEF Command, ResetCommand, ClearRequestAndMask, Unmask, Mask,
                ClearRequest, SetRequest, ClearService, LoadMode, ControlMode,
                PreselectPort
  <2>2. CASE \E lines \in SUBSET Line, v \in Vector : WriteData(c, lines, v)
    BY <2>2 DEF WriteData
  <2>3. QED
    BY <1>2, <2>1, <2>2 DEF GuestWrite
<1>3. ASSUME NEW s \in AckSource, Acknowledge(s) PROVE Update
  BY <1>3 DEF Acknowledge
<1>4. CASE DropLine
  BY <1>4 DEF DropLine
<1>5. CASE Reset
  BY <1>5 DEF Reset
<1>6. QED
  BY <1>1, <1>2, <1>3, <1>4, <1>5 DEF Next

(* What can be delivered depends on these three variables only.            *)
LEMMA DeliverableFrame ==
  UNCHANGED <<irr, imr, mode>> => Deliverable' = Deliverable
  BY DEF Deliverable, Presented

(* The two directions are inductive together, without the types.           *)
LineInv == LineSound /\ LineComplete

(* The request line and the controllers agree: the line is up only when    *)
(* pro_int_ack will find a request, and it is down with a request          *)
(* presentable only between a zeroing of int_req and the next operation on *)
(* a controller.                                                           *)
THEOREM LineAgrees == Spec => []LineInv
<1> USE DEF LineInv, LineSound, LineComplete
<1>1. Init => LineInv
  BY DEF Init, Deliverable, Presented
<1>2. LineInv /\ [Next]_ctlVars => LineInv'
  <2> SUFFICES ASSUME LineInv, [Next]_ctlVars PROVE LineInv'
    OBVIOUS
  <2>1. CASE Update
    BY <2>1 DEF Update
  <2>2. CASE pir4' = FALSE /\ dropped' = TRUE
    BY <2>2
  <2>3. CASE UNCHANGED <<irr, imr, mode, pir4, dropped>>
    BY <2>3, DeliverableFrame
  <2>4. CASE UNCHANGED ctlVars
    BY <2>4, DeliverableFrame DEF ctlVars
  <2>5. QED
    BY <2>1, <2>2, <2>3, <2>4, StepShape
<1>3. QED
  BY <1>1, <1>2, PTL DEF Spec

(* The processor line never asks for an interrupt that pro_int_ack would   *)
(* not find.                                                               *)
THEOREM LineIsSound == Spec => []LineSound
  BY LineAgrees, PTL DEF LineInv

(* A request that may be presented has the line up, unless int_req was     *)
(* zeroed since the last operation on a controller.                        *)
THEOREM LineIsComplete == Spec => []LineComplete
  BY LineAgrees, PTL DEF LineInv

(* What the run checks: both directions, and the types, for any number of  *)
(* controllers and lines.                                                  *)
THEOREM LineIsExact == Spec => []LineExact
  BY TypeCorrect, LineIsSound, LineIsComplete, PTL DEF LineExact

(* A line enters service for a request that may be presented, with none    *)
(* before it, and that one request is consumed.  This rests on the line:   *)
(* pir4 says that the search of pro_int_ack ends at a request.             *)
LEMMA ServiceStep ==
  ASSUME TypeOK, LineSound, Next,
         NEW c \in Ctl, NEW l \in Line, l \in isr'[c] \ isr[c]
  PROVE  /\ <<c, l>> \in Deliverable
         /\ \A t \in Deliverable : Before(<<c, l>>, t)
         /\ irr' = [irr EXCEPT ![c] = @ \ {l}]
<1> USE DEF guestRegs
<1>1. isr \in [Ctl -> SUBSET Line]
  BY DEF TypeOK
<1>2. ASSUME NEW d \in Ctl, NEW k \in Line, Raise(d, k) PROVE FALSE
  BY <1>2 DEF Raise
<1>3. ASSUME NEW d \in Ctl, GuestWrite(d) PROVE isr'[c] \subseteq isr[c]
  <2>1. CASE ResetCommand(d)
    <3>1. isr' = [isr EXCEPT ![d] = {}]
      BY <2>1 DEF ResetCommand
    <3>2. QED
      BY <1>1, <3>1
  <2>2. ASSUME NEW lines \in LineSelection, ClearService(d, lines) PROVE isr'[c] \subseteq isr[c]
    <3>1. isr' = [isr EXCEPT ![d] = @ \ lines]
      BY <2>2 DEF ClearService
    <3>2. QED
      BY <1>1, <3>1
  <2>3. ASSUME NEW lines \in LineSelection,
               \/ ClearRequestAndMask(d, lines) \/ Unmask(d, lines) \/ Mask(d, lines)
               \/ ClearRequest(d, lines) \/ SetRequest(d, lines)
        PROVE  isr' = isr
    BY <2>3 DEF ClearRequestAndMask, Unmask, Mask, ClearRequest, SetRequest
  <2>4. ASSUME \/ \E low \in SUBSET LowModeFlag : LoadMode(d, low)
               \/ \E op \in {"set", "clear", "keep"} : ControlMode(d, op)
               \/ \E p \in Preselect, k \in Line : PreselectPort(d, p, k)
               \/ \E lines \in SUBSET Line, v \in Vector : WriteData(d, lines, v)
        PROVE  isr' = isr
    BY <2>4 DEF LoadMode, ControlMode, PreselectPort, WriteData
  <2>5. QED
    BY <1>3, <2>1, <2>2, <2>3, <2>4 DEF GuestWrite, Command
<1>4. CASE pir4 /\ \E s \in AckSource : Acknowledge(s)
  <2>1. PICK s \in AckSource : Acknowledge(s)
    BY <1>4
  <2>2. s \in Deliverable /\ \A t \in Deliverable : Before(s, t)
    BY <1>4 DEF LineSound, AckSource
  <2>3. s \in Ctl \X Line
    BY <2>2 DEF Deliverable
  <2>4. isr' = isr \/ isr' = [isr EXCEPT ![s[1]] = @ \cup {s[2]}]
    BY <2>1 DEF Acknowledge
  <2>5. c = s[1] /\ l = s[2]
    BY <1>1, <2>3, <2>4
  <2>6. s = <<c, l>>
    BY <2>3, <2>5
  <2>7. irr' = [irr EXCEPT ![c] = @ \ {l}]
    BY <2>1, <2>5 DEF Acknowledge
  <2>8. QED
    BY <2>2, <2>6, <2>7
<1>5. CASE DropLine
  BY <1>5 DEF DropLine
<1>6. CASE Reset
  BY <1>6 DEF Reset
<1>7. QED
  BY <1>2, <1>3, <1>4, <1>5, <1>6 DEF Next

(* For any number of controllers and lines: only a request that may be     *)
(* presented enters service, the first of them, and it alone is consumed.  *)
THEOREM ServiceFollowsRequest == Spec => ServiceFromRequest
<1> DEFINE Served == \A c \in Ctl, l \in Line :
                       l \in isr'[c] \ isr[c] =>
                         /\ <<c, l>> \in Deliverable
                         /\ \A t \in Deliverable : Before(<<c, l>>, t)
                         /\ irr' = [irr EXCEPT ![c] = @ \ {l}]
<1>1. TypeOK /\ LineSound /\ [Next]_ctlVars => [Served]_ctlVars
  BY ServiceStep
<1>2. QED
  BY <1>1, TypeCorrect, LineIsSound, PTL DEF Spec, ServiceFromRequest

-----------------------------------------------------------------------------
(* The processor.                                                          *)

(* Every step of the processor is a step of the controllers' specification *)
(* or leaves the controllers alone.                                        *)
LEMMA CpuStepIsControllerStep == [CpuNext]_vars => [Next]_ctlVars
<1> SUFFICES ASSUME [CpuNext]_vars PROVE [Next]_ctlVars
  OBVIOUS
<1> USE DEF Next
<1>1. CASE TakeInterrupt
  BY <1>1 DEF TakeInterrupt, CalcInts
<1>2. CASE AbortInSequence
  BY <1>2 DEF AbortInSequence, CalcInts
<1>3. CASE FetchAndEvent
  BY <1>3 DEF FetchAndEvent
<1>4. CASE Execute
  BY <1>4 DEF Execute, ExecPlain, ExecDeviceAccess, ExecControllerWrite,
              ExecSetPriority, ExecReset, ExecHalt
<1>5. CASE ServeClockQueue \/ TakeTrap \/ FetchAbort \/ NothingToDo \/ ExecFloatAbort
  BY <1>5 DEF ServeClockQueue, TakeTrap, FetchAbort, NothingToDo, ExecFloatAbort
<1>6. CASE Continue \/ ConsoleReset
  BY <1>6 DEF Continue, ConsoleReset
<1>7. CASE UNCHANGED vars
  BY <1>7 DEF vars
<1>8. QED
  BY <1>1, <1>2, <1>3, <1>4, <1>5, <1>6, <1>7 DEF CpuNext, CpuStep, ConsoleStep

(* The processor with its controllers implements the controllers'          *)
(* specification: nothing in the main loop touches them another way.       *)
THEOREM CpuImplementsController == CpuSpec => ControllerSpec
<1>1. CpuInit => Init
  BY DEF CpuInit
<1>2. QED
  BY <1>1, CpuStepIsControllerStep, PTL DEF CpuSpec, ControllerSpec, Spec

(* So in the running machine too, pro_int_ack is only called when there is *)
(* something to acknowledge.                                               *)
THEOREM CpuLineIsSound == CpuSpec => []LineSound
  BY CpuImplementsController, LineIsSound, PTL DEF ControllerSpec

-----------------------------------------------------------------------------
(* An instruction only executes when TRAP_INT was clear at its fetch, so   *)
(* one that leaves TRAP_INT alone leaves it clear.                         *)
ExecutesClear == phase = "exec" => ~trapInt

LEMMA ClearStep ==
  ASSUME ExecutesClear, [CpuNext]_vars
  PROVE  ExecutesClear'
<1> USE DEF ExecutesClear
<1>1. CASE ServeClockQueue \/ TakeTrap \/ TakeInterrupt
  BY <1>1 DEF ServeClockQueue, TakeTrap, TakeInterrupt, AtTop
<1>2. CASE NothingToDo \/ AbortInSequence \/ FetchAndEvent \/ FetchAbort
  BY <1>2 DEF NothingToDo, AbortInSequence, FetchAndEvent, FetchAbort, AtTop
<1>3. CASE Execute \/ ExecFloatAbort
  BY <1>3 DEF Execute, ExecPlain, ExecDeviceAccess, ExecControllerWrite, ExecSetPriority,
              ExecReset, ExecHalt, ExecFloatAbort, Executing
<1>4. CASE ConsoleStep
  BY <1>4 DEF ConsoleStep, Continue, ConsoleReset
<1>5. CASE UNCHANGED vars
  BY <1>5 DEF vars, cpuVars
<1>6. QED
  BY <1>1, <1>2, <1>3, <1>4, <1>5, Zenon DEF CpuNext, CpuStep

(* The two properties are inductive with that and the types of the two     *)
(* counters.  What an admissible request is does not matter here, so       *)
(* CalcInts is left folded.                                                *)
CpuInv ==
  /\ simInterval \in 0 .. Quantum /\ lag \in Nat
  /\ ExecutesClear
  /\ TrapIntSound
  /\ LatencyBounded

LEMMA CpuInvInit == CpuInit => CpuInv
<1> SUFFICES ASSUME CpuInit PROVE CpuInv
  OBVIOUS
<1>1. simInterval \in 0 .. Quantum /\ lag \in Nat /\ LatencyBounded
  <2>1. simInterval = 0 /\ lag = 0
    BY DEF CpuInit
  <2>2. QED
    BY <2>1, QuantumAssumption DEF LatencyBounded
<1>2. TrapIntSound
  BY Zenon DEF CpuInit, TrapIntSound
<1>3. ExecutesClear
  BY Zenon DEF CpuInit, ExecutesClear
<1>4. QED
  BY <1>1, <1>2, <1>3, Zenon DEF CpuInv

LEMMA CpuInvStep ==
  ASSUME CpuInv, [CpuNext]_vars
  PROVE  CpuInv'
<1>0. ExecutesClear'
  BY ClearStep, Zenon DEF CpuInv
<1> USE <1>0, QuantumAssumption DEF CpuInv, TrapIntSound, LatencyBounded, CountLag
<1>1. ASSUME ServeClockQueue, CountLag, floatAbort' = FALSE PROVE CpuInv'
  <2>1. UNCHANGED <<ipl, pir4>>
    BY <1>1 DEF ServeClockQueue, ctlVars
  <2>2. trapInt' = CalcInts(ipl', pir4')
    BY <1>1, <2>1, Zenon DEF ServeClockQueue
  <2>3. ~CalcInts(ipl', pir4') \/ trapInt'
    BY <2>2, Zenon
  <2>4. lag' = 0
    BY <1>1, <2>3
  <2>5. TrapIntSound'
    BY <2>2, Zenon
  <2>6. simInterval' = Quantum \/ simInterval' = simInterval
    BY <1>1, Zenon DEF ServeClockQueue
  <2>7. simInterval' \in 0 .. Quantum /\ lag' \in Nat /\ LatencyBounded'
    BY <2>4, <2>6
  <2>8. QED
    BY <1>0, <2>5, <2>7, Zenon
<1>2. ASSUME TakeTrap, CountLag PROVE CpuInv'
  BY <1>2 DEF TakeTrap, AtTop, EnterHandler
<1>3. ASSUME TakeInterrupt, CountLag PROVE CpuInv'
  BY <1>3 DEF TakeInterrupt, AtTop, EnterHandler
<1>4. ASSUME AbortInSequence, CountLag PROVE CpuInv'
  BY <1>4 DEF AbortInSequence, AtTop
<1>5. ASSUME FetchAndEvent, CountLag PROVE CpuInv'
  BY <1>5 DEF FetchAndEvent, AtTop
<1>6. ASSUME FetchAbort, CountLag PROVE CpuInv'
  BY <1>6 DEF FetchAbort, AtTop, ctlVars
<1>7. ASSUME Execute, CountLag PROVE CpuInv'
  <2>1. CASE ExecPlain \/ ExecHalt
    BY <1>7, <2>1 DEF ExecPlain, ExecHalt, Executing, ExecutesClear, ctlVars
  <2>2. CASE ExecDeviceAccess \/ ExecControllerWrite
    BY <1>7, <2>2 DEF ExecDeviceAccess, ExecControllerWrite, Executing
  <2>3. CASE ExecSetPriority
    BY <1>7, <2>3 DEF ExecSetPriority, Executing, ctlVars
  <2>4. CASE ExecReset
    BY <1>7, <2>4 DEF ExecReset, Executing
  <2>5. QED
    BY <1>7, <2>1, <2>2, <2>3, <2>4 DEF Execute
<1>8. ASSUME Continue, CountLag PROVE CpuInv'
  BY <1>8 DEF Continue
<1>9. ASSUME ConsoleReset, CountLag PROVE CpuInv'
  <2>1. ~pir4'
    BY <1>9 DEF ConsoleReset, Reset, Update, Deliverable, Presented
  <2>2. ~CalcInts(ipl', pir4') /\ ~trapInt'
    BY <1>9, <2>1 DEF ConsoleReset, CalcInts
  <2>3. simInterval' = 0 \/ simInterval' = simInterval
    BY <1>9, Zenon DEF ConsoleReset
  <2>4. lag' = 0
    BY <1>9, <2>2
  <2>5. simInterval' \in 0 .. Quantum /\ lag' \in Nat /\ LatencyBounded'
    BY <2>3, <2>4
  <2>6. QED
    BY <1>0, <2>2, <2>5, Zenon
<1>10. ASSUME NothingToDo, CountLag PROVE CpuInv'
  BY <1>10 DEF NothingToDo, AtTop, ctlVars
<1>11. ASSUME ExecFloatAbort, floatAbort' = TRUE, CountLag PROVE CpuInv'
  BY <1>11 DEF ExecFloatAbort, Executing, ctlVars
<1>12. CASE UNCHANGED vars
  BY <1>12 DEF vars, cpuVars, ctlVars
<1>13. QED
  BY <1>1, <1>2, <1>3, <1>4, <1>5, <1>6, <1>7, <1>8, <1>9, <1>10, <1>11, <1>12 DEF CpuNext, CpuStep, ConsoleStep

LEMMA CpuInvariant == CpuSpec => []CpuInv
  BY CpuInvInit, CpuInvStep, PTL DEF CpuSpec

(* The cached TRAP_INT never promises an interrupt that is not there or    *)
(* that the priority does not admit.                                       *)
THEOREM TrapIntIsSound == CpuSpec => []TrapIntSound
  BY CpuInvariant, PTL DEF CpuInv

(* An admissible request waits for less than Quantum instructions before   *)
(* the loop knows about it, whatever the guest executes.                   *)
THEOREM LatencyIsBounded == CpuSpec => []LatencyBounded
  BY CpuInvariant, PTL DEF CpuInv
-----------------------------------------------------------------------------
(* The types of the loop's own variables.  lag is bounded by LatencyBounded *)
(* and sim_interval by CpuInv; the others are assigned typed values.       *)
LoopTypes ==
  /\ ipl \in Ipl
  /\ traps \in SUBSET {"instr", "yellow"}
  /\ phase \in {"loop", "exec"}
  /\ trapInt \in BOOLEAN
  /\ running \in BOOLEAN
  /\ floatAbort \in BOOLEAN

LEMMA CalcIntsType == \A p, req : CalcInts(p, req) \in BOOLEAN
  BY DEF CalcInts

LEMMA LoopTypesStep ==
  ASSUME LoopTypes, [CpuNext]_vars
  PROVE  LoopTypes'
<1> USE CalcIntsType DEF LoopTypes
<1>1. ASSUME ServeClockQueue, floatAbort' = FALSE PROVE LoopTypes'
  BY <1>1 DEF ServeClockQueue
<1>2. ASSUME TakeTrap, floatAbort' = FALSE PROVE LoopTypes'
  BY <1>2 DEF TakeTrap, EnterHandler
<1>3. ASSUME TakeInterrupt, floatAbort' = FALSE PROVE LoopTypes'
  BY <1>3 DEF TakeInterrupt, EnterHandler
<1>4. ASSUME NothingToDo \/ AbortInSequence, floatAbort' = FALSE PROVE LoopTypes'
  BY <1>4 DEF NothingToDo, AbortInSequence
<1>5. ASSUME FetchAndEvent \/ FetchAbort, floatAbort' = FALSE PROVE LoopTypes'
  BY <1>5 DEF FetchAndEvent, FetchAbort
<1>6. ASSUME Execute, floatAbort' = FALSE PROVE LoopTypes'
  BY <1>6 DEF Execute, ExecPlain, ExecDeviceAccess, ExecControllerWrite,
              ExecSetPriority, ExecReset, ExecHalt, Executing, TrapAfter
<1>7. ASSUME ExecFloatAbort, floatAbort' = TRUE PROVE LoopTypes'
  BY <1>7 DEF ExecFloatAbort, Executing, TrapAfter
<1>8. ASSUME ConsoleStep PROVE LoopTypes'
  BY <1>8, IplAssumption DEF ConsoleStep, Continue, ConsoleReset
<1>9. CASE UNCHANGED vars
  BY <1>9 DEF vars, cpuVars
<1>10. QED
  BY <1>1, <1>2, <1>3, <1>4, <1>5, <1>6, <1>7, <1>8, <1>9 DEF CpuNext, CpuStep

LEMMA CpuInvTypes ==
  ASSUME TypeOK, LoopTypes, CpuInv
  PROVE  CpuTypeOK
<1>1. lag \in 0 .. Quantum /\ simInterval \in 0 .. Quantum
  BY QuantumAssumption DEF CpuInv, LatencyBounded
<1>2. QED
  BY <1>1, Zenon DEF CpuTypeOK, LoopTypes

(* Every variable keeps its type and TRAP_INT its meaning, for any number  *)
(* of controllers, any priorities and any quantum.                         *)
THEOREM CpuIsSound == CpuSpec => []CpuSound
<1>1. CpuInit => LoopTypes
  BY IplAssumption DEF CpuInit, LoopTypes
<1>2. CpuSpec => []TypeOK
  BY CpuImplementsController, TypeCorrect, PTL DEF ControllerSpec
<1>3. CpuSpec => []LoopTypes
  BY <1>1, LoopTypesStep, PTL DEF CpuSpec
<1>4. TypeOK /\ LoopTypes /\ CpuInv => CpuSound
  BY CpuInvTypes DEF CpuSound, CpuInv
<1>5. QED
  BY <1>2, <1>3, <1>4, CpuInvariant, PTL
=============================================================================
