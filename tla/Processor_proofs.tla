-------------------------- MODULE Processor_proofs ---------------------------
(* Proofs about the registers of the processor, their types, the cached    *)
(* address spaces, and that the copies in REGFILE and STACKFILE implement  *)
(* the banks a program sees; about its arithmetic, for words of any size;  *)
(* and about its instructions: an aborted one can be started again, what   *)
(* short guest programs compute, and that a floating-point instruction     *)
(* that is refused has changed nothing.                                    *)
EXTENDS CpuMode, GuestPrograms, FloatingPoint, WellFoundedInduction, TLAPS

(* Addresses wrap, and the emergency stack is one.                         *)
LEMMA AddressType ==
  /\ RedStack \in Address
  /\ \A v \in Address, n \in Nat : Pop(v, n) \in Address /\ Push(v, n) \in Address
<1>1. ASSUME NEW v \in Int PROVE v % Words \in 0 .. Words - 1
  BY <1>1, WordsAssumption
<1>2. QED
  BY <1>1, WordsAssumption DEF RedStack, Address, Pop, Push

LEMMA ModeType == KERNEL \in Mode /\ SUPER \in Mode
  BY ModeAssumption DEF KERNEL, SUPER, Mode

LEMMA SpaceType ==
  ASSUME NEW m \in Mode, NEW bits
  PROVE  CalcIs(m) \in Mode \X {"I"} /\ CalcDs(m, bits) \in Mode \X {"I", "D"}
  BY DEF CalcIs, CalcDs

LEMMA SwapTypes ==
  ASSUME TypeOK, NEW s \in Set, SwapSets(s)
  PROVE  R' \in RegValue /\ REGFILE' \in [Set -> RegValue]
  BY DEF TypeOK, SwapSets

-----------------------------------------------------------------------------
LEMMA ModeTypesInit == Init => TypeOK
<1>1. 0 \in Set /\ 0 \in Address
  BY WordsAssumption DEF Set, Address
<1>2. QED
  BY <1>1, ModeType, SpaceType DEF Init, TypeOK

LEMMA ModeTypesStep == TypeOK /\ [Next]_vars => TypeOK'
<1> SUFFICES ASSUME TypeOK, [Next]_vars PROVE TypeOK'
  OBVIOUS
<1>1. ASSUME NEW v \in RegValue, LoadReg(v) PROVE TypeOK'
  BY <1>1 DEF LoadReg, TypeOK, psw, files, spaces
<1>2. ASSUME NEW v \in Address, LoadSP(v) PROVE TypeOK'
  BY <1>2 DEF LoadSP, TypeOK, psw, files, spaces
<1>3. ASSUME NEW v \in Address, MoveToPreviousSP(v) PROVE TypeOK'
  BY <1>3, AddressType DEF MoveToPreviousSP, TypeOK, psw, spaces
<1>4. CASE ReadRegister
  BY <1>4 DEF ReadRegister, TypeOK, psw, active, files, spaces
<1>5. ASSUME NEW m \in Mode, NEW s \in Set, Trap(m, s) PROVE TypeOK'
  BY <1>5, AddressType, SwapTypes, SpaceType DEF Trap, SetSpaces, TypeOK
<1>6. CASE TrapPushAbort
  BY <1>6, AddressType, ModeType DEF TrapPushAbort, TypeOK, psw, spaces
<1>7. ASSUME NEW m \in Mode, NEW p \in Mode, NEW s \in Set, ReturnFromInterrupt(m, p, s)
      PROVE  TypeOK'
  <2>1. cm' \in Mode /\ pm' \in Mode
    BY <1>7 DEF ReturnFromInterrupt, TypeOK, Mode
  <2>2. rs' \in Set /\ R' \in RegValue /\ REGFILE' \in [Set -> RegValue]
    BY <1>7, SwapTypes DEF ReturnFromInterrupt, TypeOK, Set
  <2>3. QED
    BY <1>7, <2>1, <2>2, AddressType, SpaceType DEF ReturnFromInterrupt, SetSpaces, TypeOK
<1>8. ASSUME NEW m \in Mode, NEW p \in Mode, NEW s \in Set, WritePSW(m, p, s)
      PROVE  TypeOK'
  BY <1>8, SwapTypes, SpaceType DEF WritePSW, SetSpaces, TypeOK
<1>9. CASE MoveFromPreviousSP
  BY <1>9, AddressType DEF MoveFromPreviousSP, TypeOK, psw, files, spaces
<1>10. CASE CallSupervisorMode
  BY <1>10, AddressType, ModeType, SpaceType DEF CallSupervisorMode, SetSpaces, TypeOK
<1>11. ASSUME NEW bits \in Mmr3Data, WriteMMR3(bits) PROVE TypeOK'
  BY <1>11, Mmr3Assumption, SpaceType DEF WriteMMR3, TypeOK, psw, active, files
<1>12. CASE ResetInstruction
  BY <1>12, SpaceType DEF ResetInstruction, WriteMMR3, TypeOK, psw, active, files
<1>13. CASE Stop
  BY <1>13 DEF Stop, TypeOK, psw, active, spaces
<1>14. CASE Start
  BY <1>14, SpaceType DEF Start, SetSpaces, TypeOK, psw, files
<1>15. CASE Deposit
  BY <1>15 DEF Deposit, TypeOK, psw, active, files, spaces
<1>16. CASE CpuReset
  BY <1>16, ModeType DEF CpuReset, TypeOK, active, files, spaces, Set
<1>17. CASE CallSupervisorAbort
  BY <1>17 DEF CallSupervisorAbort, TypeOK, psw, active, spaces
<1>18. CASE UNCHANGED vars
  BY <1>18 DEF TypeOK, vars, psw, active, files, spaces
<1>19. QED
  BY <1>1, <1>2, <1>3, <1>4, <1>5, <1>6, <1>7, <1>8, <1>9, <1>10, <1>11, <1>12,
     <1>13, <1>14, <1>15, <1>16, <1>17, <1>18 DEF Next

(* The registers, the modes and the cached spaces keep their types.        *)
THEOREM ModeTypeCorrect == Spec => []TypeOK
  BY ModeTypesInit, ModeTypesStep, PTL DEF Spec

-----------------------------------------------------------------------------
(* Each step leaves the flags of the mode it ends in.                      *)
LEMMA SpacesStep == SpacesCurrent /\ [Next]_vars => SpacesCurrent'
<1> SUFFICES ASSUME SpacesCurrent, [Next]_vars PROVE SpacesCurrent'
  OBVIOUS
<1>1. CASE /\ UNCHANGED <<cm, mmr3, isenable, dsenable>>
           /\ UNCHANGED running \/ ~running'
  BY <1>1 DEF SpacesCurrent, CalcIs, CalcDs
<1>2. CASE \E m : SetSpaces(m) /\ cm' = m /\ UNCHANGED mmr3
  BY <1>2 DEF SpacesCurrent, SetSpaces, CalcIs, CalcDs
<1>3. CASE \E bits : WriteMMR3(bits)
  BY <1>3 DEF SpacesCurrent, WriteMMR3, CalcIs, CalcDs, psw
<1>4. CASE ~running'
  BY <1>4 DEF SpacesCurrent
<1>5. ASSUME NEW v \in RegValue, LoadReg(v) PROVE SpacesCurrent'
  BY <1>1, <1>5 DEF LoadReg, psw, spaces
<1>6. ASSUME NEW v \in Address, LoadSP(v) \/ MoveToPreviousSP(v) PROVE SpacesCurrent'
  BY <1>1, <1>6 DEF LoadSP, MoveToPreviousSP, psw, spaces
<1>7. CASE ReadRegister \/ MoveFromPreviousSP \/ CallSupervisorAbort
  BY <1>1, <1>7 DEF ReadRegister, MoveFromPreviousSP, CallSupervisorAbort, psw, spaces
<1>8. ASSUME NEW m \in Mode, NEW p \in Mode, NEW s \in Set,
             Trap(m, s) \/ ReturnFromInterrupt(m, p, s) \/ WritePSW(m, p, s)
      PROVE  SpacesCurrent'
  BY <1>2, <1>8 DEF Trap, ReturnFromInterrupt, WritePSW
<1>9. CASE CallSupervisorMode \/ Start
  BY <1>2, <1>9 DEF CallSupervisorMode, Start, psw
<1>10. CASE TrapPushAbort \/ Stop
  BY <1>4, <1>10 DEF TrapPushAbort, Stop
<1>11. CASE Deposit \/ CpuReset
  BY <1>4, <1>11 DEF Deposit, CpuReset
<1>12. CASE ResetInstruction
  BY <1>3, <1>12 DEF ResetInstruction
<1>13. CASE UNCHANGED vars
  BY <1>1, <1>13 DEF vars, psw, spaces
<1>14. QED
  BY <1>3, <1>5, <1>6, <1>7, <1>8, <1>9, <1>10, <1>11, <1>12, <1>13 DEF Next

(* Instructions are fetched and data accessed in the space of the current  *)
(* mode.                                                                   *)
THEOREM SpacesFollowMode == Spec => []SpacesCurrent
<1>1. Init => SpacesCurrent
  BY DEF Init, SpacesCurrent
<1>2. QED
  BY <1>1, SpacesStep, PTL DEF Spec

(* Both together: what the run checks.                                     *)
THEOREM ModeIsSound == Spec => []ModeSound
  BY ModeTypeCorrect, SpacesFollowMode, PTL DEF ModeSound

-----------------------------------------------------------------------------
(* The two modules mean the same by their modes and addresses.             *)
LEMMA BanksNames ==
  /\ Banks!Mode = Mode /\ Banks!Set = Set /\ Banks!Address = Address
  /\ Banks!KERNEL = KERNEL /\ Banks!SUPER = SUPER /\ Banks!RedStack = RedStack
  /\ \A v, n : Banks!Pop(v, n) = Pop(v, n) /\ Banks!Push(v, n) = Push(v, n)
  BY DEF Banks!Mode, Banks!Set, Banks!Address, Banks!KERNEL, Banks!SUPER, Banks!RedStack,
         Banks!Pop, Banks!Push, Mode, Set, Address, KERNEL, SUPER, RedStack, Pop, Push

LEMMA BanksStart == Init => Banks!BanksInit
<1>1. 0 \in Address
  BY WordsAssumption DEF Address
<1>2. QED
  BY <1>1, BanksNames DEF Init, Banks!BanksInit, AbsRegs, AbsSps

(* Where the program's registers are.                                      *)
LEMMA ActiveBanks ==
  ASSUME TypeOK, running
  PROVE  /\ AbsRegs[rs] = R /\ AbsSps[cm] = SP
         /\ \A s \in Set \ {rs} : AbsRegs[s] = REGFILE[s]
         /\ \A m \in Mode \ {cm} : AbsSps[m] = STACKFILE[m]
  BY DEF AbsRegs, AbsSps, TypeOK

(* A change of set moves registers, and the program does not notice.       *)
LEMMA SwapInvisible ==
  ASSUME TypeOK, running, running', NEW s \in Set, rs' = s, SwapSets(s)
  PROVE  AbsRegs' = AbsRegs
<1>1. ASSUME NEW t \in Set PROVE AbsRegs'[t] = AbsRegs[t]
  BY <1>1 DEF AbsRegs, SwapSets, TypeOK
<1>2. QED
  BY <1>1 DEF AbsRegs

(* A change of mode writes the stack pointer back and loads another.       *)
LEMMA SwitchStack ==
  ASSUME TypeOK, running, running', NEW old \in Address, NEW m \in Mode, cm' = m,
         STACKFILE' = [STACKFILE EXCEPT ![cm] = old], NEW new \in Address, SP' = new
  PROVE  AbsSps' = [[AbsSps EXCEPT ![cm] = old] EXCEPT ![m] = new]
  BY DEF AbsSps, TypeOK

LEMMA LoadRefines ==
  ASSUME TypeOK,
         \/ \E v \in RegValue : LoadReg(v)
         \/ \E v \in Address : LoadSP(v)
         \/ ReadRegister
  PROVE  [Banks!BanksNext]_Banks!bankVars
<1>1. ASSUME NEW v \in RegValue, LoadReg(v) PROVE Banks!WriteReg(v)
  <2>1. AbsRegs' = [AbsRegs EXCEPT ![rs] = v] /\ AbsSps' = AbsSps
    BY <1>1 DEF LoadReg, psw, files, AbsRegs, AbsSps, TypeOK
  <2>2. QED
    BY <1>1, <2>1 DEF LoadReg, psw, Banks!WriteReg
<1>2. ASSUME NEW v \in Address, LoadSP(v) PROVE Banks!WriteStack(v)
  <2>1. AbsSps' = [AbsSps EXCEPT ![cm] = v] /\ AbsRegs' = AbsRegs
    BY <1>2 DEF LoadSP, psw, files, AbsRegs, AbsSps, TypeOK
  <2>2. QED
    BY <1>2, <2>1 DEF LoadSP, psw, Banks!WriteStack
<1>3. ASSUME ReadRegister PROVE Banks!See(AbsRegs[rs]) \/ Banks!See(AbsSps[cm])
  <2>1. AbsRegs' = AbsRegs /\ AbsSps' = AbsSps
    BY <1>3 DEF ReadRegister, psw, active, files, AbsRegs, AbsSps
  <2>2. QED
    BY <1>3, <2>1, ActiveBanks DEF ReadRegister, psw, Banks!See
<1>4. QED
  BY <1>1, <1>2, <1>3, BanksNames DEF Banks!BanksNext

LEMMA TrapRefines ==
  ASSUME TypeOK,
         (\E m \in Mode, s \in Set : Trap(m, s)) \/ TrapPushAbort
  PROVE  [Banks!BanksNext]_Banks!bankVars
<1>1. ASSUME NEW m \in Mode, NEW s \in Set, Trap(m, s) PROVE Banks!EnterTrap(m, s)
  <2>1. AbsRegs' = AbsRegs
    BY <1>1, SwapInvisible DEF Trap
  <2>2. [STACKFILE EXCEPT ![cm] = SP][m] = AbsSps[m] /\ AbsSps[m] \in Address
    BY <1>1 DEF Trap, AbsSps, TypeOK
  <2>3. AbsSps' = [AbsSps EXCEPT ![m] = Push(AbsSps[m], 2)]
    <3>1. SP \in Address /\ Push(AbsSps[m], 2) \in Address
      BY <2>2, AddressType DEF TypeOK
    <3>2. AbsSps' = [[AbsSps EXCEPT ![cm] = SP] EXCEPT ![m] = Push(AbsSps[m], 2)]
      BY <1>1, <2>2, <3>1, SwitchStack DEF Trap
    <3>3. [AbsSps EXCEPT ![cm] = SP] = AbsSps
      BY <1>1 DEF Trap, AbsSps, TypeOK
    <3>4. QED
      BY <3>2, <3>3
  <2>4. QED
    BY <1>1, <2>1, <2>3, BanksNames DEF Trap, Banks!EnterTrap
<1>2. ASSUME TrapPushAbort PROVE Banks!RedStackAbort
  <2>1. AbsRegs' = AbsRegs
    BY <1>2 DEF TrapPushAbort, psw, AbsRegs, TypeOK
  <2>2. AbsSps' = [AbsSps EXCEPT ![KERNEL] = RedStack]
    BY <1>2, ModeType, AddressType DEF TrapPushAbort, psw, AbsSps, TypeOK
  <2>3. QED
    BY <1>2, <2>1, <2>2, BanksNames DEF TrapPushAbort, psw, Banks!RedStackAbort
<1>3. QED
  BY <1>1, <1>2, BanksNames DEF Banks!BanksNext

LEMMA ReturnRefines ==
  ASSUME TypeOK, NEW m \in Mode, NEW p \in Mode, NEW s \in Set, ReturnFromInterrupt(m, p, s)
  PROVE  Banks!ReturnFromTrap(m, p, s)
<1>1. rs' \in Set
  BY DEF ReturnFromInterrupt, TypeOK, Set
<1>2. AbsRegs' = AbsRegs
  BY <1>1, SwapInvisible DEF ReturnFromInterrupt
<1>3. AbsSps' = [AbsSps EXCEPT ![cm] = Pop(AbsSps[cm], 2)]
  <2>1. Pop(SP, 2) \in Address /\ AbsSps[cm] = SP
    BY AddressType, ActiveBanks DEF ReturnFromInterrupt, TypeOK
  <2>2. cm' \in Mode
    BY DEF ReturnFromInterrupt, TypeOK, Mode
  <2>3. SP' = [STACKFILE EXCEPT ![cm] = Pop(SP, 2)][cm'] /\ SP' \in Address
    BY <2>1, <2>2 DEF ReturnFromInterrupt, TypeOK
  <2>4. AbsSps' = [[AbsSps EXCEPT ![cm] = Pop(SP, 2)] EXCEPT ![cm'] = SP']
    BY <2>1, <2>2, <2>3, SwitchStack DEF ReturnFromInterrupt
  <2>5. [AbsSps EXCEPT ![cm] = Pop(SP, 2)][cm'] = SP'
    BY <2>1, <2>2, <2>3 DEF ReturnFromInterrupt, AbsSps, TypeOK
  <2>6. QED
    BY <2>1, <2>2, <2>4, <2>5 DEF AbsSps
<1>4. QED
  BY <1>2, <1>3, BanksNames DEF ReturnFromInterrupt, Banks!ReturnFromTrap

LEMMA WritePSWRefines ==
  ASSUME TypeOK, NEW m \in Mode, NEW p \in Mode, NEW s \in Set, WritePSW(m, p, s)
  PROVE  Banks!SetPSW(m, p, s)
<1>1. AbsRegs' = AbsRegs
  BY SwapInvisible DEF WritePSW
<1>2. AbsSps' = AbsSps
  <2>1. SP' = [STACKFILE EXCEPT ![cm] = SP][m] /\ SP' \in Address /\ SP \in Address
    BY DEF WritePSW, TypeOK
  <2>2. AbsSps' = [[AbsSps EXCEPT ![cm] = SP] EXCEPT ![m] = SP']
    BY <2>1, SwitchStack DEF WritePSW
  <2>3. [AbsSps EXCEPT ![cm] = SP] = AbsSps /\ AbsSps[m] = SP'
    BY <2>1 DEF WritePSW, AbsSps, TypeOK
  <2>4. QED
    BY <2>2, <2>3 DEF AbsSps
<1>3. QED
  BY <1>1, <1>2 DEF WritePSW, Banks!SetPSW

LEMMA PreviousRefines ==
  ASSUME TypeOK, MoveFromPreviousSP \/ \E v \in Address : MoveToPreviousSP(v)
  PROVE  [Banks!BanksNext]_Banks!bankVars
<1>1. ASSUME MoveFromPreviousSP PROVE Banks!MoveFromPrevious
  <2>1. AbsRegs' = AbsRegs /\ out' = AbsSps[pm]
    BY <1>1 DEF MoveFromPreviousSP, psw, files, AbsRegs, AbsSps, TypeOK
  <2>2. AbsSps' = [AbsSps EXCEPT ![cm] = Push(AbsSps[cm], 1)]
    BY <1>1, ActiveBanks DEF MoveFromPreviousSP, psw, files, AbsSps, TypeOK
  <2>3. QED
    BY <1>1, <2>1, <2>2, BanksNames DEF MoveFromPreviousSP, psw, Banks!MoveFromPrevious
<1>2. ASSUME NEW v \in Address, MoveToPreviousSP(v) PROVE Banks!MoveToPrevious(v)
  <2>1. AbsRegs' = AbsRegs
    BY <1>2 DEF MoveToPreviousSP, psw, AbsRegs, TypeOK
  <2>2. AbsSps' = [m \in Mode |-> IF m = pm THEN v
                                  ELSE IF m = cm THEN Pop(AbsSps[m], 1) ELSE AbsSps[m]]
    <3>1. AbsSps[cm] = SP
      BY <1>2, ActiveBanks DEF MoveToPreviousSP
    <3>2. ASSUME NEW m \in Mode
          PROVE  AbsSps'[m] = IF m = pm THEN v
                              ELSE IF m = cm THEN Pop(AbsSps[m], 1) ELSE AbsSps[m]
      BY <1>2, <3>1, <3>2 DEF MoveToPreviousSP, psw, AbsSps, TypeOK
    <3>3. QED
      BY <3>2 DEF AbsSps
  <2>3. QED
    BY <1>2, <2>1, <2>2, BanksNames DEF MoveToPreviousSP, psw, Banks!MoveToPrevious
<1>3. QED
  BY <1>1, <1>2, BanksNames DEF Banks!BanksNext

LEMMA CallRefines ==
  ASSUME TypeOK, CallSupervisorMode
  PROVE  Banks!CallSupervisor
<1>1. AbsRegs' = AbsRegs /\ AbsSps[cm] = SP
  BY ActiveBanks DEF CallSupervisorMode, AbsRegs
<1>2. AbsSps' = [AbsSps EXCEPT ![SUPER] = Push(SP, 3)]
  <2>1. Push(SP, 3) \in Address /\ SP \in Address /\ SUPER \in Mode
    BY AddressType, ModeType DEF TypeOK
  <2>2. AbsSps' = [[AbsSps EXCEPT ![cm] = SP] EXCEPT ![SUPER] = Push(SP, 3)]
    BY <2>1, SwitchStack DEF CallSupervisorMode
  <2>3. [AbsSps EXCEPT ![cm] = SP] = AbsSps
    BY <1>1 DEF AbsSps
  <2>4. QED
    BY <2>2, <2>3
<1>3. QED
  BY <1>1, <1>2, BanksNames DEF CallSupervisorMode, Banks!CallSupervisor

(* Steps that move registers between their places and steps that concern   *)
(* something else leave the banks alone.                                   *)
LEMMA StutterRefines ==
  ASSUME TypeOK,
         \/ \E bits \in Mmr3Data : WriteMMR3(bits)
         \/ ResetInstruction \/ CallSupervisorAbort \/ Stop \/ Start \/ UNCHANGED vars
  PROVE  UNCHANGED Banks!bankVars
<1>1. ASSUME UNCHANGED <<psw, active, files, out, running>> PROVE UNCHANGED Banks!bankVars
  BY <1>1 DEF psw, active, files, AbsRegs, AbsSps, Banks!bankVars
<1>2. ASSUME NEW bits, WriteMMR3(bits) PROVE UNCHANGED Banks!bankVars
  BY <1>1, <1>2 DEF WriteMMR3
<1>3. ASSUME Stop PROVE UNCHANGED Banks!bankVars
  <2>1. AbsRegs' = AbsRegs /\ AbsSps' = AbsSps
    BY <1>3 DEF Stop, psw, AbsRegs, AbsSps, TypeOK
  <2>2. QED
    BY <1>3, <2>1 DEF Stop, psw, Banks!bankVars
<1>4. ASSUME Start PROVE UNCHANGED Banks!bankVars
  <2>1. AbsRegs' = AbsRegs /\ AbsSps' = AbsSps
    BY <1>4 DEF Start, psw, files, AbsRegs, AbsSps, TypeOK
  <2>2. QED
    BY <1>4, <2>1 DEF Start, psw, Banks!bankVars
<1>5. ASSUME CallSupervisorAbort PROVE UNCHANGED Banks!bankVars
  <2>1. AbsRegs' = AbsRegs /\ AbsSps' = AbsSps
    BY <1>5 DEF CallSupervisorAbort, psw, active, AbsRegs, AbsSps, TypeOK
  <2>2. QED
    BY <1>5, <2>1 DEF CallSupervisorAbort, psw, active, Banks!bankVars
<1>6. QED
  BY <1>1, <1>2, <1>3, <1>4, <1>5 DEF ResetInstruction, vars

LEMMA ConsoleRefines ==
  ASSUME TypeOK, Deposit \/ CpuReset
  PROVE  [Banks!BanksNext]_Banks!bankVars
<1>1. ASSUME UNCHANGED <<files, out, running>>, ~running, cm' \in Mode, pm' \in Mode, rs' \in Set
      PROVE  Banks!SetPSW(cm', pm', rs')
  BY <1>1 DEF files, AbsRegs, AbsSps, Banks!SetPSW
<1>2. ASSUME NEW s \in Set, NEW v \in RegValue, ~running, UNCHANGED <<psw, STACKFILE, out, running>>,
             REGFILE' = [REGFILE EXCEPT ![s] = v]
      PROVE  Banks!DepositReg(s, v)
  BY <1>2 DEF psw, AbsRegs, AbsSps, TypeOK, Banks!DepositReg
<1>3. ASSUME NEW m \in Mode, NEW v \in Address, ~running, UNCHANGED <<psw, REGFILE, out, running>>,
             STACKFILE' = [STACKFILE EXCEPT ![m] = v]
      PROVE  Banks!DepositStack(m, v)
  BY <1>3 DEF psw, AbsRegs, AbsSps, TypeOK, Banks!DepositStack
<1>4. QED
  <2>1. CASE CpuReset
    BY <1>1, <2>1, ModeType, BanksNames DEF CpuReset, Set, Banks!BanksNext
  <2>2. CASE Deposit
    BY <1>1, <1>2, <1>3, <2>2, BanksNames DEF Deposit, Banks!BanksNext
  <2>3. QED
    BY <2>1, <2>2

LEMMA BanksStep == TypeOK /\ [Next]_vars => [Banks!BanksNext]_Banks!bankVars
<1> SUFFICES ASSUME TypeOK, [Next]_vars PROVE [Banks!BanksNext]_Banks!bankVars
  OBVIOUS
<1>1. ASSUME NEW m \in Mode, NEW p \in Mode, NEW s \in Set,
             ReturnFromInterrupt(m, p, s) \/ WritePSW(m, p, s)
      PROVE  Banks!BanksNext
  BY <1>1, ReturnRefines, WritePSWRefines, BanksNames DEF Banks!BanksNext
<1>2. CASE CallSupervisorMode
  BY <1>2, CallRefines DEF Banks!BanksNext
<1>3. QED
  BY <1>1, <1>2, LoadRefines, TrapRefines, PreviousRefines, StutterRefines, ConsoleRefines DEF Next

(* REGFILE and STACKFILE with their copies implement the register banks a  *)
(* program sees.                                                           *)
THEOREM BanksImplemented == Spec => ImplementsBanks
  BY BanksStart, BanksStep, ModeTypesInit, ModeTypesStep, PTL
     DEF Spec, ImplementsBanks, Banks!BanksSpec

-----------------------------------------------------------------------------
(* For operands of any even size s, the formulas on signs that the code    *)
(* uses say what they should of integers.                                  *)
Operand(s) == 0 .. s - 1
SignedRange(s, x) == -Half(s) <= x /\ x < Half(s)

(* After CMP, C is the unsigned order, Z equality, and N exclusive-or V    *)
(* the signed order, also when the difference overflows: what BLO, BEQ and *)
(* BLT of the branch cases rest on.                                        *)
THEOREM CompareDecides ==
  ASSUME NEW h \in Nat \ {0}, NEW cc,
         NEW x \in Operand(2 * h), NEW y \in Operand(2 * h)
  PROVE  LET g == Cmp(2 * h, x, y, cc).f
         IN  /\ g.c <=> x < y
             /\ g.z <=> x = y
             /\ (g.n # g.v) <=> Signed(2 * h, x) < Signed(2 * h, y)
<1> DEFINE s == 2 * h
           d == Wrap(s, x - y)
<1>1. Half(s) = h
  BY DEF Half
<1>2. d = IF x < y THEN x - y + s ELSE x - y
  BY DEF Wrap, Operand
<1>3. d \in Operand(s) /\ (d = 0 <=> x = y)
  BY <1>2 DEF Operand
<1>4. ((d >= h) # ((x >= h) # (y >= h) /\ (y >= h) = (d >= h)))
        <=> (IF x >= h THEN x - s ELSE x) < (IF y >= h THEN y - s ELSE y)
  BY <1>2 DEF Operand
<1>5. QED
  BY <1>1, <1>3, <1>4 DEF Cmp, Result, Flags, Sign, Signed

(* The same after SUB, which has its operands the other way round.         *)
THEOREM SubtractDecides ==
  ASSUME NEW h \in Nat \ {0}, NEW cc,
         NEW x \in Operand(2 * h), NEW y \in Operand(2 * h)
  PROVE  LET g == Sub(2 * h, y, x, cc).f
         IN  /\ g.c <=> x < y
             /\ g.z <=> x = y
             /\ (g.n # g.v) <=> Signed(2 * h, x) < Signed(2 * h, y)
<1> DEFINE s == 2 * h
           d == Wrap(s, x - y)
<1>1. Half(s) = h
  BY DEF Half
<1>2. d = IF x < y THEN x - y + s ELSE x - y
  BY DEF Wrap, Operand
<1>3. d \in Operand(s) /\ (d = 0 <=> x = y)
  BY <1>2 DEF Operand
<1>4. ((d >= h) # ((y >= h) # (x >= h) /\ (y >= h) = (d >= h)))
        <=> (IF x >= h THEN x - s ELSE x) < (IF y >= h THEN y - s ELSE y)
  BY <1>2 DEF Operand
<1>5. QED
  BY <1>1, <1>3, <1>4 DEF Sub, Result, Flags, Sign, Signed

(* ADD leaves in C the carry out, so that the result and C together are    *)
(* the sum, and in V whether the signed sum fits.                          *)
THEOREM AddIsExact ==
  ASSUME NEW h \in Nat \ {0}, NEW cc,
         NEW x \in Operand(2 * h), NEW y \in Operand(2 * h)
  PROVE  LET g == Add(2 * h, x, y, cc)
         IN  /\ g.d \in Operand(2 * h)
             /\ x + y = g.d + 2 * h * OneIf(g.f.c)
             /\ g.f.v <=> ~SignedRange(2 * h, Signed(2 * h, x) + Signed(2 * h, y))
<1> DEFINE s == 2 * h
           d == Wrap(s, y + x)
<1>1. Half(s) = h
  BY DEF Half
<1>2. d = IF x + y >= s THEN x + y - s ELSE x + y
  BY DEF Wrap, Operand
<1>3. d \in Operand(s) /\ (d < x <=> x + y >= s)
  BY <1>2 DEF Operand
<1>4. x + y = d + s * OneIf(d < x)
  <2>1. CASE d < x
    BY <1>2, <1>3, <2>1 DEF OneIf, Operand
  <2>2. CASE ~(d < x)
    BY <1>2, <1>3, <2>2 DEF OneIf, Operand
  <2>3. QED
    BY <2>1, <2>2
<1>5. ((x >= h) = (y >= h) /\ (x >= h) # (d >= h))
        <=> LET t == (IF x >= h THEN x - s ELSE x) + (IF y >= h THEN y - s ELSE y)
            IN  ~(-h <= t /\ t < h)
  BY <1>2 DEF Operand
<1>6. QED
  BY <1>1, <1>3, <1>4, <1>5 DEF Add, Result, Flags, Sign, Signed, SignedRange

(* ADC adds the carry and passes it on exactly.                            *)
LEMMA AdcIsExact ==
  ASSUME NEW h \in Nat \ {0}, NEW cc, NEW x \in Operand(2 * h)
  PROVE  LET g == Adc(2 * h, x, cc)
         IN  /\ g.d \in Operand(2 * h)
             /\ x + OneIf(cc.c) = g.d + 2 * h * OneIf(g.f.c)
<1> DEFINE s == 2 * h
           d == Wrap(s, x + OneIf(cc.c))
<1>1. CASE cc.c
  <2>1. d = IF x + 1 = s THEN 0 ELSE x + 1
    BY <1>1 DEF Wrap, Operand, OneIf
  <2>2. d \in Operand(s) /\ x + 1 = d + s * OneIf(d = 0)
    <3>1. CASE x + 1 = s
      BY <2>1, <3>1 DEF Operand, OneIf
    <3>2. CASE x + 1 # s
      BY <2>1, <3>2 DEF Operand, OneIf
    <3>3. QED
      BY <3>1, <3>2
  <2>3. QED
    BY <1>1, <2>2 DEF Adc, Result, Flags, OneIf
<1>2. CASE ~cc.c
  <2>1. d = x
    BY <1>2 DEF Wrap, Operand, OneIf
  <2>2. OneIf(cc.c) = 0 /\ OneIf(cc.c /\ d = 0) = 0
    BY <1>2 DEF OneIf
  <2>3. d \in Operand(s) /\ x + OneIf(cc.c) = d + s * OneIf(cc.c /\ d = 0)
    BY <2>1, <2>2 DEF Operand
  <2>4. QED
    BY <2>3 DEF Adc, Result, Flags
<1>3. QED
  BY <1>1, <1>2

(* Addition of two numbers of two words, as compilers do it: ADD of the    *)
(* low words, ADC, ADD of the high words is the sum modulo the square of   *)
(* the word, for every word size: the carry is passed exactly.             *)
THEOREM DoubleAddIsExact ==
  ASSUME NEW h \in Nat \ {0}, NEW cc,
         NEW a \in Operand(2 * h), NEW b \in Operand(2 * h),
         NEW c \in Operand(2 * h), NEW e \in Operand(2 * h)
  PROVE  LET s == 2 * h
             low == Add(s, b, e, cc)
             mid == Adc(s, c, low.f)
             high == Add(s, a, mid.d, mid.f)
         IN  \E carry \in 0 .. 2 :
               (a * s + b) + (c * s + e) = (high.d * s + low.d) + carry * (s * s)
<1> DEFINE s == 2 * h
           low == Add(s, b, e, cc)
           mid == Adc(s, c, low.f)
           high == Add(s, a, mid.d, mid.f)
           k1 == OneIf(low.f.c)
           k2 == OneIf(mid.f.c)
           k3 == OneIf(high.f.c)
<1>1. low.d \in Operand(s) /\ b + e = low.d + s * k1
  BY AddIsExact
<1>2. mid.d \in Operand(s) /\ c + k1 = mid.d + s * k2
  BY AdcIsExact
<1>3. high.d \in Operand(s) /\ a + mid.d = high.d + s * k3
  BY <1>2, AddIsExact
<1>4. k1 \in 0 .. 1 /\ k2 \in 0 .. 1 /\ k3 \in 0 .. 1
  BY DEF OneIf
<1> HIDE DEF low, mid, high, k1, k2, k3
<1>5. (a * s + b) + (c * s + e) = (high.d * s + low.d) + (k2 + k3) * (s * s)
  <2>1. b + e = low.d + s * k1 /\ c + k1 = mid.d + s * k2 /\ a + mid.d = high.d + s * k3
    BY <1>1, <1>2, <1>3
  <2>2. /\ s \in Int /\ k1 \in Int /\ k2 \in Int /\ k3 \in Int /\ a \in Int /\ b \in Int
        /\ c \in Int /\ e \in Int /\ low.d \in Int /\ mid.d \in Int /\ high.d \in Int
    BY <1>1, <1>2, <1>3, <1>4 DEF Operand
  <2> DEFINE l == low.d
             m == mid.d
             g == high.d
  <2>3. l \in Int /\ m \in Int /\ g \in Int
    BY <2>2
  <2>4. b + e = l + s * k1 /\ c + k1 = m + s * k2 /\ a + m = g + s * k3
    BY <2>1
  <2> HIDE DEF s, l, m, g
  <2>5. a + c = (g + s * (k2 + k3)) - k1
    BY <2>2, <2>3, <2>4
  <2>6. a * s + c * s = ((g + s * (k2 + k3)) - k1) * s
    BY <2>2, <2>3, <2>5
  <2>7. ((g + s * (k2 + k3)) - k1) * s = (g * s + (k2 + k3) * (s * s)) - s * k1
    BY <2>2, <2>3
  <2>8. (a * s + b) + (c * s + e) = (g * s + l) + (k2 + k3) * (s * s)
    BY <2>2, <2>3, <2>4, <2>6, <2>7
  <2>9. QED
    BY <2>8 DEF l, g
<1>6. k2 + k3 \in 0 .. 2
  BY <1>4
<1>7. QED
  BY <1>5, <1>6 DEF low, high, mid


-----------------------------------------------------------------------------
(* Induction, from the least element of a set of natural numbers.          *)
Below == {ss \in Nat \X Nat : ss[1] < ss[2]}

LEMMA Induction ==
  ASSUME NEW T \in SUBSET Nat, 0 \in T, \A n \in T : n + 1 \in T
  PROVE  T = Nat
<1> SUFFICES ASSUME Nat \ T # {} PROVE FALSE
  OBVIOUS
<1>1. IsWellFoundedOn(Below, Nat)
  BY NatLessThanWellFounded DEF OpToRel, Below
<1>2. PICK x \in Nat \ T : \A y \in Nat \ T : ~(<<y, x>> \in Below)
  BY <1>1, WFMin
<1>3. x - 1 \in Nat /\ <<x - 1, x>> \in Below
  BY <1>2 DEF Below
<1>4. x - 1 \in T
  BY <1>2, <1>3
<1>5. QED
  BY <1>2, <1>4

(* A loop: what a value has become after each of n steps.                  *)
Steps(g, x, step, n) == \A i \in 0 .. n : g[i] = IF i = 0 THEN x ELSE step[<<i, g[i - 1]>>]

LEMMA Iteration ==
  ASSUME NEW S, NEW x \in S, NEW step \in [Nat \X S -> S], NEW n \in Nat
  PROVE  \E g \in [0 .. n -> S] : Steps(g, x, step, n)
<1> DEFINE T == {m \in Nat : \E g \in [0 .. m -> S] : Steps(g, x, step, m)}
<1>1. 0 \in T
  <2> DEFINE g == [i \in 0 .. 0 |-> x]
  <2>1. g \in [0 .. 0 -> S] /\ Steps(g, x, step, 0)
    BY DEF Steps
  <2>2. QED
    BY <2>1
<1>2. ASSUME NEW m \in T PROVE m + 1 \in T
  <2>1. PICK g \in [0 .. m -> S] : Steps(g, x, step, m)
    OBVIOUS
  <2> DEFINE h == [i \in 0 .. m + 1 |-> IF i = m + 1 THEN step[<<m + 1, g[m]>>] ELSE g[i]]
  <2>0. m \in Nat /\ m \in 0 .. m /\ m + 1 \in Nat
    OBVIOUS
  <2>2. g[m] \in S /\ step[<<m + 1, g[m]>>] \in S
    BY <2>0
  <2>3. h \in [0 .. m + 1 -> S]
    BY <2>2
  <2>4. ASSUME NEW i \in 0 .. m + 1 PROVE h[i] = IF i = 0 THEN x ELSE step[<<i, h[i - 1]>>]
    <3>1. CASE i = m + 1
      <4>1. i # 0 /\ i - 1 = m /\ h[m] = g[m] /\ h[i] = step[<<m + 1, g[m]>>]
        BY <2>0, <3>1
      <4>2. QED
        BY <3>1, <4>1
    <3>2. CASE i \in 0 .. m
      <4>1. i # m + 1 /\ h[i] = g[i] /\ (i # 0 => i - 1 \in 0 .. m /\ h[i - 1] = g[i - 1])
        BY <2>0, <3>2
      <4>2. g[i] = IF i = 0 THEN x ELSE step[<<i, g[i - 1]>>]
        BY <2>1, <3>2 DEF Steps
      <4>3. QED
        BY <4>1, <4>2
    <3>3. QED
      BY <2>0, <3>1, <3>2
  <2> HIDE DEF h
  <2>5. Steps(h, x, step, m + 1)
    BY <2>4 DEF Steps
  <2>6. QED
    BY <2>0, <2>3, <2>5
<1> HIDE DEF T
<1>3. T = Nat
  <2>1. T \in SUBSET Nat
    BY DEF T
  <2>2. QED
    BY <1>1, <1>2, <2>1, Induction
<1>4. QED
  BY <1>3 DEF T

-----------------------------------------------------------------------------
(* Powers of two.                                                          *)
Power(n) == n \in 0 .. IntBits

LEMMA BitCounts ==
  /\ ByteBits \in Nat /\ ByteBits > 0 /\ WordBits = ByteBits + ByteBits
  /\ WordBits \in Nat /\ IntBits = WordBits + WordBits /\ IntBits \in Nat
  /\ Power(ByteBits) /\ Power(WordBits)
  BY ByteBitsAssumption DEF WordBits, IntBits, Power

LEMMA Doubling ==
  /\ TwoTo[0] = 1
  /\ \A n : Power(n) => TwoTo[n] \in Nat /\ (n # 0 => TwoTo[n] = 2 * TwoTo[n - 1])
<1> DEFINE Good(g) == g = [n \in 0 .. IntBits |-> IF n = 0 THEN 1 ELSE 2 * g[n - 1]]
           T == {n \in Nat : Power(n) => TwoTo[n] \in Nat}
<1>1. \E g : Good(g)
  <2> DEFINE step == [is \in Nat \X Nat |-> 2 * is[2]]
  <2>1. step \in [Nat \X Nat -> Nat]
    OBVIOUS
  <2>2. PICK g \in [0 .. IntBits -> Nat] : Steps(g, 1, step, IntBits)
    <3> HIDE DEF step
    <3>1. QED
      BY <2>1, Iteration, BitCounts
  <2>3. ASSUME NEW i \in 0 .. IntBits PROVE g[i] = IF i = 0 THEN 1 ELSE 2 * g[i - 1]
    <3>1. i # 0 => i - 1 \in 0 .. IntBits /\ i \in Nat /\ g[i - 1] \in Nat
      BY BitCounts
    <3>2. i # 0 => step[<<i, g[i - 1]>>] = 2 * g[i - 1]
      BY <3>1
    <3>3. g[i] = IF i = 0 THEN 1 ELSE step[<<i, g[i - 1]>>]
      BY <2>2 DEF Steps
    <3>4. QED
      BY <3>2, <3>3
  <2>4. QED
    BY <2>3
<1>2. TwoTo = CHOOSE g : Good(g)
  BY DEF TwoTo
<1>3. Good(TwoTo)
  BY <1>1, <1>2
<1> HIDE DEF T
<1>4. \A n \in 0 .. IntBits : TwoTo[n] = IF n = 0 THEN 1 ELSE 2 * TwoTo[n - 1]
  BY <1>3
<1> HIDE DEF Good
<1>5. 0 \in T
  BY <1>4, BitCounts DEF T
<1>6. ASSUME NEW n \in T PROVE n + 1 \in T
  <2>1. n \in Nat /\ (Power(n + 1) => Power(n) /\ n + 1 # 0 /\ (n + 1) - 1 = n)
    BY BitCounts DEF T, Power
  <2>2. Power(n + 1) => TwoTo[n + 1] = 2 * TwoTo[n] /\ TwoTo[n] \in Nat
    BY <1>4, <2>1 DEF T, Power
  <2>3. QED
    BY <2>1, <2>2 DEF T
<1>7. T = Nat
  <2>1. T \in SUBSET Nat
    BY DEF T
  <2>2. QED
    BY <1>5, <1>6, <2>1, Induction
<1>8. QED
  BY <1>4, <1>7, BitCounts DEF T, Power

LEMMA PowerOfSum ==
  ASSUME NEW a \in Nat, NEW b \in Nat, Power(a + b)
  PROVE  TwoTo[a + b] = TwoTo[a] * TwoTo[b]
<1> DEFINE T == {n \in Nat : Power(a + n) => TwoTo[a + n] = TwoTo[a] * TwoTo[n]}
<1>1. 0 \in T
  <2>1. Power(a + 0) => TwoTo[a] \in Nat
    BY Doubling DEF Power
  <2>2. QED
    BY <2>1, Doubling
<1>2. ASSUME NEW n \in T PROVE n + 1 \in T
  <2> SUFFICES ASSUME Power(a + (n + 1)) PROVE TwoTo[a + (n + 1)] = TwoTo[a] * TwoTo[n + 1]
    OBVIOUS
  <2>1. /\ n \in Nat /\ Power(a + n) /\ Power(n + 1) /\ Power(n) /\ Power(a)
        /\ a + (n + 1) # 0 /\ (a + (n + 1)) - 1 = a + n /\ n + 1 # 0 /\ (n + 1) - 1 = n
    BY BitCounts DEF Power
  <2>2. TwoTo[a + (n + 1)] = 2 * TwoTo[a + n] /\ TwoTo[n + 1] = 2 * TwoTo[n]
    BY <2>1, Doubling
  <2>3. TwoTo[a] \in Nat /\ TwoTo[n] \in Nat
    BY <2>1, Doubling
  <2>4. \A x, y \in Nat : 2 * (x * y) = x * (2 * y)
    OBVIOUS
  <2>5. TwoTo[a + n] = TwoTo[a] * TwoTo[n]
    BY <2>1
  <2>6. QED
    BY <2>2, <2>3, <2>4, <2>5
<1> HIDE DEF T
<1>3. T = Nat
  <2>1. T \in SUBSET Nat
    BY DEF T
  <2>2. QED
    BY <1>1, <1>2, <2>1, Induction
<1>4. QED
  BY <1>3 DEF T

LEMMA Positive == ASSUME NEW n, Power(n) PROVE TwoTo[n] \in Nat \ {0}
<1> DEFINE T == {i \in Nat : Power(i) => TwoTo[i] # 0}
<1>1. 0 \in T
  BY Doubling
<1>2. ASSUME NEW i \in T PROVE i + 1 \in T
  <2>1. i \in Nat /\ (Power(i + 1) => Power(i) /\ i + 1 # 0 /\ (i + 1) - 1 = i)
    BY BitCounts DEF Power
  <2>2. Power(i + 1) => TwoTo[i + 1] = 2 * TwoTo[i] /\ TwoTo[i] \in Nat /\ TwoTo[i] # 0
    BY <2>1, Doubling
  <2>3. QED
    BY <2>1, <2>2
<1> HIDE DEF T
<1>3. T = Nat
  <2>1. T \in SUBSET Nat
    BY DEF T
  <2>2. QED
    BY <1>1, <1>2, <2>1, Induction
<1>4. n \in T
  BY <1>3 DEF Power
<1>5. QED
  BY <1>4, Doubling DEF T

LEMMA Sizes ==
  /\ ByteSize \in Nat /\ ByteSize > 1 /\ \E h \in Nat \ {0} : ByteSize = 2 * h
  /\ WordSize \in Nat /\ WordSize > 3 /\ \E h \in Nat \ {0} : WordSize = 2 * h
  /\ WordSize = ByteSize * ByteSize /\ WordSize >= 2 * ByteSize
<1>1. /\ Power(ByteBits - 1) /\ Power(WordBits - 1) /\ ByteBits # 0 /\ WordBits # 0
      /\ Power(ByteBits + ByteBits)
  BY BitCounts DEF Power
<1>2. ByteSize = 2 * TwoTo[ByteBits - 1] /\ WordSize = 2 * TwoTo[WordBits - 1]
  BY <1>1, BitCounts, Doubling DEF ByteSize, WordSize
<1>3. WordSize = ByteSize * ByteSize
  BY <1>1, BitCounts, PowerOfSum DEF ByteSize, WordSize
<1>4. TwoTo[ByteBits - 1] \in Nat \ {0} /\ TwoTo[WordBits - 1] \in Nat \ {0}
  BY <1>1, Positive
<1>5. \A x \in Nat \ {0} : (2 * x) * (2 * x) >= 2 * (2 * x) /\ 2 * x > 1 /\ 2 * (2 * x) > 3
  OBVIOUS
<1>6. QED
  BY <1>2, <1>3, <1>4, <1>5

-----------------------------------------------------------------------------
(* Bits.                                                                   *)
LEMMA PowersGrow ==
  ASSUME NEW n \in Nat, NEW i \in Nat, n <= i, Power(i)
  PROVE  TwoTo[n] <= TwoTo[i]
<1>1. i - n \in Nat /\ n + (i - n) = i /\ Power(n) /\ Power(i - n)
  BY BitCounts DEF Power
<1>2. TwoTo[i] = TwoTo[n] * TwoTo[i - n]
  BY <1>1, PowerOfSum
<1>3. TwoTo[n] \in Nat \ {0} /\ TwoTo[i - n] \in Nat \ {0}
  BY <1>1, Positive
<1>4. \A x, y \in Nat \ {0} : x <= x * y
  OBVIOUS
<1>5. QED
  BY <1>2, <1>3, <1>4

LEMMA BitsBelow ==
  ASSUME NEW n \in 0 .. WordBits, NEW x \in Operand(TwoTo[n])
  PROVE  Bits(x) \subseteq 0 .. n - 1
<1> SUFFICES ASSUME NEW i \in Bits(x), i >= n PROVE FALSE
  BY BitCounts DEF Bits
<1>1. i \in Nat /\ Power(i) /\ Odd(x \div TwoTo[i]) /\ n \in Nat /\ Power(n)
  BY BitCounts DEF Bits, Power
<1>2. TwoTo[n] <= TwoTo[i] /\ TwoTo[i] \in Nat \ {0} /\ TwoTo[n] \in Nat \ {0}
  BY <1>1, PowersGrow, Positive
<1>3. \A y, z \in Nat : z > y => y \div z = 0
  OBVIOUS
<1>4. x \div TwoTo[i] = 0
  BY <1>2, <1>3 DEF Operand
<1>5. QED
  BY <1>1, <1>4 DEF Odd

LEMMA FromBitsType ==
  ASSUME NEW n \in 0 .. WordBits, NEW S, S \subseteq 0 .. n - 1
  PROVE  FromBits(S) \in Operand(TwoTo[n])
<1> DEFINE Bit1(i) == IF i - 1 \in S THEN TwoTo[i - 1] ELSE 0
           Good(g) == g = [i \in 0 .. WordBits |-> IF i = 0 THEN 0 ELSE g[i - 1] + Bit1(i)]
<1>0. \A i \in 0 .. WordBits : i # 0 => Power(i - 1) /\ Power(i) /\ TwoTo[i - 1] \in Nat \ {0} /\ Bit1(i) \in Nat
  <2>1. \A i \in 0 .. WordBits : i # 0 => Power(i - 1) /\ Power(i)
    BY BitCounts DEF Power
  <2>2. QED
    BY <2>1, Positive
<1>1. \E g : Good(g)
  <2> DEFINE step == [is \in Nat \X Nat |-> is[2] + IF is[1] \in 1 .. WordBits THEN Bit1(is[1]) ELSE 0]
  <2>1. step \in [Nat \X Nat -> Nat]
    <3> HIDE DEF Bit1
    <3>1. ASSUME NEW is \in Nat \X Nat
          PROVE  is[2] + (IF is[1] \in 1 .. WordBits THEN Bit1(is[1]) ELSE 0) \in Nat
      BY <1>0, BitCounts
    <3>2. QED
      BY <3>1
  <2>2. PICK g \in [0 .. WordBits -> Nat] : Steps(g, 0, step, WordBits)
    <3> HIDE DEF step
    <3>1. QED
      BY <2>1, Iteration, BitCounts
  <2> HIDE DEF Bit1
  <2>3. ASSUME NEW i \in 0 .. WordBits PROVE g[i] = IF i = 0 THEN 0 ELSE g[i - 1] + Bit1(i)
    <3>1. i # 0 => i - 1 \in 0 .. WordBits /\ i \in Nat /\ g[i - 1] \in Nat /\ i \in 1 .. WordBits
      BY BitCounts
    <3>2. i # 0 => step[<<i, g[i - 1]>>] = g[i - 1] + Bit1(i)
      BY <3>1
    <3>3. g[i] = IF i = 0 THEN 0 ELSE step[<<i, g[i - 1]>>]
      BY <2>2 DEF Steps
    <3>4. QED
      BY <3>2, <3>3
  <2>4. QED
    BY <2>3
<1> DEFINE b == CHOOSE g : Good(g)
<1>2. Good(b)
  BY <1>1
<1>3. FromBits(S) = b[WordBits]
  BY DEF FromBits
<1> HIDE DEF b, Bit1
<1>4. \A i \in 0 .. WordBits : b[i] = IF i = 0 THEN 0 ELSE b[i - 1] + Bit1(i)
  BY <1>2
<1> HIDE DEF Good
<1> DEFINE T == {i \in Nat : i <= WordBits => b[i] \in Nat /\ b[i] < TwoTo[i] /\ (i >= n => b[i] = b[n])}
<1>5. 0 \in T
  <2>1. 0 \in 0 .. WordBits /\ b[0] = 0 /\ TwoTo[0] = 1
    BY <1>4, BitCounts, Doubling
  <2>2. 0 >= n => n = 0
    OBVIOUS
  <2>3. QED
    BY <2>1, <2>2
<1>6. ASSUME NEW i \in T PROVE i + 1 \in T
  <2> SUFFICES ASSUME i + 1 <= WordBits
               PROVE  b[i + 1] \in Nat /\ b[i + 1] < TwoTo[i + 1] /\ (i + 1 >= n => b[i + 1] = b[n])
    OBVIOUS
  <2>1. i \in Nat /\ i + 1 \in 0 .. WordBits /\ i + 1 # 0 /\ (i + 1) - 1 = i /\ i <= WordBits
    BY BitCounts
  <2>2. b[i + 1] = b[i] + Bit1(i + 1) /\ Bit1(i + 1) = IF i \in S THEN TwoTo[i] ELSE 0
    BY <1>4, <2>1 DEF Bit1
  <2>3. b[i] \in Nat /\ b[i] < TwoTo[i] /\ (i >= n => b[i] = b[n])
    BY <2>1
  <2>4. TwoTo[i + 1] = 2 * TwoTo[i] /\ TwoTo[i] \in Nat
    BY <1>0, <2>1, Doubling
  <2>5. b[i + 1] \in Nat /\ b[i + 1] < TwoTo[i + 1]
    BY <2>2, <2>3, <2>4
  <2>6. i + 1 >= n => b[i + 1] = b[n]
    <3>1. CASE i >= n
      <4>1. i \notin S
        BY <3>1, <2>1
      <4>2. QED
        BY <4>1, <3>1, <2>2, <2>3
    <3>2. CASE i < n
      BY <3>2, <2>1
    <3>3. QED
      BY <3>1, <3>2, <2>1
  <2>7. QED
    BY <2>5, <2>6
<1> HIDE DEF T
<1>7. T = Nat
  <2>1. T \in SUBSET Nat
    BY DEF T
  <2>2. QED
    BY <1>5, <1>6, <2>1, Induction
<1>8. b[WordBits] = b[n] /\ b[n] \in Nat /\ b[n] < TwoTo[n]
  BY <1>7, BitCounts DEF T
<1>9. TwoTo[n] \in Nat
  BY BitCounts, Positive DEF Power
<1>10. QED
  BY <1>3, <1>8, <1>9 DEF Operand

-----------------------------------------------------------------------------
(* The results of the instructions are bytes and words.                    *)
Sized(s) == s \in {ByteSize, WordSize}

LEMMA SizeHalves ==
  ASSUME NEW s, Sized(s)
  PROVE  \E h \in Nat \ {0} : s = 2 * h /\ Half(s) = h
<1>1. PICK h \in Nat \ {0} : s = 2 * h
  BY Sizes DEF Sized
<1>2. Half(s) = h
  BY <1>1 DEF Half
<1>3. QED
  BY <1>1, <1>2

LEMMA WrapType ==
  ASSUME NEW s, Sized(s), NEW x \in Int, -s <= x, x < s + s
  PROVE  Wrap(s, x) \in Operand(s)
  BY Sizes DEF Sized, Wrap, Operand

LEMMA LogicalType ==
  ASSUME NEW s, Sized(s), NEW x \in Operand(s), NEW y \in Operand(s), NEW S, S \subseteq Bits(x) \cup Bits(y), NEW cc
  PROVE  Logical(s, S, cc).d \in Operand(s)
<1>1. PICK n \in 0 .. WordBits : s = TwoTo[n]
  BY BitCounts DEF Sized, ByteSize, WordSize
<1>2. S \subseteq 0 .. n - 1
  BY <1>1, BitsBelow
<1>3. FromBits(S) \in Operand(s)
  BY <1>1, <1>2, FromBitsType
<1>4. QED
  BY <1>3 DEF Logical, Result

LEMMA BytesOfWord ==
  ASSUME NEW x \in Word
  PROVE  x % ByteSize \in 0 .. ByteSize - 1 /\ x \div ByteSize \in 0 .. ByteSize - 1
<1>1. \A b \in Nat \ {0}, y \in Nat : y < b * b => y % b \in 0 .. b - 1 /\ y \div b \in 0 .. b - 1
  <2> SUFFICES ASSUME NEW b \in Nat \ {0}, NEW y \in Nat, y < b * b
               PROVE  y % b \in 0 .. b - 1 /\ y \div b \in 0 .. b - 1
    OBVIOUS
  <2>1. y % b \in 0 .. b - 1 /\ y \div b \in Nat /\ y = b * (y \div b) + (y % b)
    OBVIOUS
  <2>2. \A q \in Nat : q >= b => b * q >= b * b
    OBVIOUS
  <2>3. QED
    BY <2>1, <2>2
<1>2. ByteSize \in Nat \ {0} /\ x \in Nat /\ x < ByteSize * ByteSize
  <2>1. \A w \in Nat : x \in 0 .. w - 1 => x \in Nat /\ x < w
    OBVIOUS
  <2>2. QED
    BY <2>1, Sizes DEF Word
<1>3. QED
  BY <1>1, <1>2

(* Two bytes make a word.                                                  *)
LEMMA WordOfBytes ==
  ASSUME NEW u \in 0 .. ByteSize - 1, NEW v \in 0 .. ByteSize - 1
  PROVE  u * ByteSize + v \in Word
<1>1. \A b \in Nat \ {0} : \A y, z \in 0 .. b - 1 : y * b + z \in 0 .. b * b - 1
  <2> SUFFICES ASSUME NEW b \in Nat \ {0}, NEW y \in 0 .. b - 1, NEW z \in 0 .. b - 1
               PROVE  y * b + z \in 0 .. b * b - 1
    OBVIOUS
  <2>1. y * b \in Nat /\ b * b \in Nat /\ (b - 1) * b = b * b - b
    OBVIOUS
  <2>2. \A p, q \in Nat : p <= q => p * b <= q * b
    OBVIOUS
  <2>3. y * b <= (b - 1) * b
    BY <2>2
  <2>4. QED
    BY <2>1, <2>3
<1>2. ByteSize \in Nat \ {0} /\ WordSize = ByteSize * ByteSize
  BY Sizes
<1>3. QED
  BY <1>1, <1>2 DEF Word

LEMMA SwabType == ASSUME NEW x \in Word PROVE Swab(x).d \in Word
<1>1. (x % ByteSize) * ByteSize + (x \div ByteSize) \in Word
  BY BytesOfWord, WordOfBytes
<1>2. Swab(x).d = (x % ByteSize) * ByteSize + (x \div ByteSize)
  BY DEF Swab, Result
<1>3. QED
  BY <1>1, <1>2

LEMMA UnaryType ==
  ASSUME NEW s, Sized(s), NEW x \in Operand(s), NEW cc, NEW op \in UnaryOps, op = "swab" => s = WordSize
  PROVE  Unary(op, s, x, cc).d \in Operand(s)
<1>1. PICK h \in Nat \ {0} : s = 2 * h /\ Half(s) = h
  BY SizeHalves
<1>2. x \in 0 .. s - 1 /\ s \in Nat /\ s > 1
  BY <1>1 DEF Operand
<1>3. OneIf(cc.c) \in 0 .. 1
  BY DEF OneIf
<1>4. \A y \in -s .. s + s - 1 : Wrap(s, y) \in Operand(s)
  BY <1>2, WrapType
<1>5. CASE op = "com"
  BY <1>2, <1>5 DEF Unary, Com, Result, Operand
<1>6. CASE op = "inc"
  BY <1>2, <1>4, <1>6 DEF Unary, Inc, Result
<1>7. CASE op = "dec"
  BY <1>2, <1>4, <1>7 DEF Unary, Dec, Result
<1>8. CASE op = "neg"
  BY <1>2, <1>4, <1>8 DEF Unary, Neg, Result
<1>9. CASE op = "adc"
  BY <1>2, <1>3, <1>4, <1>9 DEF Unary, Adc, Result
<1>10. CASE op = "sbc"
  BY <1>2, <1>3, <1>4, <1>10 DEF Unary, Sbc, Result
<1>11. x \div 2 \in 0 .. h - 1
  BY <1>1, <1>2
<1>12. CASE op = "ror"
  BY <1>1, <1>11, <1>12 DEF Unary, Ror, Shifted, Result, Operand
<1>13. CASE op = "asr"
  BY <1>1, <1>11, <1>13 DEF Unary, Asr, Shifted, Result, Operand
<1>14. CASE op = "rol"
  BY <1>2, <1>3, <1>4, <1>14 DEF Unary, Rol, Shifted, Result
<1>15. CASE op = "asl"
  BY <1>2, <1>4, <1>15 DEF Unary, Asl, Shifted, Result
<1>16. CASE op = "swab"
  BY <1>16, SwabType DEF Unary, Operand, Word
<1>17. QED
  BY <1>5, <1>6, <1>7, <1>8, <1>9, <1>10, <1>12, <1>13, <1>14, <1>15, <1>16 DEF UnaryOps

LEMMA DyadicType ==
  ASSUME NEW s, Sized(s), NEW x \in Operand(s), NEW y \in Operand(s), NEW cc, NEW op \in DyadicOps
  PROVE  Dyadic(op, s, x, y, cc).d \in Operand(s)
<1>1. s \in Nat /\ x \in 0 .. s - 1 /\ y \in 0 .. s - 1
  BY Sizes DEF Sized, Operand
<1>2. \A z \in -s .. s + s - 1 : Wrap(s, z) \in Operand(s)
  BY <1>1, WrapType
<1>3. CASE op = "bit"
  BY <1>3, LogicalType DEF Dyadic, Bit
<1>4. CASE op = "bic"
  BY <1>4, LogicalType DEF Dyadic, Bic
<1>5. CASE op = "bis"
  BY <1>5, LogicalType DEF Dyadic, Bis
<1>6. CASE op = "cmp"
  BY <1>1, <1>2, <1>6 DEF Dyadic, Cmp, Result
<1>7. CASE op = "add"
  BY <1>1, <1>2, <1>7 DEF Dyadic, Add, Result
<1>8. CASE op = "sub"
  BY <1>1, <1>2, <1>8 DEF Dyadic, Sub, Result
<1>9. QED
  BY <1>3, <1>4, <1>5, <1>6, <1>7, <1>8 DEF DyadicOps

LEMMA Divides ==
  ASSUME NEW x \in Int, NEW w \in Nat \ {0}
  PROVE  x \div w \in Int /\ x % w \in 0 .. w - 1 /\ x % w \in Int
  OBVIOUS

LEMMA WordPositive == WordSize \in Nat \ {0} /\ Word \subseteq Nat
  BY Sizes DEF Word

LEMMA Remainder == ASSUME NEW x \in Int PROVE x % WordSize \in Word
  BY WordPositive, Divides DEF Word

LEMMA SignedType ==
  ASSUME NEW x \in Int, NEW w \in Nat PROVE Signed(w, x) \in Int
<1>1. Half(w) \in Int
  BY DEF Half
<1>2. QED
  BY DEF Signed

LEMMA InPairType ==
  ASSUME NEW x \in Int, NEW cc
  PROVE  InPair(x, cc).hi \in Word /\ InPair(x, cc).lo \in Word
<1>1. x \div WordSize \in Int
  BY Sizes, Divides
<1>2. QED
  BY <1>1, Remainder DEF InPair

LEMMA DoubleType == DoubleSize \in Nat \ {0}
<1>1. \A w \in Nat \ {0} : w * w \in Nat \ {0}
  OBVIOUS
<1>2. QED
  BY <1>1, Sizes DEF DoubleSize

LEMMA PairType == ASSUME NEW hi \in Word, NEW lo \in Word PROVE Pair(hi, lo) \in Int
<1>1. WordSize \in Nat /\ hi \in Nat /\ lo \in Nat
  BY Sizes DEF Word
<1>2. hi * WordSize + lo \in Int
  BY <1>1
<1>3. QED
  BY <1>2, DoubleType, SignedType DEF Pair

LEMMA QuotientType == ASSUME NEW a \in Int, NEW b \in Int, b # 0 PROVE Quotient(a, b) \in Int
<1> DEFINE magnitude(x) == IF x < 0 THEN -x ELSE x
<1>1. magnitude(a) \in Int /\ magnitude(b) \in Nat \ {0}
  OBVIOUS
<1>2. magnitude(a) \div magnitude(b) \in Int
  <2> HIDE DEF magnitude
  <2>1. QED
    BY <1>1, Divides
<1>3. QED
  BY <1>2 DEF Quotient

LEMMA MulType ==
  ASSUME NEW x \in Word, NEW y \in Word
  PROVE  Mul(x, y).hi \in Word /\ Mul(x, y).lo \in Word
<1>1. Signed(WordSize, x) \in Int /\ Signed(WordSize, y) \in Int
  BY Sizes, SignedType DEF Word
<1>2. Signed(WordSize, x) * Signed(WordSize, y) \in Int
  BY <1>1
<1>3. QED
  BY <1>2, InPairType DEF Mul

LEMMA DivType ==
  ASSUME NEW hi \in Word, NEW lo \in Word, NEW y \in Word, NEW cc
  PROVE  Div(hi, lo, y, cc).hi \in Word /\ Div(hi, lo, y, cc).lo \in Word
<1> DEFINE src == Pair(hi, lo)
           src2 == Signed(WordSize, y)
           dst == Quotient(src, src2)
<1>1. src \in Int /\ src2 \in Int
  BY Sizes, SignedType, PairType DEF Word
<1>2. CASE src2 # 0
  <2>1. dst \in Int
    BY <1>1, <1>2, QuotientType
  <2> HIDE DEF src, src2, dst
  <2>2. src - src2 * dst \in Int
    BY <1>1, <2>1
  <2>3. dst % WordSize \in Word /\ (src - src2 * dst) % WordSize \in Word
    BY <2>1, <2>2, Remainder
  <2>4. QED
    BY <2>3 DEF Div, src, src2, dst
<1>3. CASE src2 = 0
  BY <1>3 DEF Div
<1>4. QED
  BY <1>2, <1>3

LEMMA CountType == ASSUME NEW y \in Word PROVE Count(y) \in 0 .. 2 * IntBits - 1
<1>1. y \in Int /\ 2 * IntBits \in Nat \ {0}
  BY BitCounts, Sizes DEF Word
<1>2. QED
  BY <1>1, Divides DEF Count

LEMMA RightType ==
  ASSUME NEW x \in Int, NEW k, Power(k) PROVE RightResult(x, k).d \in Int
<1>1. x \div TwoTo[k] \in Int
  BY Positive, Divides
<1>2. QED
  BY <1>1 DEF RightResult, RightShift

LEMMA AshType == ASSUME NEW x \in Word, NEW y \in Word PROVE Ash(x, y).d \in Word
<1> DEFINE n == Count(y)
           src == Signed(WordSize, x)
           o == src \div TwoTo[WordBits - n]
           left == (src * TwoTo[n]) % WordSize
           t == CASE n = 0 -> [d |-> src, v |-> FALSE, c |-> FALSE]
                  [] n \in 1 .. WordBits - 1 ->
                       [d |-> left, c |-> Odd(o), v |-> SignLost(o, Sign(WordSize, left))]
                  [] n \in WordBits .. IntBits - 1 ->
                       [d |-> 0, v |-> src # 0, c |-> n = WordBits /\ Odd(src)]
                  [] OTHER -> RightResult(src, 2 * IntBits - n)
<1>1. src \in Int /\ n \in 0 .. 2 * IntBits - 1
  BY Sizes, SignedType, CountType DEF Word
<1> HIDE DEF src, n
<1>2. n \in 1 .. WordBits - 1 => left \in Int
  <2>1. n \in 1 .. WordBits - 1 => Power(n)
    BY BitCounts DEF Power
  <2>2. n \in 1 .. WordBits - 1 => TwoTo[n] \in Int
    BY <2>1, Positive
  <2>3. n \in 1 .. WordBits - 1 => src * TwoTo[n] \in Int
    BY <1>1, <2>2
  <2>4. QED
    BY <2>3, WordPositive, Divides
<1>3. n \notin 0 .. IntBits - 1 => RightResult(src, 2 * IntBits - n).d \in Int
  <2>1. n \notin 0 .. IntBits - 1 => Power(2 * IntBits - n)
    BY <1>1, BitCounts DEF Power
  <2>2. QED
    BY <1>1, <2>1, RightType
<1> HIDE DEF left, o
<1>4. t.d \in Int
  <2>1. CASE n = 0
    BY <1>1, <2>1
  <2>2. CASE n \in 1 .. WordBits - 1
    BY <1>2, <2>2
  <2>3. CASE n \in WordBits .. IntBits - 1
    BY <2>3, BitCounts
  <2>4. CASE n \notin 0 .. IntBits - 1
    BY <1>3, <2>4, BitCounts
  <2> HIDE DEF t
  <2>5. QED
    BY <1>1, <2>1, <2>2, <2>3, <2>4, BitCounts
<1>5. Ash(x, y).d = t.d % WordSize
  BY DEF Ash, Result, n, src, left, o
<1> HIDE DEF t
<1>6. QED
  BY <1>4, <1>5, Remainder

LEMMA AshcType ==
  ASSUME NEW hi \in Word, NEW lo \in Word, NEW y \in Word
  PROVE  Ashc(hi, lo, y).hi \in Word /\ Ashc(hi, lo, y).lo \in Word
<1> DEFINE n == Count(y)
           src == Pair(hi, lo)
           o == src \div TwoTo[IntBits - n]
           left == Signed(DoubleSize, (src * TwoTo[n]) % DoubleSize)
           t == CASE n = 0 -> [d |-> src, v |-> FALSE, c |-> FALSE]
                  [] n \in 1 .. IntBits - 1 ->
                       [d |-> left, c |-> Odd(o), v |-> SignLost(o, left < 0)]
                  [] OTHER -> RightResult(src, 2 * IntBits - n)
           p == InPair(t.d, Flags(FALSE, FALSE, t.v, t.c))
<1>1. src \in Int /\ n \in 0 .. 2 * IntBits - 1
  BY PairType, CountType
<1> HIDE DEF src, n
<1>2. n \in 1 .. IntBits - 1 => left \in Int
  <2>1. n \in 1 .. IntBits - 1 => Power(n)
    BY BitCounts DEF Power
  <2>2. n \in 1 .. IntBits - 1 => TwoTo[n] \in Int
    BY <2>1, Positive
  <2>3. n \in 1 .. IntBits - 1 => src * TwoTo[n] \in Int
    BY <1>1, <2>2
  <2>4. n \in 1 .. IntBits - 1 => (src * TwoTo[n]) % DoubleSize \in Int
    BY <2>3, DoubleType, Divides
  <2>5. QED
    BY <2>4, DoubleType, SignedType
<1>3. n \notin 0 .. IntBits - 1 => RightResult(src, 2 * IntBits - n).d \in Int
  <2>1. n \notin 0 .. IntBits - 1 => Power(2 * IntBits - n)
    BY <1>1, BitCounts DEF Power
  <2>2. QED
    BY <1>1, <2>1, RightType
<1> HIDE DEF left, o
<1>4. t.d \in Int
  <2>1. CASE n = 0
    BY <1>1, <2>1
  <2>2. CASE n \in 1 .. IntBits - 1
    BY <1>2, <2>2
  <2>3. CASE n \notin 0 .. IntBits - 1
    BY <1>3, <2>3, BitCounts
  <2> HIDE DEF t
  <2>4. QED
    BY <1>1, <2>1, <2>2, <2>3, BitCounts
<1>5. /\ Ashc(hi, lo, y).hi = p.hi
      /\ Ashc(hi, lo, y).lo = p.lo
  BY DEF Ashc, InPair, n, src, left, o
<1> HIDE DEF t
<1>6. QED
  BY <1>4, <1>5, InPairType

-----------------------------------------------------------------------------
(* The state within an instruction.                                        *)
Parts == {"r", "f", "mem", "mmr1", "traps", "fuse", "ok"}
Shape(m) == m = [p \in Parts |-> m[p]]
Change == {-2, -1, 1, 2} \X (0 .. 7)
Holds(words) == \A w \in DOMAIN words : words[w] \in Word

Whole(m) ==
  /\ Shape(m)
  /\ m.r \in [0 .. 7 -> Word] /\ Holds(m.mem)
  /\ m.mmr1 \in Seq(Change)
  /\ m.fuse \in Int /\ m.ok \in BOOLEAN

(* What MMR1 tells of at most k changes takes the registers back to those  *)
(* of s, and memory is as it was.                                          *)
Early(s, m, k) ==
  /\ Whole(m)
  /\ m.mem = s.mem
  /\ Len(m.mmr1) <= k
  /\ \A q \in 0 .. 7 : q # PC => Undone(m.r[q], q, m.mmr1) = s.r[q]

(* No reference will abort.                                                *)
Lit(m) == m.ok /\ m.fuse < 0

(* A part of an instruction that leaves the codes alone.                   *)
Quiet(m, t) == t.f = m.f /\ (Lit(m) => Lit(t))

LEMMA QuietThen ==
  ASSUME NEW m, NEW t, NEW u, Quiet(m, t), Quiet(t, u) PROVE Quiet(m, u)
  BY DEF Quiet

LEMMA ReferEarly ==
  ASSUME NEW s, NEW m, NEW k, Early(s, m, k)
  PROVE  Early(s, Refer(m), k) /\ Quiet(m, Refer(m)) /\ Refer(m).r = m.r /\ (Refer(m).ok => m.ok)
<1> DEFINE t == Refer(m)
<1>1. Shape(m) /\ m.fuse \in Int /\ m.ok \in BOOLEAN
  BY DEF Early, Whole
<1>2. /\ Shape(t) /\ t.r = m.r /\ t.f = m.f /\ t.mem = m.mem /\ t.mmr1 = m.mmr1
      /\ t.fuse \in Int /\ t.ok \in BOOLEAN /\ (t.ok => m.ok) /\ (Lit(m) => Lit(t))
  <2>1. CASE m.ok /\ m.fuse # 0
    BY <1>1, <2>1 DEF Refer, Shape, Parts, Lit
  <2>2. CASE ~(m.ok /\ m.fuse # 0)
    <3>1. t = [m EXCEPT !.ok = FALSE]
      BY <2>2 DEF Refer
    <3> HIDE DEF t
    <3>2. /\ Shape(t) /\ t.r = m.r /\ t.f = m.f /\ t.mem = m.mem /\ t.mmr1 = m.mmr1
          /\ t.fuse = m.fuse /\ t.ok = FALSE
      BY <1>1, <3>1 DEF Shape, Parts
    <3>3. Lit(m) => FALSE
      BY <1>1, <2>2 DEF Lit
    <3>4. QED
      BY <1>1, <3>2, <3>3
  <2>3. QED
    BY <2>1, <2>2
<1> HIDE DEF t
<1>3. QED
  BY <1>2 DEF Early, Whole, Quiet, t

LEMMA UndoStep ==
  ASSUME NEW x \in Word, NEW by \in {-2, -1, 1, 2}
  PROVE  Wrap(WordSize, x + by) \in Word /\ (Wrap(WordSize, x + by) - by) % WordSize = x
<1>1. WordSize \in Nat /\ WordSize > 3 /\ x \in 0 .. WordSize - 1
  BY Sizes DEF Word
<1>2. \A w \in Nat, y \in Nat : y < w => y % w = y /\ (y - w) % w = y /\ (y + w) % w = y
  OBVIOUS
<1>3. CASE x + by < 0
  <2>1. Wrap(WordSize, x + by) = x + by + WordSize /\ Wrap(WordSize, x + by) - by = x + WordSize
    BY <1>1, <1>3 DEF Wrap
  <2>2. QED
    BY <1>1, <1>2, <1>3, <2>1 DEF Word
<1>4. CASE x + by >= WordSize
  <2>1. Wrap(WordSize, x + by) = x + by - WordSize /\ Wrap(WordSize, x + by) - by = x - WordSize
    BY <1>1, <1>4 DEF Wrap
  <2>2. QED
    BY <1>1, <1>2, <1>4, <2>1 DEF Word
<1>5. CASE x + by \in 0 .. WordSize - 1
  <2>1. Wrap(WordSize, x + by) = x + by /\ Wrap(WordSize, x + by) - by = x
    BY <1>1, <1>5 DEF Wrap
  <2>2. QED
    BY <1>1, <1>2, <1>5, <2>1 DEF Word
<1>6. QED
  BY <1>1, <1>3, <1>4, <1>5

(* The last change is taken back first.                                    *)
LEMMA UndoneAppend ==
  ASSUME NEW changes \in Seq(Change), NEW c \in Change, Len(changes) <= 1, NEW x, NEW q
  PROVE  Undone(x, q, Append(changes, c)) = Undone(Undo(x, q, c), q, changes)
<1> DEFINE both == Append(changes, c)
<1>1. Len(changes) \in Nat /\ Len(both) = Len(changes) + 1 /\ both[Len(changes) + 1] = c
      /\ (Len(changes) = 1 => both[1] = changes[1])
  OBVIOUS
<1> HIDE DEF both
<1>2. CASE Len(changes) = 0
  BY <1>1, <1>2 DEF Undone, both
<1>3. CASE Len(changes) = 1
  BY <1>1, <1>3 DEF Undone, both
<1>4. Len(changes) = 0 \/ Len(changes) = 1
  <2>1. \A n \in Nat : n <= 1 => n = 0 \/ n = 1
    OBVIOUS
  <2>2. QED
    BY <1>1, <2>1
<1>5. QED
  BY <1>2, <1>3, <1>4

LEMMA StepEarly ==
  ASSUME NEW s, NEW m, NEW k \in 0 .. 1, Early(s, m, k), NEW reg \in 0 .. 7, NEW by \in {-2, -1, 1, 2}
  PROVE  Early(s, Step(m, reg, by), k + 1) /\ Quiet(m, Step(m, reg, by)) /\ Step(m, reg, by).ok = m.ok
<1> DEFINE t == Step(m, reg, by)
<1>1. /\ Shape(m) /\ m.r \in [0 .. 7 -> Word] /\ m.mmr1 \in Seq(Change) /\ Len(m.mmr1) <= 1
      /\ Holds(m.mem) /\ m.mem = s.mem /\ m.fuse \in Int /\ m.ok \in BOOLEAN /\ Len(m.mmr1) <= k
  BY DEF Early, Whole
<1>2. /\ Shape(t) /\ t.f = m.f /\ t.mem = m.mem /\ t.fuse = m.fuse /\ t.ok = m.ok
      /\ t.r = [m.r EXCEPT ![reg] = Wrap(WordSize, @ + by)]
      /\ t.mmr1 = Append(m.mmr1, <<by, reg>>)
  BY <1>1 DEF Step, Shape, Parts
<1> HIDE DEF t
<1>3. m.r[reg] \in Word /\ Wrap(WordSize, m.r[reg] + by) \in Word
      /\ (Wrap(WordSize, m.r[reg] + by) - by) % WordSize = m.r[reg]
  BY <1>1, UndoStep
<1>4. <<by, reg>> \in Change
  BY DEF Change
<1>5. t.mmr1 \in Seq(Change) /\ Len(t.mmr1) <= k + 1
  BY <1>1, <1>2, <1>4
<1>6. t.r \in [0 .. 7 -> Word]
  BY <1>1, <1>2, <1>3
<1>7. ASSUME NEW q \in 0 .. 7, q # PC PROVE Undone(t.r[q], q, t.mmr1) = s.r[q]
  <2>1. Undone(t.r[q], q, t.mmr1) = Undone(Undo(t.r[q], q, <<by, reg>>), q, m.mmr1)
    BY <1>1, <1>2, <1>4, UndoneAppend
  <2>2. Undo(t.r[q], q, <<by, reg>>) = m.r[q]
    BY <1>1, <1>2, <1>3 DEF Undo
  <2>3. QED
    BY <1>7, <2>1, <2>2 DEF Early
<1>8. QED
  BY <1>1, <1>2, <1>5, <1>6, <1>7 DEF Early, Whole, Quiet, Lit, t

(* PC is taken back whatever it was.                                       *)
LEMMA UndoneOther ==
  ASSUME NEW s, NEW m, NEW k, Early(s, m, k), NEW x \in Word, NEW t,
         t = [m EXCEPT !.r[PC] = x]
  PROVE  Early(s, t, k) /\ Quiet(m, t) /\ t.ok = m.ok
<1>1. Shape(m) /\ m.r \in [0 .. 7 -> Word] /\ PC \in 0 .. 7
  BY DEF Early, Whole, PC
<1>2. /\ Shape(t) /\ t.f = m.f /\ t.mem = m.mem /\ t.fuse = m.fuse /\ t.ok = m.ok /\ t.mmr1 = m.mmr1
      /\ t.r = [m.r EXCEPT ![PC] = x]
  BY <1>1 DEF Shape, Parts
<1>3. \A q \in 0 .. 7 : q # PC => t.r[q] = m.r[q]
  BY <1>1, <1>2
<1>4. t.r \in [0 .. 7 -> Word]
  BY <1>1, <1>2
<1>5. QED
  BY <1>2, <1>3, <1>4 DEF Early, Whole, Quiet, Lit

LEMMA CheckStackParts ==
  ASSUME NEW m, Shape(m)
  PROVE  LET t == CheckStack(m)
         IN  /\ Shape(t) /\ t.r = m.r /\ t.f = m.f /\ t.mem = m.mem /\ t.mmr1 = m.mmr1
             /\ t.fuse = m.fuse /\ t.ok = m.ok
  BY DEF CheckStack, Shape, Parts

LEMMA StepDownEarly ==
  ASSUME NEW s, NEW m, NEW k \in 0 .. 1, Early(s, m, k), NEW reg \in 0 .. 7, NEW by \in {1, 2}
  PROVE  LET t == StepDown(m, reg, by)
         IN  Early(s, t, k + 1) /\ Quiet(m, t) /\ t.ok = m.ok
<1> DEFINE t == Step(m, reg, -by)
<1>1. Early(s, t, k + 1) /\ Quiet(m, t) /\ t.ok = m.ok
  BY StepEarly
<1> HIDE DEF t
<1>2. Shape(t)
  BY <1>1 DEF Early, Whole
<1>3. Early(s, CheckStack(t), k + 1) /\ Quiet(m, CheckStack(t)) /\ CheckStack(t).ok = m.ok
  BY <1>1, <1>2, CheckStackParts DEF Early, Whole, Quiet, Lit
<1>4. QED
  BY <1>1, <1>3 DEF StepDown, t

LEMMA WordAtType == ASSUME NEW m, Holds(m.mem), NEW a PROVE WordAt(m, a) \in Word
  BY Sizes DEF WordAt, Holds, Word

LEMMA ByteAtType ==
  ASSUME NEW m, Holds(m.mem), NEW a PROVE ByteAt(m, a) \in Operand(ByteSize)
<1>1. WordAt(m, a) \in 0 .. WordSize - 1
  BY WordAtType DEF Word
<1>2. WordAt(m, a) % ByteSize \in 0 .. ByteSize - 1 /\ WordAt(m, a) \div ByteSize \in 0 .. ByteSize - 1
  BY <1>1, BytesOfWord DEF Word
<1>3. QED
  BY <1>2 DEF ByteAt, Operand

LEMMA EarlyMore == ASSUME NEW s, NEW m, NEW k \in Nat, Early(s, m, k) PROVE Early(s, m, k + 1)
<1>1. Len(m.mmr1) \in Nat
  BY DEF Early, Whole
<1>2. QED
  BY <1>1 DEF Early

LEMMA EarlyTypes ==
  ASSUME NEW s, NEW m, NEW k, Early(s, m, k)
  PROVE  /\ Shape(m) /\ Holds(m.mem) /\ m.r \in [0 .. 7 -> Word] /\ m.mem = s.mem
         /\ \A a : WordAt(m, a) \in Word
         /\ \A reg \in 0 .. 7 : m.r[reg] \in Word
  BY WordAtType DEF Early, Whole

(* An address.                                                             *)
Aimed(s, m, k, e) == Early(s, e.m, k) /\ Quiet(m, e.m) /\ e.a \in Word

LEMMA InRegisterEarly ==
  ASSUME NEW s, NEW m, NEW k, Early(s, m, k), NEW reg \in 0 .. 7
  PROVE  Aimed(s, m, k, InRegister(m, reg))
  BY EarlyTypes DEF Aimed, InRegister, At, Quiet

LEMMA IndirectEarly ==
  ASSUME NEW s, NEW m, NEW k, NEW e, Aimed(s, m, k, e)
  PROVE  Aimed(s, m, k, Indirect(e))
<1> DEFINE t == Refer(e.m)
<1>1. Early(s, t, k) /\ Quiet(e.m, t)
  BY ReferEarly DEF Aimed
<1> HIDE DEF t
<1>2. WordAt(t, e.a) \in Word
  BY <1>1, EarlyTypes
<1>3. Quiet(m, t)
  BY <1>1, QuietThen DEF Aimed
<1>4. QED
  BY <1>1, <1>2, <1>3 DEF Aimed, Indirect, Load, At, t

LEMMA IndexAfterEarly ==
  ASSUME NEW s, NEW m, NEW k, Early(s, m, k), NEW reg \in 0 .. 7, NEW word \in Word
  PROVE  Aimed(s, m, k, IndexAfter(m, reg, word))
<1> DEFINE t == [m EXCEPT !.r[PC] = Wrap(WordSize, @ + 2)]
<1>1. m.r[PC] \in Word /\ Shape(m)
  BY EarlyTypes DEF PC
<1>2. Wrap(WordSize, m.r[PC] + 2) \in Word
  BY <1>1, UndoStep
<1>3. t = [m EXCEPT !.r[PC] = Wrap(WordSize, m.r[PC] + 2)]
  OBVIOUS
<1> HIDE DEF t
<1>4. Early(s, t, k) /\ Quiet(m, t)
  BY <1>2, <1>3, UndoneOther
<1>5. t.r[reg] \in Word
  BY <1>4, EarlyTypes
<1>6. Wrap(WordSize, t.r[reg] + word) \in Word
  <2>1. t.r[reg] \in 0 .. WordSize - 1 /\ word \in 0 .. WordSize - 1 /\ WordSize \in Nat
    BY <1>5, Sizes DEF Word
  <2>2. QED
    BY <2>1 DEF Wrap, Word
<1>7. 0 \in Word
  BY Sizes DEF Word
<1>8. IndexAfter(m, reg, word) = IF m.ok THEN At(t, Wrap(WordSize, t.r[reg] + word)) ELSE At(m, 0)
  BY DEF IndexAfter, t
<1>9. Quiet(m, m)
  BY DEF Quiet
<1>10. CASE m.ok
  BY <1>4, <1>6, <1>8, <1>10 DEF Aimed, At
<1>11. CASE ~m.ok
  BY <1>7, <1>8, <1>9, <1>11 DEF Aimed, At
<1>12. QED
  BY <1>10, <1>11

LEMMA IndexedEarly ==
  ASSUME NEW s, NEW m, NEW k, Early(s, m, k), NEW reg \in 0 .. 7
  PROVE  Aimed(s, m, k, Indexed(m, reg))
<1> DEFINE t == Refer(m)
           w == WordAt(m, m.r[PC])
<1>1. Early(s, t, k) /\ Quiet(m, t)
  BY ReferEarly
<1>2. w \in Word
  BY EarlyTypes
<1> HIDE DEF t, w
<1>3. Aimed(s, t, k, IndexAfter(t, reg, w))
  BY <1>1, <1>2, IndexAfterEarly
<1>4. QED
  BY <1>1, <1>3, QuietThen DEF Aimed, Indexed, t, w

LEMMA GeteaEarly ==
  ASSUME NEW s, NEW m, NEW k \in 0 .. 1, Early(s, m, k),
         NEW spec \in Specifier, spec.mode # 0, NEW size \in {1, 2}
  PROVE  Aimed(s, m, k + 1, Getea(m, spec, size))
<1> DEFINE reg == spec.reg
<1>1. reg \in 0 .. 7 /\ spec.mode \in 1 .. 7
  BY DEF Specifier
<1>2. Early(s, m, k + 1) /\ Quiet(m, m)
  BY EarlyMore DEF Quiet
<1>3. \A by \in {1, 2} : Aimed(s, m, k + 1, At(Step(m, reg, by), m.r[reg]))
  <2> TAKE by \in {1, 2}
  <2>1. Early(s, Step(m, reg, by), k + 1) /\ Quiet(m, Step(m, reg, by))
    BY <1>1, StepEarly
  <2>2. m.r[reg] \in Word
    BY <1>1, EarlyTypes
  <2>3. QED
    BY <2>1, <2>2 DEF Aimed, At
<1>4. \A by \in {1, 2} : Aimed(s, m, k + 1, InRegister(StepDown(m, reg, by), reg))
  <2> TAKE by \in {1, 2}
  <2>1. Early(s, StepDown(m, reg, by), k + 1) /\ Quiet(m, StepDown(m, reg, by))
    BY <1>1, StepDownEarly
  <2>2. QED
    BY <1>1, <2>1, InRegisterEarly, QuietThen DEF Aimed
<1> HIDE DEF reg
<1>5. CASE spec.mode = 1
  BY <1>1, <1>2, <1>5, InRegisterEarly DEF Getea, reg
<1>6. CASE spec.mode = 2
  BY <1>3, <1>6 DEF Getea, reg
<1>7. CASE spec.mode = 3
  BY <1>3, <1>7, IndirectEarly DEF Getea, reg
<1>8. CASE spec.mode = 4
  BY <1>4, <1>8 DEF Getea, reg
<1>9. CASE spec.mode = 5
  BY <1>4, <1>9, IndirectEarly DEF Getea, reg
<1>10. CASE spec.mode = 6
  BY <1>1, <1>2, <1>10, IndexedEarly DEF Getea, reg
<1>11. CASE spec.mode = 7
  BY <1>1, <1>2, <1>11, IndexedEarly, IndirectEarly DEF Getea, reg
<1>12. QED
  BY <1>1, <1>5, <1>6, <1>7, <1>8, <1>9, <1>10, <1>11

LEMMA GeteaWEarly ==
  ASSUME NEW s, NEW m, NEW k \in 0 .. 1, Early(s, m, k), NEW spec \in Specifier, spec.mode # 0
  PROVE  Aimed(s, m, k + 1, GeteaW(m, spec)) /\ Aimed(s, m, k + 1, GeteaB(m, spec))
  BY GeteaEarly DEF GeteaW, GeteaB

(* An operand that has been read.                                          *)
Fetched(s, m, k, o, byte) == Aimed(s, m, k, o) /\ o.x \in Operand(Size(byte))

LEMMA ReferToEarly ==
  ASSUME NEW s, NEW m, NEW k, NEW e, Aimed(s, m, k, e), NEW byte \in BOOLEAN
  PROVE  Fetched(s, m, k, ReferTo(e, byte), byte)
<1> DEFINE t == Refer(e.m)
<1>1. Early(s, t, k) /\ Quiet(e.m, t)
  BY ReferEarly DEF Aimed
<1> HIDE DEF t
<1>2. WordAt(t, e.a) \in Operand(WordSize) /\ ByteAt(t, e.a) \in Operand(ByteSize)
  BY <1>1, EarlyTypes, ByteAtType DEF Operand, Word
<1>3. Quiet(m, t)
  BY <1>1, QuietThen DEF Aimed
<1>4. QED
  BY <1>1, <1>2, <1>3 DEF Aimed, Fetched, ReferTo, LoadOperand, Size, t

LEMMA ReadOperandEarly ==
  ASSUME NEW s, NEW m, NEW k \in 0 .. 1, Early(s, m, k), NEW spec \in Specifier, NEW byte \in BOOLEAN
  PROVE  Fetched(s, m, k + 1, ReadOperand(m, spec, byte), byte)
<1>1. CASE spec.mode = 0
  <2>1. m.r[spec.reg] \in Word
    BY EarlyTypes DEF Specifier
  <2>2. m.r[spec.reg] \in Operand(WordSize) /\ m.r[spec.reg] % ByteSize \in Operand(ByteSize)
    BY <2>1, BytesOfWord DEF Operand, Word
  <2>3. Early(s, m, k + 1) /\ Quiet(m, m) /\ 0 \in Word
    BY EarlyMore, Sizes DEF Quiet, Word
  <2>4. QED
    BY <1>1, <2>2, <2>3 DEF Fetched, Aimed, ReadOperand, ReadOperandB, ReadOperandW, Size
<1>2. CASE spec.mode # 0
  BY <1>2, GeteaWEarly, ReferToEarly DEF ReadOperand, ReadOperandB, ReadOperandW
<1>3. QED
  BY <1>1, <1>2

-----------------------------------------------------------------------------
(* Results are stored.                                                     *)
SameFlow(m, t) == t.ok = m.ok /\ t.fuse = m.fuse
Stores(m, t) == Whole(t) /\ t.f = m.f /\ SameFlow(m, t)

LEMMA PutWordWhole ==
  ASSUME NEW m, Whole(m), NEW a, NEW d \in Word PROVE Stores(m, PutWord(m, a, d))
<1> DEFINE t == PutWord(m, a, d)
           words == Store(m.mem, a \div 2, d)
<1>1. /\ Shape(t) /\ t.r = m.r /\ t.f = m.f /\ t.mmr1 = m.mmr1 /\ t.fuse = m.fuse /\ t.ok = m.ok
      /\ t.mem = words
  BY DEF Whole, Shape, Parts, PutWord
<1>2. Holds(words)
  <2>1. ASSUME NEW v \in DOMAIN words PROVE words[v] \in Word
    BY <2>1 DEF Store, Whole, Holds
  <2>2. QED
    BY <2>1 DEF Holds
<1> HIDE DEF t, words
<1>3. QED
  BY <1>1, <1>2 DEF Whole, Stores, SameFlow, t

LEMMA PutByteWhole ==
  ASSUME NEW m, Whole(m), NEW a, NEW d \in Operand(ByteSize) PROVE Stores(m, PutByte(m, a, d))
<1> DEFINE w == WordAt(m, a)
           b == IF Odd(a) THEN (w % ByteSize) + d * ByteSize ELSE (w \div ByteSize) * ByteSize + d
<1>1. w \in Word
  BY WordAtType DEF Whole
<1> HIDE DEF w
<1>2. w % ByteSize \in 0 .. ByteSize - 1 /\ w \div ByteSize \in 0 .. ByteSize - 1 /\ d \in 0 .. ByteSize - 1
  BY <1>1, BytesOfWord DEF Operand
<1>3. d * ByteSize + (w % ByteSize) \in Word /\ (w \div ByteSize) * ByteSize + d \in Word
  BY <1>2, WordOfBytes
<1>4. d * ByteSize + (w % ByteSize) = (w % ByteSize) + d * ByteSize
  <2>1. d * ByteSize \in Int /\ w % ByteSize \in Int
    BY <1>2, Sizes
  <2>2. QED
    BY <2>1
<1>5. b \in Word
  BY <1>3, <1>4
<1> HIDE DEF b
<1>6. PutByte(m, a, d) = PutWord(m, a, b)
  BY DEF PutByte, b, w
<1>7. QED
  BY <1>5, <1>6, PutWordWhole

LEMMA SetRegister ==
  ASSUME NEW m, Whole(m), NEW reg \in 0 .. 7, NEW x \in Word, NEW t, t = [m EXCEPT !.r[reg] = x]
  PROVE  Stores(m, t) /\ t.mem = m.mem /\ t.r = [m.r EXCEPT ![reg] = x] /\ t.mmr1 = m.mmr1
<1>1. /\ Shape(t) /\ t.r = [m.r EXCEPT ![reg] = x] /\ t.f = m.f /\ t.mmr1 = m.mmr1
      /\ t.fuse = m.fuse /\ t.ok = m.ok /\ t.mem = m.mem
  BY DEF Whole, Shape, Parts
<1>2. t.r \in [0 .. 7 -> Word]
  BY <1>1 DEF Whole
<1>3. QED
  BY <1>1, <1>2 DEF Whole, Stores, SameFlow

LEMMA WriteBackWhole ==
  ASSUME NEW m, Whole(m), NEW spec \in Specifier, NEW byte \in BOOLEAN, NEW a, NEW d \in Operand(Size(byte))
  PROVE  Stores(m, WriteBack(m, spec, byte, a, d))
<1>0. spec.reg \in 0 .. 7 /\ m.r[spec.reg] \in Word
  BY DEF Specifier, Whole
<1>1. CASE byte /\ spec.mode = 0
  <2> DEFINE x == m.r[spec.reg]
             y == x - (x % ByteSize) + d
  <2>1. x % ByteSize \in 0 .. ByteSize - 1 /\ x \div ByteSize \in 0 .. ByteSize - 1 /\ d \in 0 .. ByteSize - 1
    BY <1>0, <1>1, BytesOfWord DEF Operand, Size
  <2>2. x - (x % ByteSize) = (x \div ByteSize) * ByteSize
    <3>1. \A z \in Nat, b \in Nat \ {0} : z - (z % b) = (z \div b) * b
      OBVIOUS
    <3>2. x \in Nat
      BY <1>0, WordPositive
    <3>3. ByteSize \in Nat \ {0}
      BY Sizes
    <3>4. QED
      BY <3>1, <3>2, <3>3
  <2>3. y \in Word
    BY <2>1, <2>2, WordOfBytes
  <2> HIDE DEF y
  <2> DEFINE t == [m EXCEPT !.r[spec.reg] = y]
  <2>4. WriteBack(m, spec, byte, a, d) = t
    BY <1>1 DEF WriteBack, WriteBackB, y
  <2>5. Stores(m, t)
    BY <1>0, <2>3, SetRegister
  <2>6. QED
    BY <2>4, <2>5
<1>2. CASE byte /\ spec.mode # 0
  BY <1>2, PutByteWhole DEF WriteBack, WriteBackB, Size
<1>3. CASE ~byte /\ spec.mode = 0
  <2> DEFINE t == [m EXCEPT !.r[spec.reg] = d]
  <2>1. d \in Word /\ WriteBack(m, spec, byte, a, d) = t
    BY <1>3 DEF WriteBack, WriteBackW, Size, Operand, Word
  <2>2. Stores(m, t)
    BY <1>0, <2>1, SetRegister
  <2>3. QED
    BY <2>1, <2>2
<1>4. CASE ~byte /\ spec.mode # 0
  BY <1>4, PutWordWhole DEF WriteBack, WriteBackW, Size, Operand, Word
<1>5. QED
  BY <1>1, <1>2, <1>3, <1>4

LEMMA CodesParts ==
  ASSUME NEW m, Shape(m), NEW cc
  PROVE  LET t == WithCodes(m, cc)
         IN  /\ Shape(t) /\ t.f = cc /\ t.r = m.r /\ t.mem = m.mem /\ t.mmr1 = m.mmr1
             /\ SameFlow(m, t)
  BY DEF WithCodes, Shape, Parts, SameFlow

LEMMA CodesWhole ==
  ASSUME NEW m, Whole(m), NEW cc
  PROVE  /\ Whole(WithCodes(m, cc)) /\ WithCodes(m, cc).f = cc /\ SameFlow(m, WithCodes(m, cc))
         /\ WithCodes(m, cc).r = m.r
         /\ \A s, k : Early(s, m, k) => Early(s, WithCodes(m, cc), k)
  BY CodesParts DEF Whole, Early, SameFlow

(* A store that may abort.                                                 *)
Outcome(s, m, t) ==
  /\ Whole(t) /\ t.f = m.f
  /\ ~t.ok => Early(s, t, 2)
  /\ Lit(m) => t.ok

LEMMA EarlyTwo == ASSUME NEW s, NEW m, NEW k \in 0 .. 2, Early(s, m, k) PROVE Early(s, m, 2)
<1>1. Len(m.mmr1) \in Nat
  BY DEF Early, Whole
<1>2. QED
  BY <1>1 DEF Early

LEMMA StoreAtEnds ==
  ASSUME NEW s, NEW m, NEW k \in 0 .. 2, NEW e, Aimed(s, m, k, e), NEW byte \in BOOLEAN,
         NEW d \in Operand(Size(byte))
  PROVE  Outcome(s, m, StoreAt(e, byte, d))
<1> DEFINE t == Refer(e.m)
           u == IF byte THEN PutByte(t, e.a, d) ELSE PutWord(t, e.a, d)
<1>1. Early(s, t, k) /\ Quiet(m, t)
  BY ReferEarly, QuietThen DEF Aimed
<1>2. StoreAt(e, byte, d) = IF t.ok THEN u ELSE t
  BY DEF StoreAt, Then
<1> HIDE DEF t
<1>3. Early(s, t, 2) /\ Whole(t)
  BY <1>1, EarlyTwo DEF Early
<1>4. Stores(t, u)
  BY <1>3, PutByteWhole, PutWordWhole DEF Size, Operand, Word
<1> HIDE DEF u
<1>5. CASE t.ok
  BY <1>1, <1>2, <1>4, <1>5 DEF Stores, SameFlow, Quiet, Outcome
<1>6. CASE ~t.ok
  BY <1>1, <1>2, <1>3, <1>6 DEF Quiet, Outcome, Lit
<1>7. QED
  BY <1>5, <1>6

LEMMA WriteOperandEnds ==
  ASSUME NEW s, NEW m, m.ok, NEW k \in 0 .. 1, Early(s, m, k), NEW spec \in Specifier
  PROVE  /\ \A d \in Word : Outcome(s, m, WriteOperandW(m, spec, d))
         /\ spec.mode # 0 => \A d \in Operand(ByteSize) : Outcome(s, m, WriteOperandB(m, spec, d))
<1>1. ASSUME NEW d \in Word PROVE Outcome(s, m, WriteOperandW(m, spec, d))
  <2>1. CASE spec.mode = 0
    <3> DEFINE t == [m EXCEPT !.r[spec.reg] = d]
    <3>1. Stores(m, t)
      BY SetRegister DEF Early, Specifier
    <3> HIDE DEF t
    <3>2. WriteOperandW(m, spec, d) = t
      BY <2>1 DEF WriteOperandW, t
    <3>3. QED
      BY <3>1, <3>2 DEF Outcome, Stores, SameFlow
  <2>2. CASE spec.mode # 0
    <3>1. Aimed(s, m, k + 1, GeteaW(m, spec)) /\ k + 1 \in 0 .. 2
      BY <2>2, GeteaWEarly
    <3>2. d \in Operand(Size(FALSE))
      BY DEF Operand, Size, Word
    <3>3. QED
      BY <2>2, <3>1, <3>2, StoreAtEnds DEF WriteOperandW
  <2>3. QED
    BY <2>1, <2>2
<1>2. ASSUME NEW d \in Operand(ByteSize), spec.mode # 0 PROVE Outcome(s, m, WriteOperandB(m, spec, d))
  <2>1. Aimed(s, m, k + 1, GeteaB(m, spec)) /\ k + 1 \in 0 .. 2
    BY <1>2, GeteaWEarly
  <2>2. d \in Operand(Size(TRUE))
    BY DEF Size
  <2>3. QED
    BY <2>1, <2>2, StoreAtEnds DEF WriteOperandB
<1>3. QED
  BY <1>1, <1>2

LEMMA MoveOperandEnds ==
  ASSUME NEW s, NEW m, m.ok, NEW k \in 0 .. 1, Early(s, m, k), NEW spec \in Specifier, NEW d \in Operand(ByteSize)
  PROVE  Outcome(s, m, MoveOperandB(m, spec, d))
<1>1. CASE spec.mode = 0
  <2> DEFINE x == Signed(ByteSize, d) % WordSize
             t == [m EXCEPT !.r[spec.reg] = x]
  <2>1. x \in Word
    BY Sizes, SignedType, Remainder DEF Operand
  <2> HIDE DEF x
  <2>2. Stores(m, t)
    BY <2>1, SetRegister DEF Early, Specifier
  <2> HIDE DEF t
  <2>3. MoveOperandB(m, spec, d) = t
    BY <1>1 DEF MoveOperandB, t, x
  <2>4. QED
    BY <2>2, <2>3 DEF Outcome, Stores, SameFlow
<1>2. CASE spec.mode # 0
  BY <1>2, WriteOperandEnds DEF MoveOperandB
<1>3. QED
  BY <1>1, <1>2

-----------------------------------------------------------------------------
(* What an aborted instruction may have made of the codes cc: as they      *)
(* were, or such that the instruction gives the same result with g.        *)
Alike(ins, g, cc) ==
  \/ g = cc
  \/ ins.op \in {"clr", "mfps"}
  \/ ins.op \in {"mov", "mfpi", "mfpd", "mtpi", "mtpd"} /\ g.c = cc.c
  \/ ins.op = "wrtlck" /\ ins.dst.mode # 0 /\ g.c = cc.c
  \/ ins.op = "sxt" /\ g.n = cc.n /\ g.c = cc.c

(* The end of an instruction that was in state m.                          *)
Ended(s, m, t, ins) ==
  /\ Whole(t)
  /\ ~t.ok => Early(s, t, 2) /\ Alike(ins, t.f, m.f)
  /\ Lit(m) => t.ok

LEMMA ReadEnds ==
  ASSUME NEW s, NEW m, NEW k \in 0 .. 2, NEW ins, NEW o, Aimed(s, m, k, o), NEW t,
         o.m.ok => Whole(t) /\ t.ok, ~o.m.ok => t = o.m
  PROVE  Ended(s, m, t, ins)
<1>1. Early(s, o.m, 2) /\ Whole(o.m) /\ o.m.f = m.f /\ (Lit(m) => Lit(o.m))
  BY EarlyTwo DEF Aimed, Quiet, Early
<1>2. CASE o.m.ok
  BY <1>2 DEF Ended
<1>3. CASE ~o.m.ok
  BY <1>1, <1>3 DEF Ended, Alike, Lit
<1>4. QED
  BY <1>2, <1>3

LEMMA ReferEnds ==
  ASSUME NEW s, NEW m, NEW k \in 0 .. 2, NEW ins, Early(s, m, k), NEW t,
         Refer(m).ok => Whole(t) /\ t.ok, ~Refer(m).ok => t = Refer(m)
  PROVE  Ended(s, m, t, ins)
<1>1. Early(s, Refer(m), 2) /\ Whole(Refer(m)) /\ Refer(m).f = m.f /\ (Lit(m) => Lit(Refer(m)))
  BY ReferEarly, EarlyTwo DEF Quiet, Early
<1>2. CASE Refer(m).ok
  BY <1>2 DEF Ended
<1>3. CASE ~Refer(m).ok
  BY <1>1, <1>3 DEF Ended, Alike, Lit
<1>4. QED
  BY <1>2, <1>3

LEMMA OutcomeEnds ==
  ASSUME NEW s, NEW m, NEW ins, NEW n, NEW t, Outcome(s, n, t), Alike(ins, n.f, m.f), Lit(m) => Lit(n)
  PROVE  Ended(s, m, t, ins)
  BY DEF Outcome, Ended

LEMMA DoneEnds ==
  ASSUME NEW s, NEW m, m.ok, NEW ins, NEW t, Whole(t), SameFlow(m, t)
  PROVE  Ended(s, m, t, ins)
  BY DEF Ended, SameFlow

LEMMA UpdateWhole ==
  ASSUME NEW o, Whole(o.m), NEW ins, ins.dst \in Specifier, ins.byte \in BOOLEAN,
         NEW res, res.d \in Operand(Size(ins.byte))
  PROVE  Whole(Update(o, ins, res)) /\ SameFlow(o.m, Update(o, ins, res))
<1> DEFINE t == WriteBack(o.m, ins.dst, ins.byte, o.a, res.d)
<1>1. Stores(o.m, t)
  BY WriteBackWhole
<1> HIDE DEF t
<1>2. Whole(WithCodes(t, res.f)) /\ SameFlow(t, WithCodes(t, res.f))
  BY <1>1, CodesWhole DEF Stores
<1>3. QED
  BY <1>1, <1>2 DEF Stores, SameFlow, Update, t

-----------------------------------------------------------------------------
LEMMA DecodedParts ==
  ASSUME NEW ins \in Decoded
  PROVE  /\ ins.src \in Specifier /\ ins.dst \in Specifier /\ ins.byte \in BOOLEAN
         /\ ins.off \in 0 .. ByteSize - 1
         /\ ins.src.reg \in 0 .. 7 /\ ins.dst.reg \in 0 .. 7
         /\ ins.op = "swab" => ~ins.byte
         /\ Sized(Size(ins.byte))
<1>1. /\ ins.src \in Specifier /\ ins.dst \in Specifier /\ ins.byte \in BOOLEAN
      /\ ins.off \in 0 .. ByteSize - 1
  BY DEF Decoded
<1>2. ins.op = "swab" => ~ins.byte
  BY DEF Decoded, ByteOps, UnaryOps
<1>3. QED
  BY <1>1, <1>2 DEF Specifier, Sized, Size

LEMMA ModifyEnds ==
  ASSUME NEW s, NEW m, Early(s, m, 0), m.ok, NEW ins \in Decoded, ins.op \in UnaryOps
  PROVE  Ended(s, m, Modify(m, ins), ins)
<1> DEFINE o == ReadOperand(m, ins.dst, ins.byte)
           res == Unary(ins.op, Size(ins.byte), o.x, m.f)
<1>1. Fetched(s, m, 1, o, ins.byte)
  <2>1. Fetched(s, m, 0 + 1, o, ins.byte)
    BY DecodedParts, ReadOperandEarly
  <2>2. QED
    BY <2>1
<1>2. Modify(m, ins) = IF o.m.ok THEN Update(o, ins, res) ELSE o.m
  BY DEF Modify, After
<1> HIDE DEF o
<1>3. res.d \in Operand(Size(ins.byte))
  BY <1>1, DecodedParts, UnaryType DEF Fetched, Size
<1> HIDE DEF res
<1>4. Whole(Update(o, ins, res)) /\ SameFlow(o.m, Update(o, ins, res))
  BY <1>1, <1>3, DecodedParts, UpdateWhole DEF Fetched, Aimed, Early
<1>5. QED
  BY <1>1, <1>2, <1>4, ReadEnds DEF Fetched, SameFlow

LEMMA TestEnds ==
  ASSUME NEW s, NEW m, Early(s, m, 0), m.ok, NEW ins \in Decoded
  PROVE  Ended(s, m, Test(m, ins), ins)
<1> DEFINE o == ReadOperand(m, ins.dst, ins.byte)
           cc == Tst(Size(ins.byte), o.x, m.f).f
<1>1. Fetched(s, m, 1, o, ins.byte)
  <2>1. Fetched(s, m, 0 + 1, o, ins.byte)
    BY DecodedParts, ReadOperandEarly
  <2>2. QED
    BY <2>1
<1>2. Test(m, ins) = IF o.m.ok THEN WithCodes(o.m, cc) ELSE o.m
  BY DEF Test, After
<1> HIDE DEF o, cc
<1>3. Whole(WithCodes(o.m, cc)) /\ SameFlow(o.m, WithCodes(o.m, cc))
  BY <1>1, CodesWhole DEF Fetched, Aimed, Early
<1>4. QED
  BY <1>1, <1>2, <1>3, ReadEnds DEF Fetched, SameFlow

LEMMA CombineEnds ==
  ASSUME NEW s, NEW m, Early(s, m, 0), m.ok, NEW ins \in Decoded, ins.op \in DyadicOps
  PROVE  Ended(s, m, Combine(m, ins), ins)
<1> DEFINE p == ReadOperand(m, ins.src, ins.byte)
           o == ReadOperand(p.m, ins.dst, ins.byte)
           res == Dyadic(ins.op, Size(ins.byte), p.x, o.x, m.f)
           u == IF ins.op \in ReadOnly THEN WithCodes(o.m, res.f) ELSE Update(o, ins, res)
<1>1. Fetched(s, m, 1, p, ins.byte)
  <2>1. Fetched(s, m, 0 + 1, p, ins.byte)
    BY DecodedParts, ReadOperandEarly
  <2>2. QED
    BY <2>1
<1>2. Combine(m, ins) = IF p.m.ok THEN IF o.m.ok THEN u ELSE o.m ELSE p.m
  BY DEF Combine, After
<1> HIDE DEF p
<1>3. Fetched(s, p.m, 2, o, ins.byte)
  <2>1. Fetched(s, p.m, 1 + 1, o, ins.byte)
    BY <1>1, DecodedParts, ReadOperandEarly DEF Fetched, Aimed
  <2>2. QED
    BY <2>1
<1> HIDE DEF o
<1>4. res.d \in Operand(Size(ins.byte))
  BY <1>1, <1>3, DecodedParts, DyadicType DEF Fetched
<1> HIDE DEF res
<1>5. Whole(u) /\ SameFlow(o.m, u)
  BY <1>3, <1>4, DecodedParts, UpdateWhole, CodesWhole DEF Fetched, Aimed, Early
<1> HIDE DEF u
<1>6. Aimed(s, m, 2, o)
  BY <1>1, <1>3, QuietThen DEF Fetched, Aimed
<1>7. CASE p.m.ok
  BY <1>2, <1>5, <1>6, <1>7, ReadEnds DEF SameFlow
<1>8. CASE ~p.m.ok
  BY <1>1, <1>2, <1>8, ReadEnds DEF Fetched
<1>9. QED
  BY <1>7, <1>8

LEMMA ClearEnds ==
  ASSUME NEW s, NEW m, Early(s, m, 0), m.ok, NEW ins \in Decoded, ins.op = "clr"
  PROVE  Ended(s, m, Clear(m, ins), ins)
<1> DEFINE t == WithCodes(m, Flags(FALSE, TRUE, FALSE, FALSE))
<1>1. Early(s, t, 0) /\ Whole(t) /\ SameFlow(m, t) /\ t.ok
  <2>1. Whole(m)
    BY DEF Early
  <2>2. Early(s, t, 0) /\ Whole(t) /\ SameFlow(m, t)
    BY <2>1, CodesWhole
  <2>3. QED
    BY <2>2 DEF SameFlow
<1> HIDE DEF t
<1>2. Alike(ins, t.f, m.f) /\ (Lit(m) => Lit(t))
  BY <1>1 DEF Alike, SameFlow, Lit
<1>3. 0 \in Word /\ 0 \in Operand(ByteSize)
  BY Sizes DEF Word, Operand
<1>4. CASE ~ins.byte
  <2>1. Outcome(s, t, WriteOperandW(t, ins.dst, 0))
    BY <1>1, <1>3, DecodedParts, WriteOperandEnds
  <2>2. QED
    BY <1>2, <1>4, <2>1, OutcomeEnds DEF Clear, t
<1>5. CASE ins.byte /\ ins.dst.mode # 0
  <2>1. Outcome(s, t, WriteOperandB(t, ins.dst, 0))
    BY <1>1, <1>3, <1>5, DecodedParts, WriteOperandEnds
  <2>2. QED
    BY <1>2, <1>5, <2>1, OutcomeEnds DEF Clear, t
<1>6. CASE ins.byte /\ ins.dst.mode = 0
  <2>1. Stores(t, WriteBack(t, ins.dst, TRUE, 0, 0))
    BY <1>1, <1>3, DecodedParts, WriteBackWhole DEF Size
  <2>2. Clear(m, ins) = WriteBack(t, ins.dst, TRUE, 0, 0)
    BY <1>6 DEF Clear, t, WriteBack
  <2>3. QED
    BY <1>1, <2>1, <2>2, DoneEnds DEF Stores, SameFlow
<1>7. QED
  BY <1>4, <1>5, <1>6, DecodedParts

LEMMA MovCodes ==
  ASSUME NEW sz, NEW x, NEW cc PROVE Mov(sz, x, cc).f.c = cc.c
  BY DEF Mov, Result, Flags

LEMMA MoveEnds ==
  ASSUME NEW s, NEW m, Early(s, m, 0), m.ok, NEW ins \in Decoded, ins.op = "mov"
  PROVE  Ended(s, m, Move(m, ins), ins)
<1> DEFINE p == ReadOperand(m, ins.src, ins.byte)
           n == WithCodes(p.m, Mov(Size(ins.byte), p.x, m.f).f)
           t == Put(n, ins, p.x)
<1>1. Fetched(s, m, 1, p, ins.byte)
  <2>1. Fetched(s, m, 0 + 1, p, ins.byte)
    BY DecodedParts, ReadOperandEarly
  <2>2. QED
    BY <2>1
<1>2. Move(m, ins) = IF p.m.ok THEN t ELSE p.m
  BY DEF Move, After
<1> HIDE DEF p
<1>3. Early(s, n, 1) /\ SameFlow(p.m, n) /\ Alike(ins, n.f, m.f)
  <2>1. Early(s, p.m, 1) /\ Whole(p.m)
    BY <1>1 DEF Fetched, Aimed, Early
  <2>2. Early(s, n, 1) /\ SameFlow(p.m, n) /\ n.f = Mov(Size(ins.byte), p.x, m.f).f
    BY <2>1, CodesWhole
  <2> HIDE DEF n
  <2>3. n.f.c = m.f.c
    BY <2>2, MovCodes
  <2>4. QED
    BY <2>2, <2>3 DEF Alike
<1> HIDE DEF n
<1>4. Lit(m) => Lit(n)
  BY <1>1, <1>3 DEF Fetched, Aimed, Quiet, Lit, SameFlow
<1>5. CASE p.m.ok
  <2>1. n.ok
    BY <1>3, <1>5 DEF SameFlow
  <2>2. Outcome(s, n, t)
    <3>1. CASE ins.byte
      BY <1>1, <1>3, <2>1, <3>1, DecodedParts, MoveOperandEnds DEF Fetched, Size, Put
    <3>2. CASE ~ins.byte
      BY <1>1, <1>3, <2>1, <3>2, DecodedParts, WriteOperandEnds DEF Fetched, Size, Put, Operand, Word
    <3>3. QED
      BY <3>1, <3>2
  <2> HIDE DEF t
  <2>3. QED
    BY <1>2, <1>3, <1>4, <1>5, <2>2, OutcomeEnds
<1>6. CASE ~p.m.ok
  BY <1>1, <1>2, <1>6, ReadEnds DEF Fetched
<1>7. QED
  BY <1>5, <1>6

LEMMA WrapWord ==
  ASSUME NEW x \in Int, -WordSize <= x, x < WordSize + WordSize PROVE Wrap(WordSize, x) \in Word
<1>1. Sized(WordSize)
  BY DEF Sized
<1>2. QED
  BY <1>1, WrapType DEF Operand, Word

LEMMA SignExtendEnds ==
  ASSUME NEW s, NEW m, Early(s, m, 0), m.ok, NEW ins \in Decoded, ins.op = "sxt"
  PROVE  Ended(s, m, SignExtend(m, ins), ins)
<1> DEFINE res == Sxt(m.f)
           n == WithCodes(m, res.f)
<1>1. Early(s, n, 0) /\ SameFlow(m, n) /\ n.f = res.f
  <2>1. Whole(m)
    BY DEF Early
  <2>2. QED
    BY <2>1, CodesWhole
<1>2. res.d \in Word
  BY Sizes DEF Sxt, Word
<1>3. res.f.n = m.f.n /\ res.f.c = m.f.c
  BY DEF Sxt, Flags
<1>4. SignExtend(m, ins) = WriteOperandW(n, ins.dst, res.d)
  BY DEF SignExtend
<1> HIDE DEF n, res
<1>5. Alike(ins, n.f, m.f) /\ (Lit(m) => Lit(n)) /\ n.ok
  BY <1>1, <1>3 DEF Alike, SameFlow, Lit
<1>6. Outcome(s, n, WriteOperandW(n, ins.dst, res.d))
  BY <1>1, <1>2, <1>5, DecodedParts, WriteOperandEnds
<1>7. QED
  BY <1>4, <1>5, <1>6, OutcomeEnds

LEMMA PushWordEnds ==
  ASSUME NEW s, NEW m, Early(s, m, 2), NEW d \in Word
  PROVE  Outcome(s, m, PushWord(m, d))
<1> DEFINE t == Refer(m)
           u == PutWord(t, t.r[StackReg], d)
<1>1. Early(s, t, 2) /\ Quiet(m, t) /\ Whole(t)
  BY ReferEarly DEF Early
<1>2. PushWord(m, d) = IF t.ok THEN CheckStack(u) ELSE t
  BY DEF PushWord, Then
<1> HIDE DEF t
<1>3. Stores(t, u)
  BY <1>1, PutWordWhole
<1> HIDE DEF u
<1>4. Shape(u) /\ Whole(u)
  BY <1>3 DEF Stores, Whole
<1>5. Whole(CheckStack(u)) /\ CheckStack(u).f = u.f /\ CheckStack(u).ok = u.ok
  BY <1>4, CheckStackParts DEF Whole
<1>6. CASE t.ok
  BY <1>1, <1>2, <1>3, <1>5, <1>6 DEF Stores, SameFlow, Quiet, Outcome
<1>7. CASE ~t.ok
  BY <1>1, <1>2, <1>7 DEF Quiet, Outcome, Lit
<1>8. QED
  BY <1>6, <1>7

LEMMA ReadFirst ==
  ASSUME NEW s, NEW m, Early(s, m, 0), NEW spec \in Specifier
  PROVE  /\ Fetched(s, m, 1, ReadOperandW(m, spec), FALSE)
         /\ Fetched(s, m, 1, ReadOperandB(m, spec), TRUE)
<1>1. \A byte \in BOOLEAN : Fetched(s, m, 0 + 1, ReadOperand(m, spec, byte), byte)
  BY ReadOperandEarly
<1>2. ReadOperand(m, spec, FALSE) = ReadOperandW(m, spec) /\ ReadOperand(m, spec, TRUE) = ReadOperandB(m, spec)
  BY DEF ReadOperand
<1>3. 0 + 1 = 1
  OBVIOUS
<1>4. QED
  BY <1>1, <1>2, <1>3

LEMMA MoveFromEnds ==
  ASSUME NEW s, NEW m, Early(s, m, 0), m.ok, NEW ins \in Decoded, ins.op \in {"mfpi", "mfpd"}
  PROVE  Ended(s, m, MoveFromPrevious(m, ins), ins)
<1> DEFINE o == ReadOperandW(m, ins.dst)
           n == WithCodes(o.m, Mov(WordSize, o.x, m.f).f)
           q == StackDown(n)
           t == PushWord(q, o.x)
<1>1. Fetched(s, m, 1, o, FALSE)
  BY DecodedParts, ReadFirst
<1>2. MoveFromPrevious(m, ins) = IF o.m.ok THEN t ELSE o.m
  BY DEF MoveFromPrevious, After
<1> HIDE DEF o
<1>3. Early(s, n, 1) /\ SameFlow(o.m, n) /\ Alike(ins, n.f, m.f)
  <2>1. Early(s, o.m, 1) /\ Whole(o.m)
    BY <1>1 DEF Fetched, Aimed, Early
  <2>2. Early(s, n, 1) /\ SameFlow(o.m, n) /\ n.f = Mov(WordSize, o.x, m.f).f
    BY <2>1, CodesWhole
  <2> HIDE DEF n
  <2>3. n.f.c = m.f.c
    BY <2>2, MovCodes
  <2>4. QED
    BY <2>2, <2>3 DEF Alike
<1> HIDE DEF n
<1>4. Early(s, q, 2) /\ Quiet(n, q)
  <2>1. Early(s, q, 1 + 1) /\ Quiet(n, q)
    BY <1>3, StepEarly DEF StackDown, StackReg
  <2>2. QED
    BY <2>1
<1> HIDE DEF q
<1>5. Outcome(s, q, t)
  BY <1>1, <1>4, PushWordEnds DEF Fetched, Size, Operand, Word
<1> HIDE DEF t
<1>6. Alike(ins, q.f, m.f) /\ (Lit(m) => Lit(q))
  BY <1>1, <1>3, <1>4 DEF Fetched, Aimed, Quiet, SameFlow, Lit
<1>7. CASE o.m.ok
  BY <1>2, <1>5, <1>6, <1>7, OutcomeEnds
<1>8. CASE ~o.m.ok
  BY <1>1, <1>2, <1>8, ReadEnds DEF Fetched
<1>9. QED
  BY <1>7, <1>8

LEMMA MoveToEnds ==
  ASSUME NEW s, NEW m, Early(s, m, 0), m.ok, NEW ins \in Decoded, ins.op \in {"mtpi", "mtpd"}
  PROVE  Ended(s, m, MoveToPrevious(m, ins), ins)
<1> DEFINE x == WordAt(m, m.r[StackReg])
           t == Refer(m)
           q == Step(t, StackReg, 2)
           n == WithCodes(q, Mov(WordSize, x, m.f).f)
           u == WriteOperandW(n, ins.dst, x)
<1>1. x \in Word
  BY EarlyTypes
<1>2. Early(s, t, 0) /\ Quiet(m, t)
  BY ReferEarly
<1>3. MoveToPrevious(m, ins) = IF t.ok THEN u ELSE t
  BY DEF MoveToPrevious, Then
<1>4. ~t.ok => t = Refer(m)
  OBVIOUS
<1>5. (Refer(m).ok <=> t.ok)
  OBVIOUS
<1> HIDE DEF t, x
<1>6. Early(s, q, 1) /\ Quiet(t, q) /\ q.ok = t.ok
  <2>1. Early(s, q, 0 + 1) /\ Quiet(t, q) /\ q.ok = t.ok
    BY <1>2, StepEarly DEF StackReg
  <2>2. QED
    BY <2>1
<1> HIDE DEF q
<1>7. Early(s, n, 1) /\ SameFlow(q, n) /\ n.f = Mov(WordSize, x, m.f).f
  <2>1. Whole(q)
    BY <1>6 DEF Early
  <2>2. QED
    BY <1>6, <2>1, CodesWhole
<1> HIDE DEF n
<1>8. Alike(ins, n.f, m.f)
  BY <1>7, MovCodes DEF Alike
<1>9. Lit(m) => Lit(n)
  BY <1>2, <1>6, <1>7 DEF Quiet, SameFlow, Lit
<1>10. CASE t.ok
  <2>1. n.ok
    BY <1>6, <1>7, <1>10 DEF SameFlow
  <2>2. Outcome(s, n, u)
    BY <1>1, <1>7, <2>1, DecodedParts, WriteOperandEnds
  <2> HIDE DEF u
  <2>3. QED
    BY <1>3, <1>8, <1>9, <1>10, <2>2, OutcomeEnds
<1>11. CASE ~t.ok
  <2>1. Early(s, t, 2) /\ Whole(t)
    BY <1>2, EarlyTwo DEF Early
  <2>2. QED
    BY <1>2, <1>3, <1>11, <2>1 DEF Ended, Alike, Quiet, Lit
<1>12. QED
  BY <1>10, <1>11

LEMMA TrapEnds ==
  ASSUME NEW s, NEW m, Whole(m), m.ok, NEW ins, NEW x
  PROVE  Ended(s, m, SetTrap(m, x), ins)
<1>1. LET t == SetTrap(m, x)
      IN  /\ Shape(t) /\ t.f = m.f /\ t.r = m.r /\ t.mem = m.mem /\ t.mmr1 = m.mmr1
          /\ t.fuse = m.fuse /\ t.ok = m.ok
  BY DEF SetTrap, Whole, Shape, Parts
<1>2. Whole(SetTrap(m, x)) /\ SameFlow(m, SetTrap(m, x))
  BY <1>1 DEF Whole, SameFlow
<1>3. QED
  BY <1>2, DoneEnds

LEMMA TestAndSetEnds ==
  ASSUME NEW s, NEW m, Early(s, m, 0), m.ok, NEW ins \in Decoded
  PROVE  Ended(s, m, TestAndSet(m, ins), ins)
<1>1. CASE ins.dst.mode = 0
  BY <1>1, TrapEnds DEF TestAndSet, Early
<1>2. CASE ins.dst.mode # 0
  <2> DEFINE o == ReadOperandW(m, ins.dst)
             d == o.m.r[0] - (o.m.r[0] % 2) + 1
             t == PutWord(o.m, o.a, d)
             q == [t EXCEPT !.r[0] = o.x]
             cc == Result(WordSize, o.x, FALSE, Odd(o.x)).f
             u == WithCodes(q, cc)
  <2>1. Fetched(s, m, 1, o, FALSE)
    BY DecodedParts, ReadFirst
  <2>2. TestAndSet(m, ins) = IF o.m.ok THEN u ELSE o.m
    BY <1>2 DEF TestAndSet, After
  <2> HIDE DEF o
  <2>3. Whole(o.m) /\ o.m.r[0] \in Word /\ o.x \in Word
    <3>1. Early(s, o.m, 1) /\ o.x \in Operand(WordSize)
      BY <2>1 DEF Fetched, Aimed, Size
    <3>2. 0 \in 0 .. 7 /\ o.x \in Word
      BY <3>1 DEF Operand, Word
    <3>3. Whole(o.m)
      BY <3>1 DEF Early
    <3>4. QED
      BY <3>2, <3>3 DEF Whole
  <2>4. d \in Word
    <3>1. \A h \in Nat \ {0} : \A x \in 0 .. 2 * h - 1 : x - (x % 2) + 1 \in 0 .. 2 * h - 1
      OBVIOUS
    <3>2. QED
      BY <2>3, <3>1, Sizes DEF Word
  <2> HIDE DEF d
  <2>5. Stores(o.m, t)
    BY <2>3, <2>4, PutWordWhole
  <2> HIDE DEF t
  <2>6. Stores(t, q)
    <3>1. Whole(t) /\ 0 \in 0 .. 7
      BY <2>5 DEF Stores
    <3>2. \A x \in Word : Stores(t, [t EXCEPT !.r[0] = x])
      BY <3>1, SetRegister
    <3>3. QED
      BY <2>3, <3>2
  <2> HIDE DEF q
  <2>7. Whole(u) /\ SameFlow(q, u)
    BY <2>6, CodesWhole DEF Stores
  <2> HIDE DEF u
  <2>8. QED
    BY <2>1, <2>2, <2>5, <2>6, <2>7, ReadEnds DEF Fetched, Stores, SameFlow
<1>3. QED
  BY <1>1, <1>2

LEMMA WriteLockedEnds ==
  ASSUME NEW s, NEW m, Early(s, m, 0), m.ok, NEW ins \in Decoded, ins.op = "wrtlck"
  PROVE  Ended(s, m, WriteLocked(m, ins), ins)
<1>1. CASE ins.dst.mode = 0
  BY <1>1, TrapEnds DEF WriteLocked, Early
<1>2. CASE ins.dst.mode # 0
  <2> DEFINE n == WithCodes(m, Mov(WordSize, m.r[0], m.f).f)
  <2>1. Early(s, n, 0) /\ SameFlow(m, n) /\ n.f = Mov(WordSize, m.r[0], m.f).f
    <3>1. Whole(m)
      BY DEF Early
    <3>2. QED
      BY <3>1, CodesWhole
  <2>2. WriteLocked(m, ins) = WriteOperandW(n, ins.dst, m.r[0]) /\ m.r[0] \in Word
    BY <1>2, EarlyTypes DEF WriteLocked
  <2> HIDE DEF n
  <2>3. Alike(ins, n.f, m.f) /\ (Lit(m) => Lit(n)) /\ n.ok
    BY <1>2, <2>1, MovCodes DEF Alike, SameFlow, Lit
  <2>4. Outcome(s, n, WriteOperandW(n, ins.dst, m.r[0]))
    BY <2>1, <2>2, <2>3, DecodedParts, WriteOperandEnds
  <2>5. QED
    BY <2>2, <2>3, <2>4, OutcomeEnds
<1>3. QED
  BY <1>1, <1>2

LEMMA MoveFromPswEnds ==
  ASSUME NEW s, NEW m, Early(s, m, 0), m.ok, NEW ins \in Decoded, ins.op = "mfps"
  PROVE  Ended(s, m, MoveFromPsw(m, ins), ins)
<1> DEFINE x == 8 * OneIf(m.f.n) + 4 * OneIf(m.f.z) + 2 * OneIf(m.f.v) + OneIf(m.f.c)
           d == x % ByteSize
           n == WithCodes(m, Mov(ByteSize, d, m.f).f)
<1>1. Early(s, n, 0) /\ SameFlow(m, n)
  <2>1. Whole(m)
    BY DEF Early
  <2>2. QED
    BY <2>1, CodesWhole
<1>2. MoveFromPsw(m, ins) = MoveOperandB(n, ins.dst, d)
  BY DEF MoveFromPsw
<1>3. x \in Int
  BY DEF OneIf
<1> HIDE DEF x
<1>4. d \in Operand(ByteSize)
  <2>1. ByteSize \in Nat \ {0}
    BY Sizes
  <2>2. QED
    BY <1>3, <2>1, Divides DEF Operand
<1> HIDE DEF d, n
<1>5. Alike(ins, n.f, m.f) /\ (Lit(m) => Lit(n)) /\ n.ok
  BY <1>1 DEF Alike, SameFlow, Lit
<1>6. Outcome(s, n, MoveOperandB(n, ins.dst, d))
  BY <1>1, <1>4, <1>5, DecodedParts, MoveOperandEnds
<1>7. QED
  BY <1>2, <1>5, <1>6, OutcomeEnds

LEMMA MoveToPswEnds ==
  ASSUME NEW s, NEW m, Early(s, m, 0), m.ok, NEW ins \in Decoded
  PROVE  Ended(s, m, MoveToPsw(m, ins), ins)
<1> DEFINE o == ReadOperandB(m, ins.dst)
<1>1. Fetched(s, m, 1, o, TRUE)
  BY DecodedParts, ReadFirst
<1>2. MoveToPsw(m, ins) = IF o.m.ok THEN WithCodes(o.m, CodesOf(o.x)) ELSE o.m
  BY DEF MoveToPsw, After
<1> HIDE DEF o
<1>3. Whole(WithCodes(o.m, CodesOf(o.x))) /\ SameFlow(o.m, WithCodes(o.m, CodesOf(o.x)))
  <2>1. Whole(o.m)
    BY <1>1 DEF Fetched, Aimed, Early
  <2>2. QED
    BY <2>1, CodesWhole
<1>4. QED
  BY <1>1, <1>2, <1>3, ReadEnds DEF Fetched, SameFlow

LEMMA WordOfThree == WordSize \in Nat /\ WordSize >= 8
<1>1. ByteBits \in Nat /\ ByteBits > 1 /\ WordBits \in Nat /\ WordBits >= 4
      /\ IntBits \in Nat /\ WordBits <= IntBits
  BY ByteBitsAssumption DEF WordBits, IntBits
<1>2. Power(1) /\ Power(2) /\ Power(3)
  BY <1>1 DEF Power
<1>3. TwoTo[1] = 2 * TwoTo[0] /\ TwoTo[2] = 2 * TwoTo[1] /\ TwoTo[3] = 2 * TwoTo[2] /\ TwoTo[0] = 1
  <2>1. 1 - 1 = 0 /\ 2 - 1 = 1 /\ 3 - 1 = 2
    OBVIOUS
  <2>2. TwoTo[1] = 2 * TwoTo[1 - 1] /\ TwoTo[2] = 2 * TwoTo[2 - 1] /\ TwoTo[3] = 2 * TwoTo[3 - 1]
    BY <1>2, Doubling
  <2>3. QED
    BY <2>1, <2>2, Doubling
<1>4. TwoTo[3] <= TwoTo[WordBits]
  BY <1>1, PowersGrow DEF Power
<1>5. QED
  BY <1>3, <1>4, Sizes DEF WordSize

LEMMA RegisterSet ==
  ASSUME NEW m, Whole(m), NEW reg \in 0 .. 7, NEW x \in Word
  PROVE  Whole([m EXCEPT !.r[reg] = x]) /\ SameFlow(m, [m EXCEPT !.r[reg] = x])
<1> DEFINE t == [m EXCEPT !.r[reg] = x]
<1>1. Stores(m, t)
  BY SetRegister
<1>2. QED
  BY <1>1 DEF Stores

LEMMA FlowOn ==
  ASSUME NEW m, NEW t, NEW u, SameFlow(m, t), SameFlow(t, u) PROVE SameFlow(m, u)
  BY DEF SameFlow

LEMMA OneSet ==
  ASSUME NEW m, Whole(m), NEW reg \in 0 .. 7, NEW res, res.d \in Word
  PROVE  Whole(SetOne(m, reg, res)) /\ SameFlow(m, SetOne(m, reg, res))
<1> DEFINE t == [m EXCEPT !.r[reg] = res.d]
<1>1. Whole(t) /\ SameFlow(m, t) /\ Shape(t)
  BY RegisterSet DEF Whole
<1>2. SetOne(m, reg, res) = WithCodes(t, res.f)
  BY DEF SetOne, WithCodes, Whole, Shape, Parts
<1> HIDE DEF t
<1>3. QED
  BY <1>1, <1>2, CodesWhole, FlowOn

LEMMA PairSet ==
  ASSUME NEW m, Whole(m), NEW reg \in 0 .. 7, NEW p, p.hi \in Word, p.lo \in Word
  PROVE  Whole(SetPair(m, reg, p)) /\ SameFlow(m, SetPair(m, reg, p))
<1> DEFINE t == [m EXCEPT !.r[reg] = p.hi]
           u == [t EXCEPT !.r[Partner(reg)] = p.lo]
<1>1. Partner(reg) \in 0 .. 7
  BY DEF Partner
<1>2. Whole(t) /\ SameFlow(m, t)
  BY RegisterSet
<1>3. SetPair(m, reg, p) = WithCodes(u, p.f)
  BY DEF SetPair, WithCodes, Whole, Shape, Parts
<1> HIDE DEF t
<1>4. Whole(u) /\ SameFlow(t, u)
  BY <1>1, <1>2, RegisterSet
<1> HIDE DEF u
<1>5. QED
  BY <1>2, <1>3, <1>4, CodesWhole, FlowOn

LEMMA ExtendedEnds ==
  ASSUME NEW s, NEW m, Early(s, m, 0), m.ok, NEW ins \in Decoded,
         ins.op \in {"mul", "div", "ash", "ashc", "xor"}
  PROVE  Ended(s, m, Extended(m, ins), ins)
<1> DEFINE o == ReadOperandW(m, ins.dst)
           reg == ins.src.reg
           hi == o.m.r[reg]
           lo == o.m.r[Partner(reg)]
           t == CASE ins.op = "mul" -> SetPair(o.m, reg, Mul(hi, o.x))
                  [] ins.op = "div" -> SetQuotient(o.m, reg, Div(hi, lo, o.x, m.f))
                  [] ins.op = "ash" -> SetOne(o.m, reg, Ash(hi, o.x))
                  [] ins.op = "ashc" -> SetPair(o.m, reg, Ashc(hi, lo, o.x))
                  [] ins.op = "xor" -> Update(o, ins, Xor(WordSize, hi, o.x, m.f))
<1>1. Fetched(s, m, 1, o, FALSE)
  BY DecodedParts, ReadFirst
<1>2. Extended(m, ins) = IF o.m.ok THEN t ELSE o.m
  BY DEF Extended, After
<1> HIDE DEF o
<1>3. Whole(o.m) /\ o.x \in Word
  BY <1>1 DEF Fetched, Aimed, Early, Size, Operand, Word
<1>4. reg \in 0 .. 7 /\ Partner(reg) \in 0 .. 7
  BY DecodedParts DEF Partner
<1>5. hi \in Word /\ lo \in Word
  BY <1>3, <1>4 DEF Whole
<1> HIDE DEF hi, lo, reg
<1>6. Whole(t) /\ SameFlow(o.m, t)
  <2>1. CASE ins.op = "mul"
    BY <1>3, <1>4, <1>5, <2>1, MulType, PairSet
  <2>2. CASE ins.op = "div"
    <3> DEFINE p == Div(hi, lo, o.x, m.f)
    <3>1. p.hi \in Word /\ p.lo \in Word
      BY <1>3, <1>5, DivType
    <3>2. t = SetQuotient(o.m, reg, p)
      BY <2>2
    <3> HIDE DEF p, t
    <3>3. QED
      BY <1>3, <1>4, <3>1, <3>2, PairSet, CodesWhole DEF SetQuotient
  <2>3. CASE ins.op = "ash"
    BY <1>3, <1>4, <1>5, <2>3, AshType, OneSet
  <2>4. CASE ins.op = "ashc"
    BY <1>3, <1>4, <1>5, <2>4, AshcType, PairSet
  <2>5. CASE ins.op = "xor"
    <3> DEFINE res == Xor(WordSize, hi, o.x, m.f)
    <3>1. res.d \in Operand(WordSize)
      <4>1. hi \in Operand(WordSize) /\ o.x \in Operand(WordSize) /\ Sized(WordSize)
        BY <1>3, <1>5 DEF Operand, Word, Sized
      <4>2. (Bits(hi) \ Bits(o.x)) \cup (Bits(o.x) \ Bits(hi)) \subseteq Bits(hi) \cup Bits(o.x)
        OBVIOUS
      <4>3. QED
        BY <4>1, <4>2, LogicalType DEF Xor
    <3>2. t = Update(o, ins, res)
      BY <2>5
    <3> HIDE DEF res, t
    <3>3. ~ins.byte
      BY <2>5 DEF Decoded, ByteOps, UnaryOps
    <3>4. QED
      BY <1>3, <3>1, <3>2, <3>3, DecodedParts, UpdateWhole DEF Size
  <2>6. QED
    BY <2>1, <2>2, <2>3, <2>4, <2>5
<1> HIDE DEF t
<1>7. QED
  BY <1>1, <1>2, <1>6, ReadEnds DEF Fetched, SameFlow

-----------------------------------------------------------------------------
LEMMA JumpWhole ==
  ASSUME NEW m, Whole(m), NEW a \in Word PROVE Whole(JumpTo(m, a)) /\ SameFlow(m, JumpTo(m, a))
  BY RegisterSet DEF JumpTo, PC

LEMMA BranchEnds ==
  ASSUME NEW s, NEW m, Whole(m), m.ok, NEW ins \in Decoded
  PROVE  Ended(s, m, Branch(m, ins), ins)
<1> DEFINE twice == (2 * ins.off) % ByteSize
           by == IF Sign(ByteSize, ins.off) THEN twice + WordSize - ByteSize ELSE twice
           a == Wrap(WordSize, m.r[PC] + by)
<1>1. ins.off \in Nat /\ ByteSize \in Nat \ {0} /\ ByteSize <= WordSize /\ WordSize \in Nat
  BY DecodedParts, Sizes
<1>2. twice \in 0 .. ByteSize - 1
  <2>1. 2 * ins.off \in Int
    BY <1>1
  <2>2. QED
    BY <1>1, <2>1, Divides
<1> HIDE DEF twice
<1>3. by \in 0 .. WordSize - 1
  BY <1>1, <1>2
<1> HIDE DEF by
<1>4. m.r[PC] \in 0 .. WordSize - 1
  <2>1. m.r \in [0 .. 7 -> Word]
    BY DEF Whole
  <2>2. QED
    BY <2>1 DEF PC, Word
<1>5. a \in Word
  <2>1. m.r[PC] + by \in Int /\ -WordSize <= m.r[PC] + by /\ m.r[PC] + by < WordSize + WordSize
    BY <1>1, <1>3, <1>4
  <2>2. QED
    BY <2>1, WrapWord
<1>6. Branch(m, ins) = IF Taken(ins.op, m.f) THEN JumpTo(m, a) ELSE m
  BY DEF Branch, by, twice
<1> HIDE DEF a
<1>7. QED
  BY <1>5, <1>6, JumpWhole, DoneEnds DEF SameFlow

LEMMA SubtractOneEnds ==
  ASSUME NEW s, NEW m, Whole(m), m.ok, NEW ins \in Decoded
  PROVE  Ended(s, m, SubtractOneBranch(m, ins), ins)
<1> DEFINE reg == ins.src.reg
           x == Wrap(WordSize, m.r[reg] - 1)
           t == [m EXCEPT !.r[reg] = x]
           a == Wrap(WordSize, t.r[PC] - 2 * ins.off)
<1>1. WordSize \in Nat /\ ByteSize \in Nat \ {0} /\ 2 * (ByteSize - 1) <= WordSize
  <2>1. \A b \in Nat \ {0} : 2 * (b - 1) <= b * b
    <3> TAKE b \in Nat \ {0}
    <3>1. CASE b = 1
      BY <3>1
    <3>2. CASE b # 1
      <4>1. (b - 2) * b \in Nat /\ (b - 2) * b = b * b - 2 * b
        BY <3>2
      <4>2. QED
        BY <4>1
    <3>3. QED
      BY <3>1, <3>2
  <2>2. QED
    BY <2>1, Sizes
<1>2. reg \in 0 .. 7 /\ m.r[reg] \in 0 .. WordSize - 1 /\ ins.off \in 0 .. ByteSize - 1
  BY DecodedParts DEF Whole, Word
<1>3. x \in Word
  BY <1>1, <1>2, WrapWord
<1>4. SubtractOneBranch(m, ins) = IF t.r[reg] = 0 THEN t ELSE JumpTo(t, a)
  BY DEF SubtractOneBranch
<1> HIDE DEF reg, x
<1>5. Whole(t) /\ SameFlow(m, t)
  BY <1>2, <1>3, RegisterSet
<1> HIDE DEF t
<1>6. t.r[PC] \in 0 .. WordSize - 1
  <2>1. PC \in 0 .. 7
    BY DEF PC
  <2>2. QED
    BY <1>5, <2>1 DEF Whole, Word
<1>7. a \in Word
  BY <1>1, <1>2, <1>6, WrapWord
<1> HIDE DEF a
<1>8. QED
  BY <1>4, <1>5, <1>7, JumpWhole, FlowOn, DoneEnds

LEMMA JumpEnds ==
  ASSUME NEW s, NEW m, Early(s, m, 0), m.ok, NEW ins \in Decoded
  PROVE  Ended(s, m, Jump(m, ins), ins)
<1>1. CASE ins.dst.mode = 0
  BY <1>1, TrapEnds DEF Jump, Early
<1>2. CASE ins.dst.mode # 0
  <2> DEFINE e == GeteaW(m, ins.dst)
  <2>1. Aimed(s, m, 1, e)
    <3>1. Aimed(s, m, 0 + 1, e)
      BY <1>2, DecodedParts, GeteaWEarly
    <3>2. QED
      BY <3>1
  <2>2. Jump(m, ins) = IF e.m.ok THEN JumpTo(e.m, e.a) ELSE e.m
    BY <1>2 DEF Jump, After
  <2> HIDE DEF e
  <2>3. Whole(JumpTo(e.m, e.a)) /\ SameFlow(e.m, JumpTo(e.m, e.a))
    BY <2>1, JumpWhole DEF Aimed, Early
  <2>4. QED
    BY <2>1, <2>2, <2>3, ReadEnds DEF SameFlow
<1>3. QED
  BY <1>1, <1>2

LEMMA LinkEnds ==
  ASSUME NEW s, NEW m, Early(s, m, 2), NEW reg \in 0 .. 7, NEW a \in Word, NEW ins
  PROVE  Ended(s, m, Link(m, reg, a), ins)
<1> DEFINE t == PushWord(m, m.r[reg])
           u == [t EXCEPT !.r[reg] = t.r[PC]]
<1>1. m.r[reg] \in Word
  BY EarlyTypes
<1>2. Outcome(s, m, t)
  BY <1>1, PushWordEnds
<1>3. Link(m, reg, a) = IF t.ok THEN JumpTo(u, a) ELSE t
  BY DEF Link, Then
<1> HIDE DEF t
<1>4. Whole(t) /\ t.r[PC] \in Word
  BY <1>2 DEF Outcome, Whole, PC
<1>5. Whole(u) /\ SameFlow(t, u)
  BY <1>4, RegisterSet
<1> HIDE DEF u
<1>6. Whole(JumpTo(u, a)) /\ SameFlow(u, JumpTo(u, a))
  BY <1>5, JumpWhole
<1>7. QED
  BY <1>2, <1>3, <1>5, <1>6 DEF Outcome, Ended, Alike, SameFlow

LEMMA EndedFrom ==
  ASSUME NEW s, NEW m, NEW n, NEW t, NEW ins, Quiet(m, n), Ended(s, n, t, ins)
  PROVE  Ended(s, m, t, ins)
  BY DEF Ended, Quiet

LEMMA JumpToSubroutineEnds ==
  ASSUME NEW s, NEW m, Early(s, m, 0), m.ok, NEW ins \in Decoded
  PROVE  Ended(s, m, JumpToSubroutine(m, ins), ins)
<1>1. CASE ins.dst.mode = 0
  BY <1>1, TrapEnds DEF JumpToSubroutine, Early
<1>2. CASE ins.dst.mode # 0
  <2> DEFINE e == GeteaW(m, ins.dst)
             q == StackDown(e.m)
             t == Link(q, ins.src.reg, e.a)
  <2>1. Aimed(s, m, 1, e)
    <3>1. Aimed(s, m, 0 + 1, e)
      BY <1>2, DecodedParts, GeteaWEarly
    <3>2. QED
      BY <3>1
  <2>2. JumpToSubroutine(m, ins) = IF e.m.ok THEN t ELSE e.m
    BY <1>2 DEF JumpToSubroutine, After
  <2> HIDE DEF e
  <2>3. Early(s, q, 2) /\ Quiet(e.m, q)
    <3>1. Early(s, q, 1 + 1) /\ Quiet(e.m, q)
      BY <2>1, StepEarly DEF Aimed, StackDown, StackReg
    <3>2. QED
      BY <3>1
  <2> HIDE DEF q
  <2>4. Ended(s, q, t, ins)
    BY <2>1, <2>3, DecodedParts, LinkEnds DEF Aimed
  <2> HIDE DEF t
  <2>5. Quiet(m, q)
    BY <2>1, <2>3, QuietThen DEF Aimed
  <2>6. CASE e.m.ok
    BY <2>2, <2>4, <2>5, <2>6, EndedFrom
  <2>7. CASE ~e.m.ok
    BY <2>1, <2>2, <2>7, ReadEnds
  <2>8. QED
    BY <2>6, <2>7
<1>3. QED
  BY <1>1, <1>2

LEMMA JumpEarly ==
  ASSUME NEW s, NEW m, NEW k, Early(s, m, k), NEW a \in Word
  PROVE  Early(s, JumpTo(m, a), k) /\ Quiet(m, JumpTo(m, a))
<1> DEFINE t == JumpTo(m, a)
<1>1. t = [m EXCEPT !.r[PC] = a]
  BY DEF JumpTo
<1> HIDE DEF t
<1>2. Early(s, t, k) /\ Quiet(m, t)
  BY <1>1, UndoneOther
<1>3. QED
  BY <1>2 DEF t

LEMMA ReturnEnds ==
  ASSUME NEW s, NEW m, Early(s, m, 0), m.ok, NEW ins \in Decoded
  PROVE  Ended(s, m, ReturnFromSubroutine(m, ins), ins)
<1> DEFINE reg == ins.dst.reg
           n == JumpTo(m, m.r[reg])
           t == Refer(n)
           x == WordAt(t, t.r[StackReg])
           u == [t EXCEPT !.r[reg] = x]
           y == Wrap(WordSize, u.r[StackReg] + 2)
           v == [u EXCEPT !.r[StackReg] = y]
<1>1. reg \in 0 .. 7
  BY DecodedParts
<1>2. ReturnFromSubroutine(m, ins) = IF t.ok THEN v ELSE t
  BY DEF ReturnFromSubroutine, Then
<1> HIDE DEF reg
<1>3. Early(s, n, 0) /\ Quiet(m, n)
  BY <1>1, EarlyTypes, JumpEarly
<1> HIDE DEF n
<1>4. Early(s, t, 0)
  BY <1>3, ReferEarly
<1>5. ~t.ok => t = Refer(n)
  OBVIOUS
<1>6. t.ok = Refer(n).ok
  OBVIOUS
<1> HIDE DEF t
<1>7. x \in Word /\ Whole(t)
  BY <1>4, EarlyTypes DEF Early
<1> HIDE DEF x
<1>8. Whole(u) /\ SameFlow(t, u)
  BY <1>1, <1>7, RegisterSet
<1> HIDE DEF u
<1>9. y \in Word
  <2>1. u.r[StackReg] \in Word
    BY <1>8 DEF Whole, StackReg
  <2>2. QED
    BY <2>1, UndoStep
<1> HIDE DEF y
<1>10. Whole(v) /\ SameFlow(u, v)
  <2>1. StackReg \in 0 .. 7
    BY DEF StackReg
  <2>2. QED
    BY <1>8, <1>9, <2>1, RegisterSet
<1> HIDE DEF v
<1>11. Ended(s, n, IF t.ok THEN v ELSE t, ins)
  <2> DEFINE w == IF t.ok THEN v ELSE t
  <2>1. Refer(n).ok => Whole(w) /\ w.ok
    BY <1>6, <1>8, <1>10 DEF SameFlow
  <2>2. ~Refer(n).ok => w = Refer(n)
    BY <1>5, <1>6
  <2> HIDE DEF w
  <2>3. Ended(s, n, w, ins)
    BY <1>3, <2>1, <2>2, ReferEnds
  <2>4. QED
    BY <2>3 DEF w
<1>12. QED
  BY <1>2, <1>3, <1>11, EndedFrom

LEMMA MarkEnds ==
  ASSUME NEW s, NEW m, Early(s, m, 0), m.ok, NEW ins \in Decoded
  PROVE  Ended(s, m, Mark(m, ins), ins)
<1> DEFINE i == (m.r[PC] + 2 * ins.off) % WordSize
           n == JumpTo(m, m.r[5])
           t == Refer(n)
           x == WordAt(t, i)
           y == Wrap(WordSize, i + 2)
           u == [t EXCEPT !.r[5] = x]
           v == [u EXCEPT !.r[StackReg] = y]
<1>1. i \in Word
  <2>1. m.r[PC] \in Nat
    <3>1. PC \in 0 .. 7
      BY DEF PC
    <3>2. QED
      BY <3>1, EarlyTypes, WordPositive
  <2>2. m.r[PC] + 2 * ins.off \in Int
    BY <2>1, DecodedParts
  <2>3. QED
    BY <2>2, Remainder
<1>2. y \in Word
  BY <1>1, UndoStep
<1>3. Early(s, n, 0) /\ Quiet(m, n)
  <2>1. m.r[5] \in Word
    BY EarlyTypes
  <2>2. QED
    BY <2>1, JumpEarly
<1>4. Mark(m, ins) = IF t.ok THEN [t EXCEPT !.r[5] = x, !.r[StackReg] = y] ELSE t
  BY DEF Mark, Then
<1> HIDE DEF i, n, y
<1>5. Early(s, t, 0)
  BY <1>3, ReferEarly
<1>6. ~t.ok => t = Refer(n)
  OBVIOUS
<1>7. t.ok = Refer(n).ok
  OBVIOUS
<1> HIDE DEF t
<1>8. x \in Word /\ Whole(t)
  BY <1>5, EarlyTypes DEF Early
<1>9. [t EXCEPT !.r[5] = x, !.r[StackReg] = y] = v
  BY <1>8 DEF Whole, Shape, Parts
<1> HIDE DEF x
<1>10. Whole(u) /\ SameFlow(t, u)
  BY <1>8, RegisterSet
<1> HIDE DEF u
<1>11. Whole(v) /\ SameFlow(u, v)
  <2>1. StackReg \in 0 .. 7
    BY DEF StackReg
  <2>2. QED
    BY <1>2, <1>10, <2>1, RegisterSet
<1> HIDE DEF v
<1>12. Ended(s, n, IF t.ok THEN v ELSE t, ins)
  <2> DEFINE w == IF t.ok THEN v ELSE t
  <2>1. Refer(n).ok => Whole(w) /\ w.ok
    BY <1>7, <1>10, <1>11 DEF SameFlow
  <2>2. ~Refer(n).ok => w = Refer(n)
    BY <1>6, <1>7
  <2> HIDE DEF w
  <2>3. Ended(s, n, w, ins)
    BY <1>3, <2>1, <2>2, ReferEnds
  <2>4. QED
    BY <2>3 DEF w
<1>13. QED
  BY <1>3, <1>4, <1>9, <1>12, EndedFrom

LEMMA SetCodesEnds ==
  ASSUME NEW s, NEW m, Whole(m), m.ok, NEW ins
  PROVE  Ended(s, m, SetCodes(m, ins), ins)
<1> DEFINE on == ins.op = "scc"
           pick(i, old) == IF Odd(ins.off \div TwoTo[i]) THEN on ELSE old
           cc == Flags(pick(3, m.f.n), pick(2, m.f.z), pick(1, m.f.v), pick(0, m.f.c))
<1>1. SetCodes(m, ins) = WithCodes(m, cc)
  BY DEF SetCodes, WithCodes
<1> HIDE DEF cc
<1>2. QED
  BY <1>1, CodesWhole, DoneEnds

-----------------------------------------------------------------------------
LEMMA ExecEnds ==
  ASSUME NEW s, NEW m, Early(s, m, 0), m.ok, NEW ins \in Decoded
  PROVE  Ended(s, m, Exec(m, ins), ins)
<1>1. Whole(m)
  BY DEF Early
<1>2. CASE ins.op \in UnaryOps
  BY <1>2, ModifyEnds DEF Exec, BranchOps, UnaryOps, DyadicOps
<1>3. CASE ins.op \in DyadicOps
  BY <1>3, CombineEnds DEF Exec, BranchOps, UnaryOps, DyadicOps
<1>4. CASE ins.op \in BranchOps
  BY <1>1, <1>4, BranchEnds DEF Exec, BranchOps, UnaryOps, DyadicOps
<1>5. CASE ins.op = "tst"
  BY <1>5, TestEnds DEF Exec, BranchOps, UnaryOps, DyadicOps
<1>6. CASE ins.op = "clr"
  BY <1>6, ClearEnds DEF Exec, BranchOps, UnaryOps, DyadicOps
<1>7. CASE ins.op = "mov"
  BY <1>7, MoveEnds DEF Exec, BranchOps, UnaryOps, DyadicOps
<1>8. CASE ins.op = "sxt"
  BY <1>8, SignExtendEnds DEF Exec, BranchOps, UnaryOps, DyadicOps
<1>9. CASE ins.op \in {"mfpi", "mfpd"}
  BY <1>9, MoveFromEnds DEF Exec, BranchOps, UnaryOps, DyadicOps
<1>10. CASE ins.op \in {"mtpi", "mtpd"}
  BY <1>10, MoveToEnds DEF Exec, BranchOps, UnaryOps, DyadicOps
<1>11. CASE ins.op = "tstset"
  BY <1>11, TestAndSetEnds DEF Exec, BranchOps, UnaryOps, DyadicOps
<1>12. CASE ins.op = "wrtlck"
  BY <1>12, WriteLockedEnds DEF Exec, BranchOps, UnaryOps, DyadicOps
<1>13. CASE ins.op = "mfps"
  BY <1>13, MoveFromPswEnds DEF Exec, BranchOps, UnaryOps, DyadicOps
<1>14. CASE ins.op = "mtps"
  BY <1>14, MoveToPswEnds DEF Exec, BranchOps, UnaryOps, DyadicOps
<1>15. CASE ins.op \in {"mul", "div", "ash", "ashc", "xor"}
  BY <1>15, ExtendedEnds DEF Exec, BranchOps, UnaryOps, DyadicOps
<1>16. CASE ins.op = "sob"
  BY <1>1, <1>16, SubtractOneEnds DEF Exec, BranchOps, UnaryOps, DyadicOps
<1>17. CASE ins.op = "jmp"
  BY <1>17, JumpEnds DEF Exec, BranchOps, UnaryOps, DyadicOps
<1>18. CASE ins.op = "jsr"
  BY <1>18, JumpToSubroutineEnds DEF Exec, BranchOps, UnaryOps, DyadicOps
<1>19. CASE ins.op = "rts"
  BY <1>19, ReturnEnds DEF Exec, BranchOps, UnaryOps, DyadicOps
<1>20. CASE ins.op = "mark"
  BY <1>20, MarkEnds DEF Exec, BranchOps, UnaryOps, DyadicOps
<1>21. CASE ins.op \in {"scc", "ccc"}
  BY <1>1, <1>21, SetCodesEnds DEF Exec, BranchOps, UnaryOps, DyadicOps
<1>22. CASE ins.op \in {"emt", "trap", "bpt", "iot", "ill"}
  BY <1>1, <1>22, TrapEnds DEF Exec, BranchOps, UnaryOps, DyadicOps
<1>23. CASE ins.op = "mfpt"
  <2> DEFINE t == [m EXCEPT !.r[0] = 5]
  <2>1. Exec(m, ins) = t
    BY <1>23 DEF Exec, BranchOps, UnaryOps, DyadicOps
  <2>2. 5 \in Word
    BY WordOfThree DEF Word
  <2>3. Whole(t) /\ SameFlow(m, t)
    BY <1>1, <2>2, RegisterSet
  <2>4. QED
    BY <2>1, <2>3, DoneEnds
<1>24. ins.op \in WordOps \cup {"mfps", "mtps"}
  <2>1. ins.op \in WordOps \/ ins.op \in ByteOps
    BY DEF Decoded
  <2>2. ByteOps \subseteq WordOps \cup {"mfps", "mtps"}
    BY DEF WordOps, ByteOps, DyadicOps
  <2>3. QED
    BY <2>1, <2>2
<1>25. QED
  BY <1>24, <1>2, <1>3, <1>4, <1>5, <1>6, <1>7, <1>8, <1>9, <1>10, <1>11, <1>12, <1>13, <1>14, <1>15,
     <1>16, <1>17, <1>18, <1>19, <1>20, <1>21, <1>22, <1>23
     DEF WordOps

Sound(s) == s.r \in [0 .. 7 -> Word] /\ Holds(s.mem)

LEMMA BeginEarly ==
  ASSUME NEW s, Sound(s), NEW fuse \in Int
  PROVE  /\ Early(s, Begin(s, fuse), 0) /\ Begin(s, fuse).ok /\ Begin(s, fuse).f = s.f
         /\ Lit(Begin(s, fuse)) <=> fuse < 0
<1> DEFINE m == Begin(s, fuse)
<1>1. /\ Shape(m) /\ m.r = s.r /\ m.f = s.f /\ m.mem = s.mem /\ m.mmr1 = <<>>
      /\ m.fuse = fuse /\ m.ok = TRUE
  BY DEF Begin, Shape, Parts
<1> HIDE DEF m
<1>2. <<>> \in Seq(Change) /\ Len(<<>>) = 0
  OBVIOUS
<1>3. \A x, q : Undone(x, q, <<>>) = x
  BY <1>2 DEF Undone
<1>4. Early(s, m, 0)
  <2>1. Whole(m)
    BY <1>1, <1>2 DEF Whole, Sound
  <2>2. m.mem = s.mem /\ Len(m.mmr1) <= 0
    BY <1>1, <1>2
  <2>3. \A q \in 0 .. 7 : Undone(m.r[q], q, m.mmr1) = s.r[q]
    BY <1>1, <1>3
  <2>4. QED
    BY <2>1, <2>2, <2>3 DEF Early
<1>5. Lit(m) <=> fuse < 0
  BY <1>1 DEF Lit
<1>6. QED
  BY <1>1, <1>4, <1>5 DEF m

LEMMA FetchEarly ==
  ASSUME NEW s, NEW m, Early(s, m, 0)
  PROVE  Early(s, Fetch(m), 0) /\ Quiet(m, Fetch(m))
<1> DEFINE t == Refer(m)
           x == Wrap(WordSize, t.r[PC] + 2)
           u == [t EXCEPT !.r[PC] = x]
<1>1. Fetch(m) = IF t.ok THEN u ELSE t
  BY DEF Fetch, Then
<1>2. Early(s, t, 0) /\ Quiet(m, t)
  BY ReferEarly
<1> HIDE DEF t
<1>3. x \in Word
  <2>1. t.r[PC] \in Word
    BY <1>2, EarlyTypes DEF PC
  <2>2. QED
    BY <2>1, UndoStep
<1> HIDE DEF x
<1>4. Early(s, u, 0) /\ Quiet(t, u)
  BY <1>2, <1>3, UndoneOther
<1> HIDE DEF u
<1>5. QED
  BY <1>1, <1>2, <1>4, QuietThen

(* Wherever a reference aborts, the registers can be taken back, memory is *)
(* as it was and the codes do not matter; when none does, the instruction  *)
(* ends.                                                                   *)
LEMMA RunEnds ==
  ASSUME NEW s, Sound(s), NEW fuse \in Int, NEW ins \in Decoded
  PROVE  LET t == Run(s, fuse, ins)
         IN  /\ Whole(t)
             /\ ~t.ok => Early(s, t, 2) /\ Alike(ins, t.f, s.f)
             /\ fuse < 0 => t.ok
<1> DEFINE m == Begin(s, fuse)
           n == Fetch(m)
           t == Run(s, fuse, ins)
<1>1. Early(s, m, 0) /\ m.f = s.f /\ (Lit(m) <=> fuse < 0)
  BY BeginEarly
<1>2. t = IF n.ok THEN Exec(n, ins) ELSE n
  BY DEF Run, Then
<1> HIDE DEF m, t
<1>3. Early(s, n, 0) /\ Quiet(m, n)
  BY <1>1, FetchEarly
<1> HIDE DEF n
<1>4. CASE n.ok
  <2>1. Ended(s, n, t, ins)
    BY <1>2, <1>3, <1>4, ExecEnds
  <2>2. Ended(s, m, t, ins)
    BY <1>3, <2>1, EndedFrom
  <2>3. QED
    BY <1>1, <2>2 DEF Ended, t
<1>5. CASE ~n.ok
  <2>1. Early(s, n, 2)
    BY <1>3, EarlyTwo
  <2>2. QED
    BY <1>1, <1>2, <1>3, <1>5, <2>1 DEF Quiet, Alike, Lit, t, Early
<1>6. QED
  BY <1>4, <1>5

-----------------------------------------------------------------------------
(* Two states that differ in the codes only.                               *)
Twin(m, n) ==
  /\ Shape(m) /\ Shape(n)
  /\ m.r = n.r /\ m.mem = n.mem /\ m.mmr1 = n.mmr1 /\ m.traps = n.traps
  /\ m.fuse = n.fuse /\ m.ok = n.ok
TwinAt(e, g) == Twin(e.m, g.m) /\ e.a = g.a
TwinRead(o, p) == TwinAt(o, p) /\ o.x = p.x

LEMMA TwinCodes ==
  ASSUME NEW m, NEW n, Twin(m, n), NEW cc PROVE WithCodes(m, cc) = WithCodes(n, cc)
  BY DEF Twin, WithCodes, Shape, Parts

LEMMA TwinRefer == ASSUME NEW m, NEW n, Twin(m, n) PROVE Twin(Refer(m), Refer(n))
  BY DEF Twin, Refer, Shape, Parts

LEMMA TwinStep ==
  ASSUME NEW m, NEW n, Twin(m, n), NEW reg, NEW by PROVE Twin(Step(m, reg, by), Step(n, reg, by))
  BY DEF Twin, Step, Shape, Parts

LEMMA TwinCheck == ASSUME NEW m, NEW n, Twin(m, n) PROVE Twin(CheckStack(m), CheckStack(n))
  BY DEF Twin, CheckStack, Shape, Parts

LEMMA TwinStepDown ==
  ASSUME NEW m, NEW n, Twin(m, n), NEW reg, NEW by
  PROVE  Twin(StepDown(m, reg, by), StepDown(n, reg, by))
  BY TwinStep, TwinCheck DEF StepDown

LEMMA TwinWordAt == ASSUME NEW m, NEW n, Twin(m, n), NEW a PROVE WordAt(m, a) = WordAt(n, a)
  BY DEF Twin, WordAt

LEMMA TwinByteAt == ASSUME NEW m, NEW n, Twin(m, n), NEW a PROVE ByteAt(m, a) = ByteAt(n, a)
  BY TwinWordAt DEF ByteAt

LEMMA TwinIndirect ==
  ASSUME NEW e, NEW g, TwinAt(e, g) PROVE TwinAt(Indirect(e), Indirect(g))
<1>1. Twin(Refer(e.m), Refer(g.m))
  BY TwinRefer DEF TwinAt
<1>2. QED
  BY <1>1, TwinWordAt DEF TwinAt, Indirect, Load, At

LEMMA TwinIndexed ==
  ASSUME NEW m, NEW n, Twin(m, n), NEW reg PROVE TwinAt(Indexed(m, reg), Indexed(n, reg))
<1> DEFINE word == WordAt(m, m.r[PC])
           a == Refer(m)
           b == Refer(n)
           t == [a EXCEPT !.r[PC] = Wrap(WordSize, @ + 2)]
           u == [b EXCEPT !.r[PC] = Wrap(WordSize, @ + 2)]
<1>1. Twin(a, b) /\ WordAt(n, n.r[PC]) = word
  BY TwinRefer, TwinWordAt DEF Twin
<1>2. Indexed(m, reg) = IF a.ok THEN At(t, Wrap(WordSize, t.r[reg] + word)) ELSE At(a, 0)
  BY DEF Indexed, IndexAfter
<1>3. Indexed(n, reg) = IF b.ok THEN At(u, Wrap(WordSize, u.r[reg] + word)) ELSE At(b, 0)
  BY <1>1 DEF Indexed, IndexAfter
<1> HIDE DEF a, b, word
<1>4. Twin(t, u) /\ a.ok = b.ok
  BY <1>1 DEF Twin, Shape, Parts
<1> HIDE DEF t, u
<1>5. QED
  BY <1>1, <1>2, <1>3, <1>4 DEF TwinAt, At, Twin

LEMMA TwinGetea ==
  ASSUME NEW m, NEW n, Twin(m, n), NEW spec \in Specifier, spec.mode # 0, NEW size
  PROVE  TwinAt(Getea(m, spec, size), Getea(n, spec, size))
<1> DEFINE reg == spec.reg
<1>1. spec.mode \in 1 .. 7 /\ m.r = n.r
  BY DEF Specifier, Twin
<1>2. \A by : TwinAt(At(Step(m, reg, by), m.r[reg]), At(Step(n, reg, by), n.r[reg]))
  BY <1>1, TwinStep DEF TwinAt, At
<1>3. \A by : TwinAt(InRegister(StepDown(m, reg, by), reg), InRegister(StepDown(n, reg, by), reg))
  <2> TAKE by
  <2>1. Twin(StepDown(m, reg, by), StepDown(n, reg, by))
    BY TwinStepDown
  <2>2. QED
    BY <2>1 DEF TwinAt, InRegister, At, Twin
<1>4. TwinAt(InRegister(m, reg), InRegister(n, reg))
  BY <1>1 DEF TwinAt, InRegister, At
<1>5. TwinAt(Indexed(m, reg), Indexed(n, reg))
  BY TwinIndexed
<1> HIDE DEF reg
<1>6. CASE spec.mode = 1
  BY <1>4, <1>6 DEF Getea, reg
<1>7. CASE spec.mode = 2
  BY <1>2, <1>7 DEF Getea, reg
<1>8. CASE spec.mode = 3
  BY <1>2, <1>8, TwinIndirect DEF Getea, reg
<1>9. CASE spec.mode = 4
  BY <1>3, <1>9 DEF Getea, reg
<1>10. CASE spec.mode = 5
  BY <1>3, <1>10, TwinIndirect DEF Getea, reg
<1>11. CASE spec.mode = 6
  BY <1>5, <1>11 DEF Getea, reg
<1>12. CASE spec.mode = 7
  BY <1>5, <1>12, TwinIndirect DEF Getea, reg
<1>13. QED
  BY <1>1, <1>6, <1>7, <1>8, <1>9, <1>10, <1>11, <1>12

LEMMA TwinReadOperand ==
  ASSUME NEW m, NEW n, Twin(m, n), NEW spec \in Specifier, NEW byte \in BOOLEAN
  PROVE  TwinRead(ReadOperand(m, spec, byte), ReadOperand(n, spec, byte))
<1>1. \A e, g : TwinAt(e, g) => TwinRead(ReferTo(e, byte), ReferTo(g, byte))
  <2> SUFFICES ASSUME NEW e, NEW g, TwinAt(e, g) PROVE TwinRead(ReferTo(e, byte), ReferTo(g, byte))
    OBVIOUS
  <2>1. Twin(Refer(e.m), Refer(g.m)) /\ e.a = g.a
    BY TwinRefer DEF TwinAt
  <2>2. QED
    BY <2>1, TwinWordAt, TwinByteAt DEF TwinRead, TwinAt, ReferTo, LoadOperand
<1>2. CASE spec.mode = 0
  BY <1>2 DEF TwinRead, TwinAt, Twin, ReadOperand, ReadOperandB, ReadOperandW
<1>3. CASE spec.mode # 0
  BY <1>1, <1>3, TwinGetea DEF ReadOperand, ReadOperandB, ReadOperandW, GeteaW, GeteaB
<1>4. QED
  BY <1>2, <1>3

-----------------------------------------------------------------------------
(* The codes do not matter.                                                *)
LEMMA MoveAlike ==
  ASSUME NEW s, NEW m, NEW n, Early(s, m, 0), Twin(m, n), Lit(m), NEW ins \in Decoded,
         m.f.c = n.f.c
  PROVE  Move(m, ins) = Move(n, ins)
<1> DEFINE p == ReadOperand(m, ins.src, ins.byte)
           o == ReadOperand(n, ins.src, ins.byte)
           cc == Mov(Size(ins.byte), p.x, m.f).f
           dd == Mov(Size(ins.byte), o.x, n.f).f
<1>1. Fetched(s, m, 1, p, ins.byte)
  <2>1. Fetched(s, m, 0 + 1, p, ins.byte)
    BY DecodedParts, ReadOperandEarly
  <2>2. QED
    BY <2>1
<1>2. TwinRead(p, o)
  BY DecodedParts, TwinReadOperand
<1>3. Move(m, ins) = IF p.m.ok THEN Put(WithCodes(p.m, cc), ins, p.x) ELSE p.m
  BY DEF Move, After
<1>4. Move(n, ins) = IF o.m.ok THEN Put(WithCodes(o.m, dd), ins, o.x) ELSE o.m
  BY DEF Move, After
<1> HIDE DEF p, o
<1>5. p.m.ok /\ o.m.ok /\ p.x = o.x /\ Twin(p.m, o.m)
  BY <1>1, <1>2 DEF Fetched, Aimed, Quiet, TwinRead, TwinAt, Twin, Lit
<1>6. cc = dd
  BY <1>5 DEF Mov, Result
<1> HIDE DEF cc, dd
<1>7. WithCodes(p.m, cc) = WithCodes(o.m, dd)
  BY <1>5, <1>6, TwinCodes
<1>8. QED
  BY <1>3, <1>4, <1>5, <1>7

LEMMA MoveFromAlike ==
  ASSUME NEW s, NEW m, NEW n, Early(s, m, 0), Twin(m, n), Lit(m), NEW ins \in Decoded,
         m.f.c = n.f.c
  PROVE  MoveFromPrevious(m, ins) = MoveFromPrevious(n, ins)
<1> DEFINE p == ReadOperandW(m, ins.dst)
           o == ReadOperandW(n, ins.dst)
           cc == Mov(WordSize, p.x, m.f).f
           dd == Mov(WordSize, o.x, n.f).f
<1>1. Fetched(s, m, 1, p, FALSE)
  BY DecodedParts, ReadFirst
<1>2. TwinRead(p, o)
  <2>1. TwinRead(ReadOperand(m, ins.dst, FALSE), ReadOperand(n, ins.dst, FALSE))
    BY DecodedParts, TwinReadOperand
  <2>2. QED
    BY <2>1 DEF ReadOperand
<1>3. MoveFromPrevious(m, ins) =
        IF p.m.ok THEN PushWord(StackDown(WithCodes(p.m, cc)), p.x) ELSE p.m
  BY DEF MoveFromPrevious, After
<1>4. MoveFromPrevious(n, ins) =
        IF o.m.ok THEN PushWord(StackDown(WithCodes(o.m, dd)), o.x) ELSE o.m
  BY DEF MoveFromPrevious, After
<1> HIDE DEF p, o
<1>5. p.m.ok /\ o.m.ok /\ p.x = o.x /\ Twin(p.m, o.m)
  BY <1>1, <1>2 DEF Fetched, Aimed, Quiet, TwinRead, TwinAt, Twin, Lit
<1>6. cc = dd
  BY <1>5 DEF Mov, Result
<1> HIDE DEF cc, dd
<1>7. WithCodes(p.m, cc) = WithCodes(o.m, dd)
  BY <1>5, <1>6, TwinCodes
<1>8. QED
  BY <1>3, <1>4, <1>5, <1>7

LEMMA MoveToAlike ==
  ASSUME NEW s, NEW m, NEW n, Early(s, m, 0), Twin(m, n), Lit(m), NEW ins, m.f.c = n.f.c
  PROVE  MoveToPrevious(m, ins) = MoveToPrevious(n, ins)
<1> DEFINE x == WordAt(m, m.r[StackReg])
           y == WordAt(n, n.r[StackReg])
           t == Refer(m)
           u == Refer(n)
           cc == Mov(WordSize, x, m.f).f
           dd == Mov(WordSize, y, n.f).f
<1>1. Twin(t, u) /\ Quiet(m, t)
  BY TwinRefer, ReferEarly
<1>2. MoveToPrevious(m, ins) =
        IF t.ok THEN WriteOperandW(WithCodes(Step(t, StackReg, 2), cc), ins.dst, x) ELSE t
  BY DEF MoveToPrevious, Then
<1>3. MoveToPrevious(n, ins) =
        IF u.ok THEN WriteOperandW(WithCodes(Step(u, StackReg, 2), dd), ins.dst, y) ELSE u
  BY DEF MoveToPrevious, Then
<1>4. x = y
  BY TwinWordAt DEF Twin
<1>5. cc = dd
  BY <1>4 DEF Mov, Result
<1>6. t.ok /\ u.ok
  BY <1>1 DEF Quiet, Twin, Lit
<1> HIDE DEF t, u, cc, dd, x, y
<1>7. WithCodes(Step(t, StackReg, 2), cc) = WithCodes(Step(u, StackReg, 2), dd)
  BY <1>1, <1>5, TwinStep, TwinCodes
<1>8. QED
  BY <1>2, <1>3, <1>4, <1>6, <1>7

LEMMA ExecAlike ==
  ASSUME NEW s, NEW m, NEW n, Early(s, m, 0), Twin(m, n), Lit(m), NEW ins \in Decoded,
         ins.op # "mfps", Alike(ins, m.f, n.f), m.f # n.f
  PROVE  Exec(m, ins) = Exec(n, ins)
<1>1. CASE ins.op = "clr"
  <2>1. \A cc : WithCodes(m, cc) = WithCodes(n, cc)
    BY TwinCodes
  <2>2. Clear(m, ins) = Clear(n, ins)
    BY <2>1 DEF Clear
  <2>3. QED
    BY <1>1, <2>2 DEF Exec, BranchOps, UnaryOps, DyadicOps
<1>2. CASE ins.op = "sxt"
  <2>1. m.f.n = n.f.n /\ m.f.c = n.f.c
    BY <1>2 DEF Alike
  <2>2. Sxt(m.f) = Sxt(n.f)
    BY <2>1 DEF Sxt
  <2>3. SignExtend(m, ins) = SignExtend(n, ins)
    BY <2>2, TwinCodes DEF SignExtend
  <2>4. QED
    BY <1>2, <2>3 DEF Exec, BranchOps, UnaryOps, DyadicOps
<1>3. CASE ins.op = "wrtlck"
  <2>1. m.f.c = n.f.c /\ ins.dst.mode # 0
    BY <1>3 DEF Alike
  <2>2. m.r[0] = n.r[0]
    BY DEF Twin
  <2>3. Mov(WordSize, m.r[0], m.f) = Mov(WordSize, n.r[0], n.f)
    BY <2>1, <2>2 DEF Mov, Result
  <2>4. WriteLocked(m, ins) = WriteLocked(n, ins)
    BY <2>1, <2>2, <2>3, TwinCodes DEF WriteLocked
  <2>5. QED
    BY <1>3, <2>4 DEF Exec, BranchOps, UnaryOps, DyadicOps
<1>4. CASE ins.op = "mov"
  BY <1>4, MoveAlike DEF Alike, Exec, BranchOps, UnaryOps, DyadicOps
<1>5. CASE ins.op \in {"mfpi", "mfpd"}
  BY <1>5, MoveFromAlike DEF Alike, Exec, BranchOps, UnaryOps, DyadicOps
<1>6. CASE ins.op \in {"mtpi", "mtpd"}
  BY <1>6, MoveToAlike DEF Alike, Exec, BranchOps, UnaryOps, DyadicOps
<1>7. QED
  BY <1>1, <1>2, <1>3, <1>4, <1>5, <1>6 DEF Alike

(* An instruction that is started again with such codes gives what it      *)
(* would have given.                                                       *)
LEMMA RunAlike ==
  ASSUME NEW s, NEW u, Sound(s), s.r = u.r, s.mem = u.mem, NEW ins \in Decoded,
         s.f = u.f \/ (ins.op # "mfps" /\ Alike(ins, s.f, u.f))
  PROVE  Run(s, NoFault, ins) = Run(u, NoFault, ins)
<1>1. CASE s.f = u.f
  BY <1>1 DEF Run, Begin
<1>2. CASE s.f # u.f
  <2> DEFINE b == Begin(s, NoFault)
             c == Begin(u, NoFault)
             m == Fetch(b)
             n == Fetch(c)
  <2>1. Early(s, b, 0) /\ Lit(b) /\ b.f = s.f
    BY BeginEarly DEF NoFault
  <2>2. Twin(b, c) /\ c.f = u.f
    BY DEF Begin, Twin, Shape, Parts
  <2>3. Run(s, NoFault, ins) = IF m.ok THEN Exec(m, ins) ELSE m
    BY DEF Run, Then
  <2>4. Run(u, NoFault, ins) = IF n.ok THEN Exec(n, ins) ELSE n
    BY DEF Run, Then
  <2> HIDE DEF b, c
  <2>5. Early(s, m, 0) /\ Quiet(b, m)
    BY <2>1, FetchEarly
  <2>6. Sound(u)
    BY DEF Sound
  <2>7. Early(u, c, 0) /\ Lit(c) /\ c.f = u.f
    BY <2>6, BeginEarly DEF NoFault, c
  <2>8. Quiet(c, n)
    BY <2>7, FetchEarly
  <2>9. Twin(m, n)
    <3> DEFINE t == Refer(b)
               v == Refer(c)
               w == [t EXCEPT !.r[PC] = Wrap(WordSize, @ + 2)]
               x == [v EXCEPT !.r[PC] = Wrap(WordSize, @ + 2)]
    <3>1. Twin(t, v)
      BY <2>2, TwinRefer
    <3>2. m = (IF t.ok THEN w ELSE t) /\ n = (IF v.ok THEN x ELSE v)
      BY DEF Fetch, Then
    <3> HIDE DEF t, v
    <3>3. Twin(w, x) /\ t.ok = v.ok
      BY <3>1 DEF Twin, Shape, Parts
    <3>4. QED
      BY <3>1, <3>2, <3>3
  <2> HIDE DEF m, n
  <2>10. Lit(m) /\ m.f = s.f /\ n.f = u.f /\ m.ok /\ n.ok
    BY <2>1, <2>5, <2>7, <2>8, <2>9 DEF Quiet, Lit, Twin
  <2>11. Exec(m, ins) = Exec(n, ins)
    BY <1>2, <2>5, <2>9, <2>10, ExecAlike
  <2>12. QED
    BY <2>3, <2>4, <2>10, <2>11
<1>3. QED
  BY <1>1, <1>2

-----------------------------------------------------------------------------
Phases == {"ready", "aborted", "again"}

InstrTypes ==
  /\ Sound(Now) /\ Sound(ideal)
  /\ mmr1 \in Seq(Change) /\ mmr2 \in Word
  /\ prog.code \in Seq(Decoded) /\ at \in 0 .. Len(prog.code)
  /\ phase \in Phases
  /\ phase # "ready" => at < Len(prog.code)

(* What the handler can make of an abort, and what it has made of one.     *)
Restartable ==
  /\ mem = ideal.mem
  /\ phase # "aborted" => r = ideal.r
  /\ phase = "aborted" =>
       /\ mmr2 = ideal.r[PC]
       /\ \A q \in 0 .. 7 : q # PC => Undone(r[q], q, mmr1) = ideal.r[q]
  /\ phase = "ready" => f = ideal.f
  /\ phase # "ready" => Current.op # "mfps" /\ Alike(Current, f, ideal.f)

InstrInv == InstrTypes /\ (~askedCodes => Restartable)

LEMMA InstrStart == ASSUME InstrInit PROVE InstrInv
<1>1. PICK p \in Programs : \E g \in p.starts, cc \in p.codes :
        prog = [kind |-> p.kind, code |-> p.code, r |-> g, f |-> cc, mem |-> p.mem,
                faults |-> p.faults]
  BY DEF InstrInit
<1>2. prog.code = p.code /\ prog.r \in p.starts /\ prog.mem = p.mem
  BY <1>1
<1>3. prog.code \in Seq(Decoded) /\ prog.r \in [0 .. 7 -> Word] /\ Holds(prog.mem)
  BY <1>2, ProgramsAssumption DEF Holds
<1>4. /\ r = prog.r /\ f = prog.f /\ mem = prog.mem /\ ideal.r = r /\ ideal.f = f /\ ideal.mem = mem
      /\ mmr1 = <<>> /\ mmr2 = 0 /\ at = 0 /\ phase = "ready"
  BY DEF InstrInit
<1>5. Now.r = r /\ Now.f = f /\ Now.mem = mem
  BY DEF Now
<1>6. <<>> \in Seq(Change) /\ 0 \in Word
  BY Sizes DEF Word
<1>7. at \in 0 .. Len(prog.code)
  BY <1>3, <1>4
<1>8. InstrTypes
  BY <1>3, <1>4, <1>5, <1>6, <1>7 DEF InstrTypes, Sound, Phases
<1>9. Restartable
  BY <1>4 DEF Restartable
<1>10. QED
  BY <1>8, <1>9 DEF InstrInv

LEMMA CurrentDecoded == ASSUME InstrTypes, at < Len(prog.code) PROVE Current \in Decoded
<1>1. at + 1 \in 1 .. Len(prog.code)
  BY DEF InstrTypes
<1>2. QED
  BY <1>1 DEF InstrTypes, Current

LEMMA NowParts == Now.r = r /\ Now.f = f /\ Now.mem = mem
  BY DEF Now

LEMMA CompleteKeeps == ASSUME InstrInv, Complete PROVE InstrInv'
<1> DEFINE t == Run(Now, NoFault, Current)
           u == Run(ideal, NoFault, Current)
<1>1. Current \in Decoded /\ Sound(Now) /\ Sound(ideal) /\ NoFault \in Int
  BY CurrentDecoded DEF InstrInv, InstrTypes, Complete, NoFault
<1>2. Whole(t) /\ Whole(u)
  BY <1>1, RunEnds
<1>3. /\ r' = t.r /\ f' = t.f /\ mem' = t.mem /\ mmr1' = t.mmr1 /\ mmr2' = r[PC]
      /\ ideal' = Arch(u) /\ at' = at + 1 /\ phase' = "ready" /\ prog' = prog
      /\ askedCodes' = askedCodes
  BY DEF Complete, Take
<1>4. ~askedCodes => t = u
  <2>1. ASSUME ~askedCodes PROVE Now.r = ideal.r /\ Now.mem = ideal.mem
                              /\ (Now.f = ideal.f \/ (Current.op # "mfps" /\ Alike(Current, Now.f, ideal.f)))
    BY <2>1, NowParts DEF InstrInv, Restartable, Complete
  <2>2. QED
    BY <1>1, <2>1, RunAlike
<1> HIDE DEF t, u
<1>5. ideal'.r = u.r /\ ideal'.f = u.f /\ ideal'.mem = u.mem
  BY <1>3 DEF Arch
<1>6. InstrTypes'
  <2>1. at' \in 0 .. Len(prog'.code)
    <3>1. at \in Nat /\ Len(prog.code) \in Nat /\ at < Len(prog.code)
      BY DEF InstrInv, InstrTypes, Complete
    <3>2. QED
      BY <1>3, <3>1
  <2>2. r[PC] \in Word
    BY <1>1, NowParts DEF Sound, PC
  <2>3. Sound(Now)' /\ Sound(ideal)'
    BY <1>2, <1>3, <1>5 DEF Sound, Whole, Now
  <2>4. QED
    BY <1>2, <1>3, <2>1, <2>2, <2>3 DEF InstrInv, InstrTypes, Whole, Phases
<1>7. ~askedCodes => Restartable'
  BY <1>3, <1>4, <1>5 DEF Restartable
<1>8. QED
  BY <1>3, <1>6, <1>7 DEF InstrInv

LEMMA AlikeOn ==
  ASSUME NEW ins, NEW a, NEW b, NEW c, Alike(ins, a, b), Alike(ins, b, c) PROVE Alike(ins, a, c)
  BY DEF Alike

LEMMA AbortKeeps == ASSUME InstrInv, Abort PROVE InstrInv'
<1>1. PICK fuse \in 0 .. MaxReferences : ~Run(Now, fuse, Current).ok /\ Take(Run(Now, fuse, Current))
  BY DEF Abort
<1> DEFINE t == Run(Now, fuse, Current)
<1>2. Current \in Decoded /\ Sound(Now) /\ fuse \in Int
  BY CurrentDecoded DEF InstrInv, InstrTypes, Abort
<1>3. Whole(t) /\ Early(Now, t, 2) /\ Alike(Current, t.f, f)
  BY <1>1, <1>2, RunEnds, NowParts
<1>4. /\ r' = t.r /\ f' = t.f /\ mem' = t.mem /\ mmr1' = t.mmr1 /\ mmr2' = r[PC]
      /\ UNCHANGED <<prog, at, ideal>> /\ phase' = "aborted"
      /\ askedCodes' = (askedCodes \/ Current.op = "mfps") /\ Current' = Current
  BY <1>1 DEF Abort, Take, Current
<1> HIDE DEF t
<1>5. InstrTypes'
  <2>1. r[PC] \in Word
    BY <1>2, NowParts DEF Sound, PC
  <2>2. Sound(Now)' /\ Sound(ideal)'
    BY <1>3, <1>4 DEF Sound, Whole, Now, InstrInv, InstrTypes
  <2>3. QED
    BY <1>3, <1>4, <2>1, <2>2 DEF InstrInv, InstrTypes, Whole, Phases, Abort
<1>6. ASSUME ~askedCodes' PROVE Restartable'
  <2>1. Restartable /\ phase # "aborted" /\ Current.op # "mfps"
    BY <1>4, <1>6 DEF InstrInv, Abort
  <2>2. Alike(Current, f, ideal.f)
    BY <2>1 DEF Restartable, Alike
  <2>3. Alike(Current, t.f, ideal.f)
    BY <1>3, <2>2, AlikeOn
  <2>4. t.mem = mem /\ \A q \in 0 .. 7 : q # PC => Undone(t.r[q], q, t.mmr1) = r[q]
    BY <1>3, NowParts DEF Early
  <2>5. QED
    BY <1>4, <2>1, <2>3, <2>4 DEF Restartable
<1>7. QED
  BY <1>5, <1>6 DEF InstrInv

LEMMA UndoneType ==
  ASSUME NEW x \in Word, NEW q, NEW changes \in Seq(Change) PROVE Undone(x, q, changes) \in Word
<1>1. \A y \in Word, c \in Change : Undo(y, q, c) \in Word
  <2> TAKE y \in Word, c \in Change
  <2>1. y \in Int /\ c[1] \in Int
    BY WordPositive DEF Change
  <2>2. y - c[1] \in Int
    BY <2>1
  <2>3. QED
    BY <2>2, Remainder DEF Undo
<1>2. Len(changes) \in Nat /\ (Len(changes) > 0 => changes[1] \in Change)
      /\ (Len(changes) > 1 => changes[2] \in Change)
  OBVIOUS
<1>3. QED
  BY <1>1, <1>2 DEF Undone

LEMMA RepairKeeps == ASSUME InstrInv, Repair PROVE InstrInv'
<1> DEFINE g == [reg \in 0 .. 7 |-> IF reg = PC THEN mmr2 ELSE Undone(r[reg], reg, mmr1)]
<1>1. /\ r' = g /\ phase = "aborted" /\ phase' = "again"
      /\ UNCHANGED <<f, mem, mmr1, mmr2, prog, at, faults, ideal, askedCodes>> /\ Current' = Current
  BY DEF Repair, Current
<1>2. r \in [0 .. 7 -> Word] /\ mmr1 \in Seq(Change) /\ mmr2 \in Word /\ Holds(mem) /\ Sound(ideal)
  BY NowParts DEF InstrInv, InstrTypes, Sound
<1>3. g \in [0 .. 7 -> Word]
  BY <1>2, UndoneType
<1>4. InstrTypes'
  <2>1. Sound(Now)'
    BY <1>1, <1>2, <1>3 DEF Sound, Now
  <2>2. Sound(ideal)'
    BY <1>1, <1>2
  <2>3. QED
    BY <1>1, <2>1, <2>2 DEF InstrInv, InstrTypes, Phases
<1>5. ASSUME ~askedCodes PROVE Restartable'
  <2>1. Restartable
    BY <1>5 DEF InstrInv
  <2>2. \A q \in 0 .. 7 : g[q] = ideal.r[q]
    BY <1>1, <2>1 DEF Restartable
  <2>3. ideal.r \in [0 .. 7 -> Word]
    BY <1>2 DEF Sound
  <2> HIDE DEF g
  <2>4. g = ideal.r
    BY <1>3, <2>2, <2>3
  <2>5. QED
    BY <1>1, <2>1, <2>4 DEF Restartable
<1>6. QED
  BY <1>1, <1>4, <1>5 DEF InstrInv

LEMMA InstrInvariant == InstrSpec => []InstrInv
<1>1. InstrInit => InstrInv
  BY InstrStart
<1>2. InstrInv /\ [InstrNext]_instrVars => InstrInv'
  <2> SUFFICES ASSUME InstrInv, [InstrNext]_instrVars PROVE InstrInv'
    OBVIOUS
  <2>1. CASE UNCHANGED instrVars
    BY <2>1 DEF InstrInv, InstrTypes, Restartable, Sound, Now, Current, instrVars
  <2>2. QED
    BY <2>1, CompleteKeeps, AbortKeeps, RepairKeeps DEF InstrNext
<1>3. QED
  BY <1>1, <1>2, PTL DEF InstrSpec

(* An instruction that a reference aborts can be started again.            *)
THEOREM RestartAlwaysExact == InstrSpec => []RestartExact
<1>1. InstrInv => RestartExact
  <2> SUFFICES ASSUME InstrInv, phase # "aborted", ~askedCodes PROVE RestartExact
    BY DEF RestartExact
  <2>1. Restartable /\ Now.mem = ideal.mem
    BY NowParts DEF InstrInv, Restartable
  <2>2. \A a : WordAt(Now, 2 * a) = WordAt(ideal, 2 * a)
    BY <2>1 DEF WordAt
  <2>3. QED
    BY <2>1, <2>2 DEF RestartExact, Restartable
<1>2. QED
  BY <1>1, InstrInvariant, PTL

-----------------------------------------------------------------------------
(* The guest programs: what the registers are after each instruction.      *)
Origin == [r |-> prog.r, f |-> prog.f, mem |-> prog.mem]
Turn(s, i) == Arch(Run(s, NoFault, prog.code[i]))
Ran(n) ==
  CASE n = 0 -> Origin
    [] n = 1 -> Turn(Origin, 1)
    [] n = 2 -> Turn(Turn(Origin, 1), 2)
    [] n = 3 -> Turn(Turn(Turn(Origin, 1), 2), 3)

Known == prog.kind \in DOMAIN CodeOf

GuestInv ==
  /\ InstrInv
  /\ Sound(Origin)
  /\ Known => prog.code \in CodeOf[prog.kind] /\ ~askedCodes /\ ideal = Ran(at)

LEMMA PlainCode ==
  ASSUME NEW kind \in DOMAIN CodeOf, NEW code \in CodeOf[kind]
  PROVE  Len(code) \in 1 .. 3 /\ \A i \in 1 .. Len(code) : code[i].op # "mfps"
<1>1. ASSUME NEW a, NEW b, NEW c, code \in {<<a>>, <<a, b>>, <<a, b, c>>},
             a.op # "mfps", b.op # "mfps", c.op # "mfps"
      PROVE  Len(code) \in 1 .. 3 /\ \A i \in 1 .. Len(code) : code[i].op # "mfps"
  BY <1>1
<1>2. \A op, x, y : Op(op, x, y).op = op /\ One(op, y).op = op
  BY DEF Op, One
<1>3. \A op \in BranchOps : \A off : BranchTo(op, off).op # "mfps"
  BY DEF BranchTo, Op, One, BranchOps
<1>4. \/ \E op \in BranchOps : \E off : code = CompareBranch(op, off) \/ code = SubtractBranch(op, off)
      \/ code \in {DoubleAdd, DoubleSubtract, DoubleNegate, DoubleTwice, DoubleHalve, DoubleExtend,
                   ShiftWord, ShiftPair, DivideOnce, MultiplyDivide}
  BY DEF CodeOf
<1>5. ASSUME NEW op \in BranchOps, NEW off, code = CompareBranch(op, off) \/ code = SubtractBranch(op, off)
      PROVE  Len(code) \in 1 .. 3 /\ \A i \in 1 .. Len(code) : code[i].op # "mfps"
  <2>1. code \in {<<Op("cmp", Reg(0), Reg(1)), BranchTo(op, off)>>, <<Op("sub", Reg(1), Reg(0)), BranchTo(op, off)>>}
    BY <1>5 DEF CompareBranch, SubtractBranch
  <2>2. QED
    BY <1>1, <1>2, <1>3, <2>1
<1>6. CASE code \in {DoubleAdd, DoubleSubtract, DoubleNegate}
  BY <1>1, <1>2, <1>6 DEF DoubleAdd, DoubleSubtract, DoubleNegate
<1>7. CASE code \in {DoubleTwice, DoubleHalve, DoubleExtend}
  BY <1>1, <1>2, <1>7 DEF DoubleTwice, DoubleHalve, DoubleExtend
<1>8. CASE code \in {ShiftWord, ShiftPair, DivideOnce, MultiplyDivide}
  BY <1>1, <1>2, <1>8 DEF ShiftWord, ShiftPair, DivideOnce, MultiplyDivide
<1>9. QED
  BY <1>4, <1>5, <1>6, <1>7, <1>8

LEMMA GuestStart == ASSUME InstrInit PROVE GuestInv
<1>1. PICK p \in Programs : \E g \in p.starts, cc \in p.codes :
        prog = [kind |-> p.kind, code |-> p.code, r |-> g, f |-> cc, mem |-> p.mem,
                faults |-> p.faults]
  BY DEF InstrInit
<1>2. prog.kind = p.kind /\ prog.code = p.code /\ prog.r \in p.starts /\ prog.mem = p.mem
  BY <1>1
<1>3. prog.r \in [0 .. 7 -> Word] /\ Holds(prog.mem) /\ (Known => prog.code \in CodeOf[prog.kind])
  BY <1>2, ProgramsAssumption, KindsAssumption DEF Holds, Known
<1>4. ~askedCodes /\ ideal = Ran(at)
  BY DEF InstrInit, Ran, Origin
<1>5. Sound(Origin)
  BY <1>3 DEF Sound, Origin
<1>6. QED
  BY <1>3, <1>4, <1>5, InstrStart DEF GuestInv

LEMMA GuestStep == GuestInv /\ [InstrNext]_instrVars => GuestInv'
<1> SUFFICES ASSUME GuestInv, [InstrNext]_instrVars PROVE GuestInv'
  OBVIOUS
<1>1. InstrInv'
  <2>1. CASE UNCHANGED instrVars
    BY <2>1 DEF GuestInv, InstrInv, InstrTypes, Restartable, Sound, Now, Current, instrVars
  <2>2. QED
    BY <2>1, CompleteKeeps, AbortKeeps, RepairKeeps DEF InstrNext, GuestInv
<1>2. prog' = prog /\ Origin' = Origin /\ Known' = Known /\ \A n : Ran(n)' = Ran(n)
  BY DEF InstrNext, Complete, Abort, Repair, instrVars, Origin, Known, Ran, Turn
<1>3. ASSUME Known PROVE ~askedCodes' /\ ideal' = Ran(at)'
  <2>1. /\ at \in 0 .. Len(prog.code) /\ Len(prog.code) \in 1 .. 3 /\ ~askedCodes /\ ideal = Ran(at)
        /\ \A i \in 1 .. Len(prog.code) : prog.code[i].op # "mfps"
    BY <1>3, PlainCode DEF GuestInv, InstrInv, InstrTypes, Known
  <2>2. CASE Complete
    <3>1. at \in 0 .. 2 /\ at' = at + 1 /\ askedCodes' = askedCodes /\ ideal' = Turn(ideal, at + 1)
      BY <2>1, <2>2 DEF Complete, Turn, Current
    <3>2. Ran(at + 1) = Turn(Ran(at), at + 1)
      BY <3>1 DEF Ran
    <3>3. QED
      BY <1>2, <2>1, <3>1, <3>2
  <2>3. CASE Abort
    <3>1. at + 1 \in 1 .. Len(prog.code)
      BY <2>1, <2>3 DEF Abort
    <3>2. QED
      BY <1>2, <2>1, <2>3, <3>1 DEF Abort, Current
  <2>4. CASE Repair
    BY <1>2, <2>1, <2>4 DEF Repair
  <2>5. CASE UNCHANGED instrVars
    BY <1>2, <2>1, <2>5 DEF instrVars
  <2>6. QED
    BY <2>2, <2>3, <2>4, <2>5 DEF InstrNext
<1>4. QED
  BY <1>1, <1>2, <1>3 DEF GuestInv

LEMMA GuestInvariant == InstrSpec => []GuestInv
  BY GuestStart, GuestStep, PTL DEF InstrSpec

(* What a program has computed when it has finished.                       *)
LEMMA FinishedAs ==
  ASSUME GuestInv, NEW kind \in DOMAIN CodeOf, Finished(kind)
  PROVE  /\ prog.code \in CodeOf[kind] /\ prog.r \in [0 .. 7 -> Word] /\ Sound(Origin)
         /\ r = Ran(Len(prog.code)).r /\ f = Ran(Len(prog.code)).f
<1>1. Known /\ phase = "ready" /\ at = Len(prog.code) /\ prog.kind = kind
  BY DEF Known, Finished
<1>2. Restartable /\ ideal = Ran(at)
  BY <1>1 DEF GuestInv, InstrInv
<1>3. QED
  BY <1>1, <1>2 DEF GuestInv, Restartable, Sound, Origin

-----------------------------------------------------------------------------
(* Instructions between registers.                                         *)
After1(s, n) ==
  /\ Shape(n) /\ n.ok
  /\ n.r = [s.r EXCEPT ![PC] = Wrap(WordSize, @ + 2)] /\ n.f = s.f /\ n.mem = s.mem

LEMMA RunIs ==
  ASSUME NEW s, NEW ins PROVE \E n : After1(s, n) /\ Run(s, NoFault, ins) = Exec(n, ins)
<1> DEFINE b == Begin(s, NoFault)
           t == Refer(b)
           u == [t EXCEPT !.r[PC] = Wrap(WordSize, @ + 2)]
<1>1. Shape(b) /\ b.r = s.r /\ b.f = s.f /\ b.mem = s.mem /\ b.ok /\ b.fuse = NoFault
  BY DEF Begin, Shape, Parts
<1>2. Run(s, NoFault, ins) = IF Fetch(b).ok THEN Exec(Fetch(b), ins) ELSE Fetch(b)
  BY DEF Run, Then
<1>3. Fetch(b) = IF t.ok THEN u ELSE t
  BY DEF Fetch, Then
<1> HIDE DEF b
<1>4. Shape(t) /\ t.r = s.r /\ t.f = s.f /\ t.mem = s.mem /\ t.ok
  BY <1>1 DEF Refer, NoFault, Shape, Parts
<1> HIDE DEF t
<1>5. After1(s, u)
  BY <1>4 DEF After1, Shape, Parts
<1>6. u.ok
  BY <1>5 DEF After1
<1> HIDE DEF u
<1>7. Run(s, NoFault, ins) = Exec(u, ins)
  BY <1>2, <1>3, <1>4, <1>6
<1>8. QED
  BY <1>5, <1>7

(* An instruction between registers: what it leaves in reg, and the codes. *)
NextPC(s) == [s.r EXCEPT ![PC] = Wrap(WordSize, @ + 2)]
Gives(s, u, reg, res) ==
  u.r = [NextPC(s) EXCEPT ![reg] = res.d] /\ u.f = res.f /\ u.mem = s.mem

LEMMA UpdateParts ==
  ASSUME NEW n, Shape(n), NEW o, o.m = n, NEW ins, ~ins.byte, ins.dst.mode = 0, NEW res
  PROVE  LET t == Arch(Update(o, ins, res))
         IN  t.r = [n.r EXCEPT ![ins.dst.reg] = res.d] /\ t.f = res.f /\ t.mem = n.mem
  BY DEF Update, WithCodes, WriteBack, WriteBackW, Shape, Parts, Arch

LEMMA UnaryTurn ==
  ASSUME NEW s, Sound(s), NEW reg \in 0 .. 5, NEW op \in UnaryOps, NEW i,
         prog.code[i] = One(op, Reg(reg))
  PROVE  Gives(s, Turn(s, i), reg, Unary(op, WordSize, s.r[reg], s.f))
<1> DEFINE ins == prog.code[i]
<1>1. PICK n : After1(s, n) /\ Run(s, NoFault, ins) = Exec(n, ins)
  BY RunIs
<1>2. ins.op = op /\ ins.byte = FALSE /\ ins.dst.mode = 0 /\ ins.dst.reg = reg
  BY DEF One, Op, Reg
<1> HIDE DEF ins
<1>3. Exec(n, ins) = Modify(n, ins)
  BY <1>2 DEF Exec, BranchOps, UnaryOps, DyadicOps
<1>4. n.r[reg] = s.r[reg] /\ n.f = s.f /\ n.ok /\ Shape(n)
  BY <1>1 DEF After1, PC, Sound
<1> DEFINE o == ReadOperand(n, ins.dst, ins.byte)
<1>5. o.m = n /\ o.x = s.r[reg]
  BY <1>2, <1>4 DEF ReadOperand, ReadOperandW
<1>6. Modify(n, ins) = IF o.m.ok THEN Update(o, ins, Unary(op, WordSize, o.x, n.f)) ELSE o.m
  BY <1>2 DEF Modify, After, Size
<1> HIDE DEF o
<1> DEFINE res == Unary(op, WordSize, s.r[reg], s.f)
<1>7. Modify(n, ins) = Update(o, ins, res)
  BY <1>4, <1>5, <1>6
<1> HIDE DEF res
<1> DEFINE t == Arch(Update(o, ins, res))
<1>8. t.r = [n.r EXCEPT ![ins.dst.reg] = res.d] /\ t.f = res.f /\ t.mem = n.mem
  BY <1>2, <1>4, <1>5, UpdateParts
<1>9. Turn(s, i) = t
  BY <1>1, <1>3, <1>7 DEF Turn, ins
<1> HIDE DEF t
<1>10. QED
  BY <1>1, <1>2, <1>8, <1>9 DEF Gives, NextPC, After1, res

LEMMA DyadicTurn ==
  ASSUME NEW s, Sound(s), NEW x \in 0 .. 5, NEW y \in 0 .. 5, NEW op \in DyadicOps, NEW i,
         prog.code[i] = Op(op, Reg(x), Reg(y))
  PROVE  LET res == Dyadic(op, WordSize, s.r[x], s.r[y], s.f)
         IN  /\ op \notin ReadOnly => Gives(s, Turn(s, i), y, res)
             /\ op \in ReadOnly => Turn(s, i).r = NextPC(s) /\ Turn(s, i).f = res.f
                                   /\ Turn(s, i).mem = s.mem
<1> DEFINE ins == prog.code[i]
<1>1. PICK n : After1(s, n) /\ Run(s, NoFault, ins) = Exec(n, ins)
  BY RunIs
<1>2. ins.op = op /\ ins.byte = FALSE /\ ins.dst.mode = 0 /\ ins.dst.reg = y
      /\ ins.src.mode = 0 /\ ins.src.reg = x
  BY DEF Op, Reg
<1> HIDE DEF ins
<1>3. Exec(n, ins) = Combine(n, ins)
  BY <1>2 DEF Exec, BranchOps, UnaryOps, DyadicOps
<1>4. n.r[x] = s.r[x] /\ n.r[y] = s.r[y] /\ n.f = s.f /\ n.ok /\ Shape(n)
  BY <1>1 DEF After1, PC, Sound
<1> DEFINE p == ReadOperand(n, ins.src, ins.byte)
           o == ReadOperand(p.m, ins.dst, ins.byte)
<1>5. p.m = n /\ p.x = s.r[x]
  BY <1>2, <1>4 DEF ReadOperand, ReadOperandW
<1>6. Combine(n, ins) =
        IF p.m.ok
        THEN IF o.m.ok
             THEN LET g == Dyadic(op, WordSize, p.x, o.x, n.f)
                  IN  IF op \in ReadOnly THEN WithCodes(o.m, g.f) ELSE Update(o, ins, g)
             ELSE o.m
        ELSE p.m
  BY <1>2 DEF Combine, After, Size
<1> HIDE DEF p
<1>7. o.m = n /\ o.x = s.r[y]
  BY <1>2, <1>4, <1>5 DEF ReadOperand, ReadOperandW
<1> HIDE DEF o
<1> DEFINE res == Dyadic(op, WordSize, s.r[x], s.r[y], s.f)
<1>8. Combine(n, ins) = IF op \in ReadOnly THEN WithCodes(n, res.f) ELSE Update(o, ins, res)
  BY <1>4, <1>5, <1>6, <1>7
<1> HIDE DEF res
<1> DEFINE t == Arch(Update(o, ins, res))
           u == Arch(WithCodes(n, res.f))
<1>9. t.r = [n.r EXCEPT ![ins.dst.reg] = res.d] /\ t.f = res.f /\ t.mem = n.mem
  BY <1>2, <1>4, <1>7, UpdateParts
<1>10. u.r = n.r /\ u.f = res.f /\ u.mem = n.mem
  BY <1>4, CodesParts DEF Arch
<1>11. Turn(s, i) = IF op \in ReadOnly THEN u ELSE t
  BY <1>1, <1>3, <1>8 DEF Turn, ins
<1> HIDE DEF t, u
<1>12. QED
  BY <1>1, <1>2, <1>9, <1>10, <1>11 DEF Gives, NextPC, After1, res

LEMMA BranchTurn ==
  ASSUME NEW s, Sound(s), NEW op \in BranchOps, NEW off \in 0 .. ByteSize - 1, NEW i,
         prog.code[i] = BranchTo(op, off)
  PROVE  LET twice == (2 * off) % ByteSize
             by == IF Sign(ByteSize, off) THEN twice + WordSize - ByteSize ELSE twice
             next == Wrap(WordSize, s.r[PC] + 2)
         IN  Turn(s, i).r[PC] = IF Taken(op, s.f) THEN Wrap(WordSize, next + by) ELSE next
<1> DEFINE ins == prog.code[i]
           twice == (2 * off) % ByteSize
           by == IF Sign(ByteSize, off) THEN twice + WordSize - ByteSize ELSE twice
<1>1. PICK n : After1(s, n) /\ Run(s, NoFault, ins) = Exec(n, ins)
  BY RunIs
<1>2. ins.op = op /\ ins.off = off
  BY DEF BranchTo, One, Op
<1> HIDE DEF ins
<1>3. Exec(n, ins) = Branch(n, ins)
  BY <1>2 DEF Exec, BranchOps, UnaryOps, DyadicOps
<1>4. Branch(n, ins) = IF Taken(op, n.f) THEN JumpTo(n, Wrap(WordSize, n.r[PC] + by)) ELSE n
  BY <1>2 DEF Branch
<1> HIDE DEF by
<1>5. n.r[PC] = Wrap(WordSize, s.r[PC] + 2) /\ n.f = s.f /\ Shape(n) /\ PC \in DOMAIN n.r
  BY <1>1 DEF After1, Sound, PC
<1>6. \A a : Arch(JumpTo(n, a)).r[PC] = a
  BY <1>5 DEF Arch, JumpTo, Shape, Parts
<1>7. Turn(s, i) = Arch(Branch(n, ins))
  BY <1>1, <1>3 DEF Turn, ins
<1>8. Arch(n).r = n.r
  BY DEF Arch
<1>9. QED
  BY <1>4, <1>5, <1>6, <1>7, <1>8 DEF by

(* Alone, N is the sign of the difference and V that it does not fit.      *)
LEMMA CompareSigns ==
  ASSUME NEW h \in Nat \ {0}, NEW cc, NEW x \in Operand(2 * h), NEW y \in Operand(2 * h)
  PROVE  LET g == Cmp(2 * h, x, y, cc).f
             gap == Signed(2 * h, x) - Signed(2 * h, y)
         IN  /\ g.n <=> Signed(2 * h, (x - y) % (2 * h)) < 0
             /\ g.v <=> gap \notin -h .. h - 1
<1> DEFINE s == 2 * h
           d == Wrap(s, x - y)
<1>1. Half(s) = h /\ s \in Nat
  BY DEF Half
<1>2. d = (IF x < y THEN x - y + s ELSE x - y) /\ x \in 0 .. s - 1 /\ y \in 0 .. s - 1
  BY DEF Wrap, Operand
<1>3. (x - y) % s = d
  <2>1. \A w \in Nat, z \in Nat : z < w => z % w = z /\ (z - w) % w = z
    OBVIOUS
  <2>2. CASE x < y
    <3>1. d \in Nat /\ d < s /\ d - s = x - y
      BY <1>1, <1>2, <2>2
    <3> HIDE DEF s, d
    <3>2. QED
      BY <1>1, <2>1, <3>1
  <2>3. CASE ~(x < y)
    <3>1. d \in Nat /\ d < s /\ d = x - y
      BY <1>1, <1>2, <2>3
    <3> HIDE DEF s, d
    <3>2. QED
      BY <1>1, <2>1, <3>1
  <2>4. QED
    BY <2>2, <2>3
<1>4. (d >= h) <=> (IF d >= h THEN d - s ELSE d) < 0
  BY <1>2
<1>5. ((x >= h) # (y >= h) /\ (y >= h) = (d >= h))
        <=> (IF x >= h THEN x - s ELSE x) - (IF y >= h THEN y - s ELSE y) \notin -h .. h - 1
  BY <1>2
<1>6. QED
  BY <1>1, <1>3, <1>4, <1>5 DEF Cmp, Result, Flags, Sign, Signed

(* SUB leaves the codes that CMP leaves with its operands the other way    *)
(* round.                                                                  *)
LEMMA SubtractCompares ==
  ASSUME NEW h \in Nat \ {0}, NEW cc, NEW x \in Operand(2 * h), NEW y \in Operand(2 * h)
  PROVE  Sub(2 * h, y, x, cc).f = Cmp(2 * h, x, y, cc).f
<1> DEFINE s == 2 * h
           d == Wrap(s, x - y)
<1>1. Half(s) = h
  BY DEF Half
<1>2. d = (IF x < y THEN x - y + s ELSE x - y) /\ x \in 0 .. s - 1 /\ y \in 0 .. s - 1
  BY DEF Wrap, Operand
<1>3. ((y >= h) # (x >= h) /\ (y >= h) = (d >= h)) = ((x >= h) # (y >= h) /\ (y >= h) = (d >= h))
  OBVIOUS
<1>4. QED
  BY <1>1, <1>3 DEF Sub, Cmp, Result, Flags, Sign

LEMMA CompareTruth ==
  ASSUME NEW s, NEW x, NEW y, NEW cc
  PROVE  LET g == Cmp(s, x, y, cc).f IN g.n \in BOOLEAN /\ g.v \in BOOLEAN
<1> DEFINE d == Wrap(s, x - y)
           over == Sign(s, x) # Sign(s, y) /\ Sign(s, y) = Sign(s, d)
<1>1. Cmp(s, x, y, cc).f.n = Sign(s, d) /\ Cmp(s, x, y, cc).f.v = over
  BY DEF Cmp, Result, Flags
<1>2. Sign(s, d) \in BOOLEAN
  BY DEF Sign
<1>3. over \in BOOLEAN
  BY Zenon
<1> HIDE DEF over
<1>4. QED
  BY <1>1, <1>2, <1>3

(* Each branch is taken when the relation holds that it is named for.      *)
LEMMA TakenDecides ==
  ASSUME NEW op \in BranchOps, NEW cc, prog.r \in [0 .. 7 -> Word]
  PROVE  Taken(op, Cmp(WordSize, prog.r[0], prog.r[1], cc).f) <=> Relation(op)
<1>1. PICK h \in Nat \ {0} : WordSize = 2 * h /\ Half(WordSize) = h
  BY SizeHalves DEF Sized
<1> DEFINE x == prog.r[0]
           y == prog.r[1]
           g == Cmp(WordSize, x, y, cc).f
           sx == Signed(WordSize, x)
           sy == Signed(WordSize, y)
           sd == Signed(WordSize, (x - y) % WordSize)
<1>2. x \in Operand(2 * h) /\ y \in Operand(2 * h)
  <2>1. x \in Word /\ y \in Word
    OBVIOUS
  <2>2. QED
    BY <1>1, <2>1 DEF Operand, Word
<1>3. (g.c <=> x < y) /\ (g.z <=> x = y) /\ ((g.n # g.v) <=> sx < sy)
  BY <1>1, <1>2, CompareDecides
<1>4. (g.n <=> sd < 0) /\ (g.v <=> sx - sy \notin -h .. h - 1)
  BY <1>1, <1>2, CompareSigns
<1>5. g.n \in BOOLEAN /\ g.v \in BOOLEAN
  BY CompareTruth
<1>6. x \in Int /\ y \in Int /\ sx \in Int /\ sy \in Int /\ (sx = sy <=> x = y)
  BY <1>1, <1>2 DEF Operand, Signed, Sign
<1>7. sd \in Int
  <2>1. WordSize \in Nat \ {0} /\ x - y \in Int
    BY <1>6, WordPositive
  <2>2. QED
    BY <2>1, Divides, SignedType
<1>8. Value(0) = sx /\ Value(1) = sy /\ Was(0) = x /\ Was(1) = y
  BY DEF Value, Was
<1> SUFFICES Taken(op, g) <=> Relation(op)
  OBVIOUS
<1> HIDE DEF x, y, g, sx, sy, sd
<1>9. (g.n = g.v) <=> ~(sx < sy)
  BY <1>3, <1>5
<1>10. /\ op = "br" => Relation(op)
       /\ op = "bne" => (Relation(op) <=> x # y)
       /\ op = "beq" => (Relation(op) <=> x = y)
       /\ op = "bge" => (Relation(op) <=> sx >= sy)
       /\ op = "blt" => (Relation(op) <=> sx < sy)
       /\ op = "bgt" => (Relation(op) <=> sx > sy)
       /\ op = "ble" => (Relation(op) <=> sx <= sy)
       /\ op = "bpl" => (Relation(op) <=> sd >= 0)
       /\ op = "bmi" => (Relation(op) <=> sd < 0)
       /\ op = "bhi" => (Relation(op) <=> x > y)
       /\ op = "blos" => (Relation(op) <=> x <= y)
       /\ op = "bvc" => (Relation(op) <=> Fits(sx - sy))
       /\ op = "bvs" => (Relation(op) <=> ~Fits(sx - sy))
       /\ op = "bcc" => (Relation(op) <=> x >= y)
       /\ op = "bcs" => (Relation(op) <=> x < y)
  BY <1>8 DEF Relation, sd
<1>11. /\ op = "br" => Taken(op, g)
       /\ op = "bne" => (Taken(op, g) <=> ~g.z)
       /\ op = "beq" => (Taken(op, g) <=> g.z)
       /\ op = "bge" => (Taken(op, g) <=> g.n = g.v)
       /\ op = "blt" => (Taken(op, g) <=> g.n # g.v)
       /\ op = "bgt" => (Taken(op, g) <=> ~(g.z \/ g.n # g.v))
       /\ op = "ble" => (Taken(op, g) <=> g.z \/ g.n # g.v)
       /\ op = "bpl" => (Taken(op, g) <=> ~g.n)
       /\ op = "bmi" => (Taken(op, g) <=> g.n)
       /\ op = "bhi" => (Taken(op, g) <=> ~(g.c \/ g.z))
       /\ op = "blos" => (Taken(op, g) <=> g.c \/ g.z)
       /\ op = "bvc" => (Taken(op, g) <=> ~g.v)
       /\ op = "bvs" => (Taken(op, g) <=> g.v)
       /\ op = "bcc" => (Taken(op, g) <=> ~g.c)
       /\ op = "bcs" => (Taken(op, g) <=> g.c)
  BY DEF Taken
<1>12. Fits(sx - sy) <=> sx - sy \in -h .. h - 1
  BY <1>1 DEF Fits
<1>13. (x >= y <=> ~(x < y)) /\ (sx >= sy <=> ~(sx < sy)) /\ (sd >= 0 <=> ~(sd < 0))
       /\ (sx > sy <=> ~(sx = sy \/ sx < sy)) /\ (sx <= sy <=> sx = sy \/ sx < sy)
       /\ (x > y <=> ~(x = y \/ x < y)) /\ (x <= y <=> x = y \/ x < y)
  BY <1>6, <1>7
<1>14. op \in {"br", "bne", "beq", "bcc", "bcs", "bge", "blt", "bgt", "ble"} => (Taken(op, g) <=> Relation(op))
  BY <1>3, <1>6, <1>9, <1>10, <1>11, <1>13
<1>15. op \in {"bpl", "bmi", "bvc", "bvs", "bhi", "blos"} => (Taken(op, g) <=> Relation(op))
  BY <1>3, <1>4, <1>10, <1>11, <1>12, <1>13
<1>16. QED
  BY <1>14, <1>15 DEF BranchOps

(* Two fetches and a branch wrap as one sum does.                          *)
LEMMA LandsAt ==
  ASSUME NEW w \in Word, NEW off \in 0 .. ByteSize - 1, NEW go \in BOOLEAN
  PROVE  LET twice == (2 * off) % ByteSize
             by == IF Sign(ByteSize, off) THEN twice + WordSize - ByteSize ELSE twice
             next == Wrap(WordSize, Wrap(WordSize, w + 2) + 2)
         IN  (IF go THEN Wrap(WordSize, next + by) ELSE next)
               = (w + 4 + IF go THEN 2 * Signed(ByteSize, off) ELSE 0) % WordSize
<1> DEFINE twice == (2 * off) % ByteSize
           by == IF Sign(ByteSize, off) THEN twice + WordSize - ByteSize ELSE twice
           next == Wrap(WordSize, Wrap(WordSize, w + 2) + 2)
           far == 2 * Signed(ByteSize, off)
           e == IF go THEN Wrap(WordSize, next + by) ELSE next
           to == IF go THEN far ELSE 0
<1>1. PICK b \in Nat \ {0} : ByteSize = 2 * b /\ Half(ByteSize) = b
  BY SizeHalves DEF Sized
<1>2. WordSize \in Nat /\ WordSize >= 8 /\ WordSize >= 2 * ByteSize /\ w \in 0 .. WordSize - 1
  BY WordOfThree, Sizes DEF Word
<1>3. \A z \in Nat, y \in Nat : y < z => y % z = y /\ (y - z) % z = y /\ (y + z) % z = y
                                         /\ (y + 2 * z) % z = y
  OBVIOUS
<1>4. twice = IF off >= b THEN 2 * off - 2 * b ELSE 2 * off
  <2>1. CASE off >= b
    <3>1. 2 * off - 2 * b \in Nat /\ 2 * off - 2 * b < 2 * b /\ 2 * b \in Nat
          /\ (2 * off - 2 * b) + 2 * b = 2 * off
      BY <1>1, <2>1
    <3>2. QED
      BY <1>1, <1>3, <2>1, <3>1
  <2>2. CASE off < b
    <3>1. 2 * off \in Nat /\ 2 * off < 2 * b /\ 2 * b \in Nat
      BY <1>1, <2>2
    <3>2. QED
      BY <1>1, <1>3, <2>2, <3>1
  <2>3. QED
    BY <1>1, <2>1, <2>2
<1> HIDE DEF twice
<1>5. by = (IF off >= b THEN far + WordSize ELSE far) /\ far \in -ByteSize .. ByteSize - 1
      /\ (off >= b <=> far < 0)
  BY <1>1, <1>2, <1>4 DEF Sign, Signed
<1> HIDE DEF by, far
<1>6. next \in 0 .. WordSize - 1 /\ (next = w + 4 \/ next = w + 4 - WordSize)
  BY <1>2 DEF Wrap
<1> HIDE DEF next
<1>7. /\ e \in 0 .. WordSize - 1 /\ to \in Int
      /\ \/ e = w + 4 + to \/ e + WordSize = w + 4 + to \/ e - WordSize = w + 4 + to
         \/ e + 2 * WordSize = w + 4 + to
  <2>1. CASE go
    <3>1. e = IF next + by >= WordSize THEN next + by - WordSize ELSE next + by
      BY <1>1, <1>2, <1>5, <1>6, <2>1 DEF Wrap
    <3>2. QED
      BY <1>1, <1>2, <1>5, <1>6, <2>1, <3>1
  <2>2. CASE ~go
    BY <1>2, <1>6, <2>2
  <2>3. QED
    BY <2>1, <2>2
<1>8. w + 4 + to = w + 4 + (IF go THEN far ELSE 0)
  OBVIOUS
<1> HIDE DEF e, to
<1>9. e = (w + 4 + to) % WordSize
  BY <1>2, <1>3, <1>7
<1>10. QED
  BY <1>9 DEF e, to, by, far, next, twice

LEMMA TurnSound ==
  ASSUME NEW s, Sound(s), NEW i, prog.code[i] \in Decoded PROVE Sound(Turn(s, i))
<1>1. NoFault \in Int
  BY DEF NoFault
<1>2. Whole(Run(s, NoFault, prog.code[i]))
  BY <1>1, RunEnds
<1>3. QED
  BY <1>2 DEF Turn, Arch, Whole, Sound

(* After the first instruction of the program the codes are those of the   *)
(* comparison, and nothing but R0 has changed.                             *)
LEMMA CompareFirst ==
  ASSUME Sound(Origin), prog.r \in [0 .. 7 -> Word], NEW op, NEW off,
         prog.code \in {CompareBranch(op, off), SubtractBranch(op, off)}
  PROVE  /\ Turn(Origin, 1).f = Cmp(WordSize, prog.r[0], prog.r[1], prog.f).f
         /\ Turn(Origin, 1).r[PC] = Wrap(WordSize, prog.r[PC] + 2)
<1>1. Origin.r = prog.r /\ Origin.f = prog.f
  BY DEF Origin
<1>2. {"cmp", "sub"} \subseteq DyadicOps /\ "cmp" \in ReadOnly /\ "sub" \notin ReadOnly
  BY DEF DyadicOps, ReadOnly
<1>3. NextPC(Origin)[PC] = Wrap(WordSize, prog.r[PC] + 2) /\ PC # 0
      /\ \A d : [NextPC(Origin) EXCEPT ![0] = d][PC] = NextPC(Origin)[PC]
  BY <1>1 DEF NextPC, PC
<1>4. CASE prog.code = CompareBranch(op, off)
  <2>1. prog.code[1] = Op("cmp", Reg(0), Reg(1))
    BY <1>4 DEF CompareBranch
  <2>2. Turn(Origin, 1).r = NextPC(Origin)
        /\ Turn(Origin, 1).f = Dyadic("cmp", WordSize, Origin.r[0], Origin.r[1], Origin.f).f
    BY <1>2, <2>1, DyadicTurn
  <2>3. QED
    BY <1>1, <1>3, <2>2 DEF Dyadic
<1>5. CASE prog.code = SubtractBranch(op, off)
  <2>1. prog.code[1] = Op("sub", Reg(1), Reg(0))
    BY <1>5 DEF SubtractBranch
  <2>2. Gives(Origin, Turn(Origin, 1), 0, Dyadic("sub", WordSize, Origin.r[1], Origin.r[0], Origin.f))
    BY <1>2, <2>1, DyadicTurn
  <2>3. PICK h \in Nat \ {0} : WordSize = 2 * h
    BY SizeHalves DEF Sized
  <2>4. prog.r[0] \in Operand(2 * h) /\ prog.r[1] \in Operand(2 * h)
    BY <2>3 DEF Operand, Word
  <2>5. Sub(WordSize, prog.r[1], prog.r[0], prog.f).f = Cmp(WordSize, prog.r[0], prog.r[1], prog.f).f
    BY <2>3, <2>4, SubtractCompares
  <2>6. QED
    BY <1>1, <1>3, <2>2, <2>5 DEF Gives, Dyadic
<1>6. QED
  BY <1>4, <1>5

(* After CMP or SUB every branch goes where the relation sends it that it  *)
(* is named for.                                                           *)
THEOREM BranchesAlwaysDecide == InstrSpec => []BranchesDecide
<1>1. GuestInv => BranchesDecide
  <2> SUFFICES ASSUME GuestInv, Finished("branch") PROVE BranchesDecide
    BY DEF BranchesDecide
  <2>1. prog.code \in CodeOf["branch"] /\ prog.r \in [0 .. 7 -> Word] /\ Sound(Origin)
        /\ r = Ran(Len(prog.code)).r
    <3>1. "branch" \in DOMAIN CodeOf
      BY DEF CodeOf
    <3>2. QED
      BY <3>1, FinishedAs
  <2>2. PICK op \in BranchOps, off \in 0 .. ByteSize - 1 :
          prog.code \in {CompareBranch(op, off), SubtractBranch(op, off)}
    BY <2>1 DEF CodeOf
  <2>3. prog.code[2] = BranchTo(op, off) /\ Len(prog.code) = 2 /\ prog.code[1] \in Decoded
    <3>1. prog.code \in Seq(Decoded)
      BY DEF GuestInv, InstrInv, InstrTypes
    <3>2. prog.code[2] = BranchTo(op, off) /\ Len(prog.code) = 2
      BY <2>2 DEF CompareBranch, SubtractBranch
    <3>3. QED
      BY <3>1, <3>2
  <2>4. prog.code[2].op = op /\ prog.code[2].off = off
    BY <2>3 DEF BranchTo, One, Op
  <2> DEFINE s == Turn(Origin, 1)
  <2>5. r = Turn(s, 2).r
    BY <2>1, <2>3 DEF Ran
  <2>6. Sound(s)
    BY <2>1, <2>3, TurnSound
  <2>7. s.f = Cmp(WordSize, prog.r[0], prog.r[1], prog.f).f /\ s.r[PC] = Wrap(WordSize, prog.r[PC] + 2)
    BY <2>1, <2>2, CompareFirst
  <2> DEFINE w == prog.r[PC]
             twice == (2 * off) % ByteSize
             by == IF Sign(ByteSize, off) THEN twice + WordSize - ByteSize ELSE twice
             next == Wrap(WordSize, Wrap(WordSize, w + 2) + 2)
             go == Taken(op, s.f)
  <2>8. w \in Word
    BY <2>1 DEF PC
  <2>9. Turn(s, 2).r[PC] = IF go THEN Wrap(WordSize, Wrap(WordSize, s.r[PC] + 2) + by)
                           ELSE Wrap(WordSize, s.r[PC] + 2)
    BY <2>3, <2>6, BranchTurn
  <2>10. go <=> Relation(op)
    BY <2>1, <2>7, TakenDecides
  <2> HIDE DEF s, go
  <2>11. r[PC] = IF Relation(op) THEN Wrap(WordSize, next + by) ELSE next
    BY <2>5, <2>7, <2>9, <2>10
  <2>12. \A b \in BOOLEAN : (IF b THEN Wrap(WordSize, next + by) ELSE next)
               = (w + 4 + IF b THEN 2 * Signed(ByteSize, off) ELSE 0) % WordSize
    BY <2>8, LandsAt
  <2> HIDE DEF w, next, by
  <2>13. CASE Relation(op)
    <3>1. r[PC] = (w + 4 + 2 * Signed(ByteSize, off)) % WordSize
      BY <2>11, <2>12, <2>13
    <3>2. QED
      BY <2>4, <2>13, <3>1 DEF BranchesDecide, Was, w
  <2>14. CASE ~Relation(op)
    <3>1. r[PC] = (w + 4 + 0) % WordSize
      BY <2>11, <2>12, <2>14
    <3>2. QED
      BY <2>4, <2>14, <3>1 DEF BranchesDecide, Was, w
  <2>15. QED
    BY <2>13, <2>14
<1>2. QED
  BY <1>1, GuestInvariant, PTL

-----------------------------------------------------------------------------
(* Two words as one number.                                                *)
LEMMA Multiples ==
  ASSUME NEW s \in Nat \ {0}, NEW a \in Int, NEW b \in Int, -s < s * (a - b), s * (a - b) < s PROVE a = b
<1>1. \A k \in Int : (k >= 1 => s * k >= s) /\ (k <= -1 => s * k <= -s)
  <2> SUFFICES ASSUME NEW k \in Int PROVE (k >= 1 => s * k >= s) /\ (k <= -1 => s * k <= -s)
    OBVIOUS
  <2>1. k >= 1 => s * (k - 1) >= 0
    <3>1. \A p \in Nat, q \in Nat : p * q >= 0
      OBVIOUS
    <3>2. QED
      BY <3>1
  <2>2. k <= -1 => s * (-1 - k) >= 0
    <3>1. \A p \in Nat, q \in Nat : p * q >= 0
      OBVIOUS
    <3>2. QED
      BY <3>1
  <2>3. s * (k - 1) = s * k - s /\ s * (-1 - k) = -s - s * k
    OBVIOUS
  <2>4. s * k \in Int /\ s \in Int
    OBVIOUS
  <2>5. QED
    BY <2>1, <2>2, <2>3, <2>4
<1>2. a - b \in Int
  OBVIOUS
<1>3. ~(a - b >= 1) /\ ~(a - b <= -1)
  BY <1>1, <1>2
<1>4. QED
  BY <1>2, <1>3

LEMMA Residue ==
  ASSUME NEW s \in Nat \ {0}, NEW d \in 0 .. s - 1, NEW k \in Int, NEW x, x = d + s * k
  PROVE  x % s = d /\ x \div s = k
<1>0. x \in Int /\ d \in Int /\ s \in Int
  OBVIOUS
<1> DEFINE q == x \div s
           m == x % s
<1>1. q \in Int /\ m \in 0 .. s - 1 /\ x = s * q + m
  BY <1>0
<1> HIDE DEF q, m
<1>2. s * (k - q) = s * k - s * q
  BY <1>1
<1>3. s * k \in Int /\ s * q \in Int
  BY <1>1
<1>4. s * (k - q) = m - d
  BY <1>0, <1>1, <1>2, <1>3
<1>5. -s < m - d /\ m - d < s
  BY <1>0, <1>1
<1>6. k = q
  BY <1>1, <1>4, <1>5, Multiples
<1>7. m = d
  BY <1>0, <1>1, <1>3, <1>6
<1>8. QED
  BY <1>6, <1>7 DEF q, m

(* The size of a word is 2 * h, that of two words 2 * H.                   *)
LEMMA PairSizes ==
  ASSUME NEW h \in Nat \ {0}, WordSize = 2 * h
  PROVE  LET H == h * WordSize
         IN  H \in Nat \ {0} /\ DoubleSize = 2 * H /\ Half(DoubleSize) = H /\ Half(WordSize) = h
<1> DEFINE H == h * WordSize
<1>1. \A p \in Nat \ {0}, q \in Nat \ {0} : p * q \in Nat \ {0}
  OBVIOUS
<1>2. WordSize \in Nat \ {0}
  OBVIOUS
<1>3. H \in Nat \ {0}
  BY <1>1, <1>2
<1>4. \A w \in Int : (2 * h) * w = 2 * (h * w)
  OBVIOUS
<1>5. DoubleSize = 2 * H
  BY <1>2, <1>4 DEF DoubleSize
<1> HIDE DEF H
<1>6. Half(DoubleSize) = H
  BY <1>3, <1>5 DEF Half
<1>7. QED
  BY <1>3, <1>5, <1>6 DEF H, Half

LEMMA PairBounds ==
  ASSUME NEW h \in Nat \ {0}, WordSize = 2 * h, NEW hi \in Word, NEW lo \in Word
  PROVE  LET d == hi * WordSize + lo
         IN  /\ d \in Operand(DoubleSize) /\ (Sign(DoubleSize, d) <=> hi >= h)
             /\ Pair(hi, lo) = IF hi >= h THEN d - DoubleSize ELSE d
<1> DEFINE w == WordSize
           d == hi * WordSize + lo
<1>1. w \in Nat \ {0} /\ hi \in 0 .. w - 1 /\ lo \in 0 .. w - 1
  BY DEF Word
<1>2. h * w \in Nat /\ DoubleSize = 2 * (h * w) /\ Half(DoubleSize) = h * w
  BY PairSizes
<1>3. hi * w \in Int /\ (hi >= h => hi * w >= h * w) /\ (hi < h => hi * w <= h * w - w)
      /\ hi * w >= 0 /\ hi * w <= w * w - w
  <2>1. \A p \in Nat, q \in Nat : p <= q => p * w <= q * w
    BY <1>1
  <2>2. (h - 1) * w = h * w - w /\ (w - 1) * w = w * w - w
    BY <1>1
  <2>3. hi \in Nat /\ h - 1 \in Nat /\ h \in Nat /\ w - 1 \in Nat /\ 0 * w = 0 /\ 0 \in Nat
    BY <1>1
  <2>4. hi >= h => hi * w >= h * w
    BY <1>1, <2>1, <2>3
  <2>5. hi < h => hi * w <= (h - 1) * w
    BY <1>1, <2>1, <2>3
  <2>6. hi * w <= (w - 1) * w /\ hi * w >= 0 * w
    BY <1>1, <2>1, <2>3
  <2>7. QED
    BY <2>2, <2>3, <2>4, <2>5, <2>6, <1>1
<1>4. DoubleSize = w * w
  BY DEF DoubleSize
<1>5. w * w \in Nat
  BY <1>1
<1> HIDE DEF w
<1>6. d \in Operand(DoubleSize)
  BY <1>1, <1>3, <1>4, <1>5 DEF Operand, w
<1>7. d >= h * w <=> hi >= h
  BY <1>1, <1>2, <1>3 DEF w
<1>8. QED
  BY <1>2, <1>6, <1>7 DEF Sign, Pair, Signed

(* SUB leaves in C the borrow, and SBC passes it on.                       *)
LEMMA SubIsExact ==
  ASSUME NEW h \in Nat \ {0}, NEW cc, NEW x \in Operand(2 * h), NEW y \in Operand(2 * h)
  PROVE  LET g == Sub(2 * h, x, y, cc)
         IN  g.d \in Operand(2 * h) /\ y - x = g.d - 2 * h * OneIf(g.f.c)
<1> DEFINE s == 2 * h
           d == Wrap(s, y - x)
<1>1. d = (IF y < x THEN y - x + s ELSE y - x)
  BY DEF Wrap, Operand
<1>2. d \in Operand(s) /\ y - x = d - s * OneIf(y < x)
  <2>1. CASE y < x
    BY <1>1, <2>1 DEF OneIf, Operand
  <2>2. CASE ~(y < x)
    BY <1>1, <2>2 DEF OneIf, Operand
  <2>3. QED
    BY <2>1, <2>2
<1>3. QED
  BY <1>2 DEF Sub, Result, Flags

LEMMA SbcIsExact ==
  ASSUME NEW h \in Nat \ {0}, NEW cc, NEW x \in Operand(2 * h)
  PROVE  LET g == Sbc(2 * h, x, cc)
         IN  g.d \in Operand(2 * h) /\ x - OneIf(cc.c) = g.d - 2 * h * OneIf(g.f.c)
<1> DEFINE s == 2 * h
           d == Wrap(s, x - OneIf(cc.c))
<1>1. CASE cc.c
  <2>1. d = IF x = 0 THEN s - 1 ELSE x - 1
    BY <1>1 DEF Wrap, Operand, OneIf
  <2>2. d \in Operand(s) /\ x - 1 = d - s * OneIf(d = s - 1)
    <3>1. CASE x = 0
      BY <2>1, <3>1 DEF Operand, OneIf
    <3>2. CASE x # 0
      BY <2>1, <3>2 DEF Operand, OneIf
    <3>3. QED
      BY <3>1, <3>2
  <2>3. QED
    BY <1>1, <2>2 DEF Sbc, Result, Flags, OneIf
<1>2. CASE ~cc.c
  <2>1. d = x
    BY <1>2 DEF Wrap, Operand, OneIf
  <2>2. OneIf(cc.c) = 0 /\ OneIf(cc.c /\ d = s - 1) = 0
    BY <1>2 DEF OneIf
  <2>3. d \in Operand(s) /\ x - OneIf(cc.c) = d - s * OneIf(cc.c /\ d = s - 1)
    BY <2>1, <2>2 DEF Operand
  <2>4. QED
    BY <2>3 DEF Sbc, Result, Flags
<1>3. QED
  BY <1>1, <1>2

LEMMA NegIsExact ==
  ASSUME NEW h \in Nat \ {0}, NEW cc, NEW x \in Operand(2 * h)
  PROVE  LET g == Neg(2 * h, x, cc)
         IN  g.d \in Operand(2 * h) /\ -x = g.d - 2 * h * OneIf(g.f.c)
<1> DEFINE s == 2 * h
           d == Wrap(s, -x)
<1>1. d = IF x = 0 THEN 0 ELSE s - x
  BY DEF Wrap, Operand
<1>2. d \in Operand(s) /\ -x = d - s * OneIf(d # 0)
  <2>1. CASE x = 0
    BY <1>1, <2>1 DEF OneIf, Operand
  <2>2. CASE x # 0
    BY <1>1, <2>2 DEF OneIf, Operand
  <2>3. QED
    BY <2>1, <2>2
<1>3. QED
  BY <1>2 DEF Neg, Result, Flags

(* The shifts by one, to the left and to the right.                        *)
LEMMA RolIsExact ==
  ASSUME NEW h \in Nat \ {0}, NEW cc, NEW x \in Operand(2 * h)
  PROVE  LET g == Rol(2 * h, x, cc)
         IN  /\ g.d \in Operand(2 * h) /\ 2 * x + OneIf(cc.c) = g.d + 2 * h * OneIf(x >= h)
             /\ g.f.c = (x >= h) /\ g.f.v = ((g.d >= h) # (x >= h))
<1> DEFINE s == 2 * h
           c == OneIf(cc.c)
           d == Wrap(s, 2 * x + c)
<1>0. c \in 0 .. 1
  BY DEF OneIf
<1>1. Half(s) = h
  BY DEF Half
<1>2. d = IF x >= h THEN 2 * x + c - s ELSE 2 * x + c
  BY <1>0 DEF Wrap, Operand
<1> HIDE DEF c
<1>3. d \in Operand(s) /\ 2 * x + c = d + s * OneIf(x >= h)
  <2>1. CASE x >= h
    BY <1>0, <1>2, <2>1 DEF OneIf, Operand
  <2>2. CASE ~(x >= h)
    BY <1>0, <1>2, <2>2 DEF OneIf, Operand
  <2>3. QED
    BY <2>1, <2>2
<1>4. Rol(s, x, cc).d = d /\ Rol(s, x, cc).f.c = Sign(s, x) /\ Rol(s, x, cc).f.v = (Sign(s, d) # Sign(s, x))
  BY DEF Rol, Shifted, Result, Flags, c
<1>5. Sign(s, x) = (x >= h) /\ Sign(s, d) = (d >= h)
  BY <1>1 DEF Sign
<1>6. QED
  BY <1>3, <1>4, <1>5 DEF c

LEMMA AslIsExact ==
  ASSUME NEW h \in Nat \ {0}, NEW cc, NEW x \in Operand(2 * h)
  PROVE  LET g == Asl(2 * h, x, cc)
         IN  /\ g.d \in Operand(2 * h) /\ 2 * x = g.d + 2 * h * OneIf(x >= h)
             /\ g.f.c = (x >= h)
<1> DEFINE s == 2 * h
           d == Wrap(s, 2 * x)
<1>1. Half(s) = h
  BY DEF Half
<1>2. d = IF x >= h THEN 2 * x - s ELSE 2 * x
  BY DEF Wrap, Operand
<1>3. d \in Operand(s) /\ 2 * x = d + s * OneIf(x >= h)
  <2>1. CASE x >= h
    BY <1>2, <2>1 DEF OneIf, Operand
  <2>2. CASE ~(x >= h)
    BY <1>2, <2>2 DEF OneIf, Operand
  <2>3. QED
    BY <2>1, <2>2
<1>4. Asl(s, x, cc).d = d /\ Asl(s, x, cc).f.c = Sign(s, x)
  BY DEF Asl, Shifted, Result, Flags
<1>5. Sign(s, x) = (x >= h)
  BY <1>1 DEF Sign
<1>6. QED
  BY <1>3, <1>4, <1>5

LEMMA Division ==
  ASSUME NEW s \in Nat \ {0}, NEW x \in Int
  PROVE  x % s \in 0 .. s - 1 /\ x \div s \in Int /\ x = s * (x \div s) + (x % s)
  OBVIOUS

LEMMA OddParts ==
  ASSUME NEW x \in Int
  PROVE  x \div 2 \in Int /\ x = 2 * (x \div 2) + OneIf(Odd(x)) /\ Odd(x) \in BOOLEAN
<1>0. x % 2 \in 0 .. 1 /\ x \div 2 \in Int /\ x = 2 * (x \div 2) + (x % 2)
  <2>1. 2 \in Nat \ {0}
    OBVIOUS
  <2>2. QED
    BY <2>1, Division
<1>2. OneIf(Odd(x)) = x % 2
  BY <1>0 DEF OneIf, Odd
<1>3. QED
  BY <1>0, <1>2 DEF Odd

LEMMA AsrIsExact ==
  ASSUME NEW h \in Nat \ {0}, NEW cc, NEW x \in Operand(2 * h)
  PROVE  LET g == Asr(2 * h, x, cc)
         IN  /\ g.d = (x \div 2) + h * OneIf(x >= h) /\ g.f.c = Odd(x)
             /\ g.d \in Operand(2 * h) /\ (g.d >= h <=> x >= h)
<1> DEFINE s == 2 * h
           d == (x \div 2) + (IF Sign(s, x) THEN h ELSE 0)
<1>1. Half(s) = h
  BY DEF Half
<1>2. Asr(s, x, cc).d = d /\ Asr(s, x, cc).f.c = Odd(x)
  BY <1>1 DEF Asr, Shifted, Result, Flags
<1>3. Sign(s, x) = (x >= h)
  BY <1>1 DEF Sign
<1>4. x \div 2 \in 0 .. h - 1
  BY DEF Operand
<1>5. d = (x \div 2) + h * OneIf(x >= h)
  <2>1. h * 1 = h /\ h * 0 = 0
    OBVIOUS
  <2>2. QED
    BY <1>3, <2>1 DEF OneIf
<1>6. d \in Operand(s) /\ (d >= h <=> x >= h)
  <2> DEFINE p == x \div 2
  <2>1. p \in 0 .. h - 1 /\ d = p + (IF x >= h THEN h ELSE 0)
    BY <1>3, <1>4
  <2> HIDE DEF p, d
  <2>2. QED
    BY <2>1 DEF Operand
<1>7. QED
  BY <1>2, <1>5, <1>6

LEMMA RorIsExact ==
  ASSUME NEW h \in Nat \ {0}, NEW cc, NEW x \in Operand(2 * h)
  PROVE  LET g == Ror(2 * h, x, cc)
         IN  /\ g.d = (x \div 2) + h * OneIf(cc.c) /\ g.f.c = Odd(x)
             /\ g.d \in Operand(2 * h)
<1> DEFINE s == 2 * h
           d == (x \div 2) + (IF cc.c THEN h ELSE 0)
<1>1. Half(s) = h
  BY DEF Half
<1>2. Ror(s, x, cc).d = d /\ Ror(s, x, cc).f.c = Odd(x)
  BY <1>1 DEF Ror, Shifted, Result, Flags
<1>4. x \div 2 \in 0 .. h - 1
  BY DEF Operand
<1>5. d = (x \div 2) + h * OneIf(cc.c)
  <2>1. h * 1 = h /\ h * 0 = 0
    OBVIOUS
  <2>2. QED
    BY <2>1 DEF OneIf
<1>6. d \in Operand(s)
  BY <1>4 DEF Operand
<1>7. QED
  BY <1>2, <1>5, <1>6

(* Two words taken from two: SUB of the low words, SBC, SUB of the high    *)
(* words is the difference modulo the square of the word.                  *)
LEMMA DoubleSubtractIsExact ==
  ASSUME NEW s \in Nat \ {0}, \E h \in Nat \ {0} : s = 2 * h, NEW cc,
         NEW a \in Operand(s), NEW b \in Operand(s),
         NEW c \in Operand(s), NEW e \in Operand(s)
  PROVE  LET low == Sub(s, b, e, cc)
             mid == Sbc(s, c, low.f)
             high == Sub(s, a, mid.d, mid.f)
                      k == -(OneIf(mid.f.c) + OneIf(high.f.c))
         IN  /\ (c * s + e) - (a * s + b) = (high.d * s + low.d) + (s * s) * k
             /\ high.d \in Operand(s) /\ low.d \in Operand(s)
<1> DEFINE low == Sub(s, b, e, cc)
           mid == Sbc(s, c, low.f)
           high == Sub(s, a, mid.d, mid.f)
           k1 == OneIf(low.f.c)
           k2 == OneIf(mid.f.c)
           k3 == OneIf(high.f.c)
<1>0. PICK h \in Nat \ {0} : s = 2 * h
  OBVIOUS
<1>1. low.d \in Operand(s) /\ e - b = low.d - s * k1
  BY <1>0, SubIsExact
<1>2. mid.d \in Operand(s) /\ c - k1 = mid.d - s * k2
  BY <1>0, SbcIsExact
<1>3. high.d \in Operand(s) /\ mid.d - a = high.d - s * k3
  BY <1>0, <1>2, SubIsExact
<1>4. k1 \in Int /\ k2 \in Int /\ k3 \in Int
  BY DEF OneIf
<1> DEFINE l == low.d
           m == mid.d
           g == high.d
<1>5. l \in Int /\ m \in Int /\ g \in Int /\ a \in Int /\ b \in Int /\ c \in Int /\ e \in Int /\ s \in Int
  BY <1>1, <1>2, <1>3 DEF Operand
<1>6. e - b = l - s * k1 /\ c - k1 = m - s * k2 /\ m - a = g - s * k3
  BY <1>1, <1>2, <1>3
<1>7. l \in Operand(s) /\ g \in Operand(s)
  BY <1>1, <1>3
<1> HIDE DEF low, mid, high, k1, k2, k3, l, m, g
<1>8. c - a = (g - s * (k2 + k3)) + k1
  BY <1>4, <1>5, <1>6
<1>9. c * s - a * s = ((g - s * (k2 + k3)) + k1) * s
  BY <1>4, <1>5, <1>8
<1>10. ((g - s * (k2 + k3)) + k1) * s = (g * s + (s * s) * (-(k2 + k3))) + s * k1
  BY <1>4, <1>5
<1>11. (c * s + e) - (a * s + b) = (g * s + l) + (s * s) * (-(k2 + k3))
  BY <1>4, <1>5, <1>6, <1>9, <1>10
<1>12. QED
  BY <1>7, <1>11 DEF l, g, k2, k3, low, mid, high

(* NEG of both words and SBC of the high one negate the number.            *)
LEMMA DoubleNegateIsExact ==
  ASSUME NEW s \in Nat \ {0}, \E h \in Nat \ {0} : s = 2 * h, NEW cc,
         NEW c \in Operand(s), NEW e \in Operand(s)
  PROVE  LET first == Neg(s, c, cc)
             low == Neg(s, e, first.f)
             high == Sbc(s, first.d, low.f)
                      k == OneIf(first.f.c) + OneIf(high.f.c)
         IN  /\ (c * s + e) + (high.d * s + low.d) = (s * s) * k
             /\ high.d \in Operand(s) /\ low.d \in Operand(s)
<1> DEFINE first == Neg(s, c, cc)
           low == Neg(s, e, first.f)
           high == Sbc(s, first.d, low.f)
           k1 == OneIf(first.f.c)
           k2 == OneIf(low.f.c)
           k3 == OneIf(high.f.c)
<1>0. PICK h \in Nat \ {0} : s = 2 * h
  OBVIOUS
<1>1. first.d \in Operand(s) /\ -c = first.d - s * k1
  BY <1>0, NegIsExact
<1>2. low.d \in Operand(s) /\ -e = low.d - s * k2
  BY <1>0, NegIsExact
<1>3. high.d \in Operand(s) /\ first.d - k2 = high.d - s * k3
  BY <1>0, <1>1, SbcIsExact
<1>4. k1 \in Int /\ k2 \in Int /\ k3 \in Int
  BY DEF OneIf
<1> DEFINE l == low.d
           m == first.d
           g == high.d
<1>5. l \in Int /\ m \in Int /\ g \in Int /\ c \in Int /\ e \in Int /\ s \in Int
  BY <1>1, <1>2, <1>3 DEF Operand
<1>6. -c = m - s * k1 /\ -e = l - s * k2 /\ m - k2 = g - s * k3
  BY <1>1, <1>2, <1>3
<1>7. l \in Operand(s) /\ g \in Operand(s)
  BY <1>2, <1>3
<1> HIDE DEF first, low, high, k1, k2, k3, l, m, g
<1>8. -c = (g - s * (k1 + k3)) + k2
  BY <1>4, <1>5, <1>6
<1>9. (-c) * s = ((g - s * (k1 + k3)) + k2) * s
  BY <1>4, <1>5, <1>8
<1>10. ((g - s * (k1 + k3)) + k2) * s = (g * s + (s * s) * (-(k1 + k3))) + s * k2
  BY <1>4, <1>5
<1>11. -(c * s + e) = (-c) * s + (-e)
  BY <1>5
<1>12. -(c * s + e) = (g * s + l) + (s * s) * (-(k1 + k3))
  BY <1>4, <1>5, <1>6, <1>9, <1>10, <1>11
<1>13. (s * s) * (-(k1 + k3)) = -((s * s) * (k1 + k3)) /\ (s * s) * (k1 + k3) \in Int
        /\ c * s \in Int /\ g * s \in Int
  BY <1>4, <1>5
<1>14. (c * s + e) + (g * s + l) = (s * s) * (k1 + k3)
  BY <1>5, <1>12, <1>13
<1>15. QED
  BY <1>7, <1>14 DEF l, g, k1, k3, low, first, high

(* ASL of the low word and ROL of the high one double the number; C is its *)
(* sign, and V tells that the double does not fit.                         *)
LEMMA DoubleTwiceIsExact ==
  ASSUME NEW h \in Nat \ {0}, WordSize = 2 * h, NEW cc, NEW hi \in Word, NEW lo \in Word
  PROVE  LET low == Asl(WordSize, lo, cc)
             high == Rol(WordSize, hi, low.f)
             was == hi * WordSize + lo
         IN  /\ high.d * WordSize + low.d = (2 * was) % DoubleSize
             /\ high.f.c = (Pair(hi, lo) < 0)
             /\ high.f.v = ~FitsDouble(2 * Pair(hi, lo))
<1> DEFINE w == WordSize
           low == Asl(w, lo, cc)
           high == Rol(w, hi, low.f)
           was == hi * w + lo
           k1 == OneIf(lo >= h)
           k2 == OneIf(hi >= h)
           l == low.d
           g == high.d
<1>0. Operand(2 * h) = Word /\ w = 2 * h /\ hi \in Operand(2 * h) /\ lo \in Operand(2 * h)
  BY DEF Operand, Word
<1>1. l \in Word /\ 2 * lo = l + w * k1 /\ low.f.c = (lo >= h)
  BY <1>0, AslIsExact
<1> HIDE DEF low
<1>2. g \in Word /\ 2 * hi + OneIf(low.f.c) = g + w * k2
      /\ high.f.c = (hi >= h) /\ high.f.v = ((g >= h) # (hi >= h))
  BY <1>0, RolIsExact
<1>3. OneIf(low.f.c) = k1 /\ k1 \in Int /\ k2 \in Int
  <2>1. OneIf(low.f.c) = k1
    BY <1>1
  <2>2. QED
    BY <2>1 DEF OneIf
<1>4. l \in Int /\ g \in Int /\ hi \in Int /\ lo \in Int /\ w \in Int
  BY <1>0, <1>1, <1>2 DEF Word
<1> DEFINE d == g * w + l
<1>5. d \in Operand(DoubleSize) /\ (Sign(DoubleSize, d) <=> g >= h)
      /\ was \in Operand(DoubleSize)
      /\ Pair(hi, lo) = IF hi >= h THEN was - DoubleSize ELSE was
  BY <1>1, <1>2, PairBounds
<1>6. DoubleSize \in Nat \ {0} /\ DoubleSize = w * w /\ DoubleSize = 2 * Half(DoubleSize)
      /\ Half(DoubleSize) \in Nat \ {0}
  BY PairSizes DEF DoubleSize
<1>7. (hi >= h => k2 = 1) /\ (~(hi >= h) => k2 = 0)
  BY DEF OneIf
<1>8. 2 * was = d + DoubleSize * k2
  <2>1. 2 * lo = l + w * k1 /\ 2 * hi + k1 = g + w * k2
    BY <1>1, <1>2, <1>3
  <2> HIDE DEF w, l, g, k1, k2, low, high
  <2>2. 2 * hi = (g + w * k2) - k1
    BY <1>3, <1>4, <2>1
  <2>3. (2 * hi) * w = ((g + w * k2) - k1) * w
    BY <2>2
  <2>4. ((g + w * k2) - k1) * w = (g * w + (w * w) * k2) - w * k1
    BY <1>3, <1>4
  <2>5. (2 * hi) * w = 2 * (hi * w)
    BY <1>4
  <2>6. 2 * was = (g * w + l) + (w * w) * k2
    BY <1>3, <1>4, <2>1, <2>3, <2>4, <2>5
  <2>7. QED
    BY <1>6, <2>6
<1> HIDE DEF d
<1>9. (2 * was) % DoubleSize = d
  <2>1. d \in 0 .. DoubleSize - 1
    BY <1>5 DEF Operand
  <2> HIDE DEF k2, was
  <2>2. \A x : x = d + DoubleSize * k2 => x % DoubleSize = d
    <3>1. DoubleSize \in Nat \ {0} /\ k2 \in Int
      BY <1>3, <1>6
    <3>2. QED
      BY <2>1, <3>1, Residue
  <2>3. QED
    BY <1>8, <2>2
<1>10. (hi >= h) = (Pair(hi, lo) < 0)
  BY <1>5, <1>6 DEF Operand
<1>11. FitsDouble(2 * Pair(hi, lo)) <=> (g >= h <=> hi >= h)
  <2> DEFINE H == Half(DoubleSize)
  <2>1. FitsDouble(2 * Pair(hi, lo)) <=> 2 * Pair(hi, lo) \in -H .. H - 1
    BY DEF FitsDouble
  <2>2. g >= h <=> d >= H
    BY <1>5 DEF Sign
  <2>3. d \in 0 .. 2 * H - 1 /\ H \in Nat \ {0} /\ DoubleSize = 2 * H
    BY <1>5, <1>6 DEF Operand
  <2>4. 2 * Pair(hi, lo) = IF hi >= h THEN d - DoubleSize ELSE d
    <3>1. was \in Int /\ d \in Int
      BY <1>5, <1>6 DEF Operand
    <3>2. CASE hi >= h
      BY <1>5, <1>6, <1>7, <1>8, <3>1, <3>2
    <3>3. CASE ~(hi >= h)
      BY <1>5, <1>6, <1>7, <1>8, <3>1, <3>3
    <3>4. QED
      BY <3>2, <3>3
  <2> HIDE DEF H, g, was
  <2>5. CASE hi >= h
    BY <2>1, <2>2, <2>3, <2>4, <2>5
  <2>6. CASE ~(hi >= h)
    BY <2>1, <2>2, <2>3, <2>4, <2>6
  <2>7. QED
    BY <2>5, <2>6
<1>12. high.f.v = ~FitsDouble(2 * Pair(hi, lo))
  <2>1. FitsDouble(2 * Pair(hi, lo)) \in BOOLEAN
    BY DEF FitsDouble
  <2>2. (g >= h) \in BOOLEAN /\ (hi >= h) \in BOOLEAN
    OBVIOUS
  <2>3. QED
    BY <1>2, <1>11, <2>1, <2>2
<1>13. QED
  BY <1>2, <1>9, <1>10, <1>12 DEF d, low

(* ASR of the high word and ROR of the low one halve it.                   *)
LEMMA DoubleHalveIsExact ==
  ASSUME NEW h \in Nat \ {0}, WordSize = 2 * h, NEW cc, NEW hi \in Word, NEW lo \in Word
  PROVE  LET high == Asr(WordSize, hi, cc)
             low == Ror(WordSize, lo, high.f)
         IN  Pair(high.d, low.d) = Pair(hi, lo) \div 2 /\ low.f.c = Odd(hi * WordSize + lo)
<1> DEFINE w == WordSize
           high == Asr(w, hi, cc)
           low == Ror(w, lo, high.f)
           was == hi * w + lo
           p == hi \div 2
           q == lo \div 2
           a == OneIf(Odd(hi))
           b == OneIf(Odd(lo))
           l == low.d
           g == high.d
<1>0. Operand(2 * h) = Word /\ w = 2 * h /\ hi \in Operand(2 * h) /\ lo \in Operand(2 * h)
  BY DEF Operand, Word
<1>1. g = p + h * OneIf(hi >= h) /\ high.f.c = Odd(hi) /\ g \in Word /\ (g >= h <=> hi >= h)
  BY <1>0, AsrIsExact
<1> HIDE DEF high
<1>2. l = q + h * a /\ low.f.c = Odd(lo) /\ l \in Word
  <2>1. /\ Ror(2 * h, lo, high.f).d = (lo \div 2) + h * OneIf(high.f.c)
        /\ Ror(2 * h, lo, high.f).f.c = Odd(lo) /\ Ror(2 * h, lo, high.f).d \in Operand(2 * h)
    <3>1. lo \in Operand(2 * h)
      BY <1>0
    <3>2. ASSUME NEW k PROVE /\ Ror(2 * h, lo, k).d = (lo \div 2) + h * OneIf(k.c)
                            /\ Ror(2 * h, lo, k).f.c = Odd(lo) /\ Ror(2 * h, lo, k).d \in Operand(2 * h)
      BY <3>1, RorIsExact
    <3>3. QED
      BY <3>2
  <2>2. OneIf(high.f.c) = a
    <3>1. high.f.c = Odd(hi)
      BY <1>1
    <3>2. QED
      BY <3>1
  <2>3. QED
    BY <1>0, <2>1, <2>2
<1>3. hi \in Int /\ lo \in Int /\ w \in Int /\ g \in Int /\ l \in Int /\ h \in Int
  BY <1>0, <1>1, <1>2 DEF Word
<1>4. hi = 2 * p + a /\ lo = 2 * q + b /\ p \in Int /\ q \in Int
  BY <1>3, OddParts
<1>5. a \in 0 .. 1 /\ b \in 0 .. 1 /\ OneIf(hi >= h) = IF hi >= h THEN 1 ELSE 0
  BY DEF OneIf
<1> DEFINE d == g * w + l
           e == (p * w + h * a) + q
           k == OneIf(hi >= h)
<1>6. /\ Pair(g, l) = IF g >= h THEN d - DoubleSize ELSE d
      /\ Pair(hi, lo) = IF hi >= h THEN was - DoubleSize ELSE was
  BY <1>1, <1>2, PairBounds
<1>7. DoubleSize \in Nat /\ DoubleSize = 2 * (h * w) /\ h * w \in Nat
  BY PairSizes
<1> HIDE DEF w, high, low, p, q, a, b, l, g
<1>8. was = 2 * e + b /\ e \in Int
  <2>1. hi * w = (2 * p + a) * w /\ lo = 2 * q + b
    BY <1>4
  <2>2. (2 * p + a) * w = 2 * (p * w) + a * w
    BY <1>3, <1>4, <1>5
  <2>3. a * w = 2 * (h * a)
    <3>1. a * (2 * h) = 2 * (h * a)
      BY <1>3, <1>5
    <3>2. QED
      BY <1>0, <3>1
  <2>4. p * w \in Int /\ h * a \in Int
    BY <1>3, <1>4, <1>5
  <2>5. QED
    BY <1>3, <1>4, <1>5, <2>1, <2>2, <2>3, <2>4
<1>9. d = e + (h * w) * k
  <2>1. k \in Int
    BY <1>5
  <2> HIDE DEF k
  <2>2. (p + h * k) * w = p * w + (h * w) * k
    BY <1>3, <1>4, <2>1
  <2>3. g * w = (p + h * k) * w
    BY <1>1 DEF k
  <2>4. p * w \in Int /\ h * a \in Int /\ (h * w) * k \in Int
    BY <1>3, <1>4, <1>5, <2>1
  <2>5. QED
    BY <1>2, <1>4, <2>2, <2>3, <2>4
<1> HIDE DEF d, e
<1>10. Pair(g, l) = IF hi >= h THEN e - h * w ELSE e
  <2> DEFINE H == h * w
  <2>1. H \in Int /\ H * 1 = H /\ H * 0 = 0
    BY <1>7
  <2>2. d = e + H * k /\ DoubleSize = 2 * H
    BY <1>7, <1>9
  <2> HIDE DEF H
  <2>3. Pair(g, l) = IF hi >= h THEN e - H ELSE e
    BY <1>1, <1>5, <1>6, <1>8, <2>1, <2>2
  <2>4. QED
    BY <2>3 DEF H
<1>11. Pair(hi, lo) \div 2 = Pair(g, l)
  <2> DEFINE H == h * w
  <2>1. H \in Int /\ Pair(g, l) = (IF hi >= h THEN e - H ELSE e)
        /\ Pair(hi, lo) = (IF hi >= h THEN was - 2 * H ELSE was)
    BY <1>6, <1>7, <1>10
  <2> HIDE DEF H, was
  <2>2. Pair(g, l) \in Int /\ Pair(hi, lo) = b + 2 * Pair(g, l)
    BY <1>5, <1>8, <2>1
  <2>3. 2 \in Nat \ {0} /\ b \in 0 .. 2 - 1
    BY <1>5
  <2>4. QED
    BY <2>2, <2>3, Residue
<1>12. Odd(was) = Odd(lo)
  <2>1. was = b + 2 * e /\ lo = b + 2 * q /\ 2 \in Nat \ {0} /\ b \in 0 .. 2 - 1
    BY <1>4, <1>5, <1>8
  <2>2. was % 2 = b
    BY <1>8, <2>1, Residue
  <2>3. lo % 2 = b
    BY <1>4, <2>1, Residue
  <2>4. QED
    BY <2>2, <2>3 DEF Odd
<1>13. QED
  BY <1>2, <1>11, <1>12 DEF was, g, l, w, low, high

(* TST and SXT extend the sign of a word into the one above it.            *)
LEMMA DoubleExtendIsExact ==
  ASSUME NEW h \in Nat \ {0}, WordSize = 2 * h, NEW cc, NEW lo \in Word
  PROVE  Pair(Sxt(Tst(WordSize, lo, cc).f).d, lo) = Signed(WordSize, lo)
<1> DEFINE w == WordSize
           hi == Sxt(Tst(WordSize, lo, cc).f).d
<1>1. Half(w) = h
  BY PairSizes
<1>2. hi = IF lo >= h THEN w - 1 ELSE 0
  BY <1>1 DEF Sxt, Tst, Result, Flags, Sign
<1>3. w \in Nat /\ w = 2 * h /\ lo \in Int
  BY DEF Word
<1>4. hi \in Word /\ (hi >= h <=> lo >= h)
  BY <1>2, <1>3 DEF Word
<1> HIDE DEF hi
<1>5. Pair(hi, lo) = IF hi >= h THEN (hi * w + lo) - DoubleSize ELSE hi * w + lo
  BY <1>4, PairBounds
<1>6. (w - 1) * w = w * w - w /\ 0 * w = 0 /\ w * w \in Int
  BY <1>3
<1>7. DoubleSize = w * w
  BY DEF DoubleSize
<1>8. Signed(w, lo) = IF lo >= h THEN lo - w ELSE lo
  BY <1>1 DEF Signed, Sign
<1> HIDE DEF w
<1>9. CASE lo >= h
  BY <1>2, <1>3, <1>4, <1>5, <1>6, <1>7, <1>8, <1>9 DEF hi, w
<1>10. CASE ~(lo >= h)
  BY <1>2, <1>3, <1>4, <1>5, <1>6, <1>7, <1>8, <1>10 DEF hi, w
<1>11. QED
  BY <1>9, <1>10

(* What an instruction leaves in the registers the programs use.           *)
Leaves(s, u, reg, res) ==
  /\ u.r[reg] = res.d /\ u.f = res.f
  /\ \A q \in 0 .. 5 : q # reg => u.r[q] = s.r[q]

LEMMA GivesLeaves ==
  ASSUME NEW s, Sound(s), NEW u, NEW reg \in 0 .. 5, NEW res, Gives(s, u, reg, res)
  PROVE  Leaves(s, u, reg, res)
  BY DEF Gives, Leaves, Sound, NextPC, PC

LEMMA UnaryLeaves ==
  ASSUME NEW s, Sound(s), NEW reg \in 0 .. 5, NEW op \in UnaryOps, NEW i,
         prog.code[i] = One(op, Reg(reg))
  PROVE  Leaves(s, Turn(s, i), reg, Unary(op, WordSize, s.r[reg], s.f))
<1>1. Gives(s, Turn(s, i), reg, Unary(op, WordSize, s.r[reg], s.f))
  BY UnaryTurn
<1>2. QED
  BY <1>1, GivesLeaves

LEMMA DyadicLeaves ==
  ASSUME NEW s, Sound(s), NEW x \in 0 .. 5, NEW y \in 0 .. 5, NEW op \in DyadicOps \ ReadOnly, NEW i,
         prog.code[i] = Op(op, Reg(x), Reg(y))
  PROVE  Leaves(s, Turn(s, i), y, Dyadic(op, WordSize, s.r[x], s.r[y], s.f))
<1>1. Gives(s, Turn(s, i), y, Dyadic(op, WordSize, s.r[x], s.r[y], s.f))
  BY DyadicTurn
<1>2. QED
  BY <1>1, GivesLeaves

LEMMA TestLeaves ==
  ASSUME NEW s, Sound(s), NEW reg \in 0 .. 5, NEW i, prog.code[i] = One("tst", Reg(reg))
  PROVE  LET u == Turn(s, i)
         IN  u.f = Tst(WordSize, s.r[reg], s.f).f /\ \A q \in 0 .. 5 : u.r[q] = s.r[q]
<1> DEFINE ins == prog.code[i]
<1>1. PICK n : After1(s, n) /\ Run(s, NoFault, ins) = Exec(n, ins)
  BY RunIs
<1>2. ins.op = "tst" /\ ins.byte = FALSE /\ ins.dst.mode = 0 /\ ins.dst.reg = reg
  BY DEF One, Op, Reg
<1> HIDE DEF ins
<1>3. Exec(n, ins) = Test(n, ins)
  BY <1>2 DEF Exec, BranchOps, UnaryOps, DyadicOps
<1>4. n.r[reg] = s.r[reg] /\ n.f = s.f /\ n.ok /\ Shape(n) /\ \A q \in 0 .. 5 : n.r[q] = s.r[q]
  BY <1>1 DEF After1, PC, Sound
<1> DEFINE o == ReadOperand(n, ins.dst, ins.byte)
<1>5. o.m = n /\ o.x = s.r[reg]
  BY <1>2, <1>4 DEF ReadOperand, ReadOperandW
<1>6. Test(n, ins) = IF o.m.ok THEN WithCodes(o.m, Tst(WordSize, o.x, n.f).f) ELSE o.m
  BY <1>2 DEF Test, After, Size
<1> HIDE DEF o
<1>7. Test(n, ins) = WithCodes(n, Tst(WordSize, s.r[reg], s.f).f)
  BY <1>4, <1>5, <1>6
<1> DEFINE cc == Tst(WordSize, s.r[reg], s.f).f
           u == Arch(WithCodes(n, cc))
<1>8. u.r = n.r /\ u.f = cc
  BY <1>4, CodesParts DEF Arch
<1>9. Turn(s, i) = u
  BY <1>1, <1>3, <1>7 DEF Turn, ins
<1> HIDE DEF u, cc
<1>10. QED
  BY <1>4, <1>8, <1>9 DEF cc

LEMMA SxtLeaves ==
  ASSUME NEW s, Sound(s), NEW reg \in 0 .. 5, NEW i, prog.code[i] = One("sxt", Reg(reg))
  PROVE  Leaves(s, Turn(s, i), reg, Sxt(s.f))
<1> DEFINE ins == prog.code[i]
<1>1. PICK n : After1(s, n) /\ Run(s, NoFault, ins) = Exec(n, ins)
  BY RunIs
<1>2. ins.op = "sxt" /\ ins.byte = FALSE /\ ins.dst.mode = 0 /\ ins.dst.reg = reg
  BY DEF One, Op, Reg
<1> HIDE DEF ins
<1>3. Exec(n, ins) = SignExtend(n, ins)
  BY <1>2 DEF Exec, BranchOps, UnaryOps, DyadicOps
<1>4. n.f = s.f /\ Shape(n) /\ (\A q \in 0 .. 5 : n.r[q] = s.r[q]) /\ n.r = [s.r EXCEPT ![PC] = Wrap(WordSize, @ + 2)]
  BY <1>1 DEF After1, PC, Sound
<1> DEFINE res == Sxt(s.f)
           t == WithCodes(n, res.f)
           v == [t EXCEPT !.r[reg] = res.d]
<1>5. SignExtend(n, ins) = v
  BY <1>2, <1>4 DEF SignExtend, WriteOperandW
<1> HIDE DEF res
<1>6. t.r = n.r /\ t.f = res.f /\ Shape(t)
  BY <1>4, CodesParts
<1> HIDE DEF t
<1>7. Arch(v).r = [n.r EXCEPT ![reg] = res.d] /\ Arch(v).f = res.f
  BY <1>6 DEF Arch, Shape, Parts
<1> HIDE DEF v
<1>8. Turn(s, i) = Arch(v)
  BY <1>1, <1>3, <1>5 DEF Turn, ins
<1>9. DOMAIN n.r = 0 .. 7
  BY <1>4 DEF Sound
<1> DEFINE g == n.r
<1> HIDE DEF g
<1>10. g = n.r /\ DOMAIN g = 0 .. 7 /\ Turn(s, i).r = [g EXCEPT ![reg] = res.d] /\ Turn(s, i).f = res.f
       /\ \A q \in 0 .. 5 : g[q] = s.r[q]
  BY <1>4, <1>7, <1>8, <1>9 DEF g
<1>11. QED
  BY <1>10 DEF Leaves, res

LEMMA PairLeaves ==
  ASSUME NEW n, Shape(n), DOMAIN n.r = 0 .. 7, NEW p
  PROVE  LET u == Arch(SetPair(n, 0, p))
         IN  u.r[0] = p.hi /\ u.r[1] = p.lo /\ u.f = p.f /\ u.r[2] = n.r[2]
<1> DEFINE t == [n EXCEPT !.r[0] = p.hi]
           u == [t EXCEPT !.r[1] = p.lo]
<1>1. Partner(0) = 1
  BY DEF Partner
<1>2. Shape(t) /\ t.r = [n.r EXCEPT ![0] = p.hi]
  BY DEF Shape, Parts
<1>3. SetPair(n, 0, p) = WithCodes(u, p.f)
  BY <1>1 DEF SetPair, WithCodes, Shape, Parts
<1> HIDE DEF t
<1>4. Shape(u) /\ u.r = [t.r EXCEPT ![1] = p.lo]
  BY <1>2 DEF Shape, Parts
<1> HIDE DEF u
<1>5. WithCodes(u, p.f).r = u.r /\ WithCodes(u, p.f).f = p.f
  BY <1>4, CodesParts
<1>6. u.r[0] = p.hi /\ u.r[1] = p.lo /\ u.r[2] = n.r[2]
  <2>1. DOMAIN t.r = 0 .. 7 /\ t.r[0] = p.hi /\ t.r[2] = n.r[2]
    BY <1>2
  <2>2. QED
    BY <1>4, <2>1
<1>7. QED
  BY <1>3, <1>5, <1>6 DEF Arch

(* The extended instructions, on R0 and R1 by R2.                          *)
LEMMA ExtendedTurn ==
  ASSUME NEW s, Sound(s), NEW op \in {"mul", "div", "ash", "ashc"}, NEW i,
         prog.code[i] = Op(op, Reg(0), Reg(2))
  PROVE  LET u == Turn(s, i)
             pair(p) == u.r[0] = p.hi /\ u.r[1] = p.lo /\ u.f = p.f
             q == Div(s.r[0], s.r[1], s.r[2], s.f)
         IN  /\ u.r[2] = s.r[2]
             /\ op = "mul" => pair(Mul(s.r[0], s.r[2]))
             /\ op = "ash" => u.r[0] = Ash(s.r[0], s.r[2]).d /\ u.f = Ash(s.r[0], s.r[2]).f
             /\ op = "ashc" => pair(Ashc(s.r[0], s.r[1], s.r[2]))
             /\ op = "div" => IF q.f.v THEN u.r[0] = s.r[0] /\ u.r[1] = s.r[1] /\ u.f = q.f
                              ELSE pair(q)
<1> DEFINE ins == prog.code[i]
           q == Div(s.r[0], s.r[1], s.r[2], s.f)
<1>1. PICK n : After1(s, n) /\ Run(s, NoFault, ins) = Exec(n, ins)
  BY RunIs
<1>2. ins.op = op /\ ins.dst.mode = 0 /\ ins.dst.reg = 2 /\ ins.src.reg = 0
  BY DEF Op, Reg
<1> HIDE DEF ins
<1>3. Exec(n, ins) = Extended(n, ins)
  BY <1>2 DEF Exec, BranchOps, UnaryOps, DyadicOps
<1>4. n.f = s.f /\ Shape(n) /\ n.ok /\ (\A k \in 0 .. 5 : n.r[k] = s.r[k])
      /\ DOMAIN n.r = 0 .. 7
  BY <1>1 DEF After1, PC, Sound
<1> DEFINE o == ReadOperandW(n, ins.dst)
<1>5. o.m = n /\ o.x = s.r[2] /\ Partner(0) = 1
  BY <1>2, <1>4 DEF ReadOperandW, Partner
<1>6. Extended(n, ins) =
        LET hi == n.r[0]
            lo == n.r[1]
        IN  CASE op = "mul" -> SetPair(n, 0, Mul(hi, o.x))
              [] op = "div" -> SetQuotient(n, 0, Div(hi, lo, o.x, n.f))
              [] op = "ash" -> SetOne(n, 0, Ash(hi, o.x))
              [] op = "ashc" -> SetPair(n, 0, Ashc(hi, lo, o.x))
              [] op = "xor" -> Update(o, ins, Xor(WordSize, hi, o.x, n.f))
  BY <1>2, <1>4, <1>5 DEF Extended, After
<1>7. n.r[0] = s.r[0] /\ n.r[1] = s.r[1] /\ n.r[2] = s.r[2]
  BY <1>4
<1> HIDE DEF o, q
<1>8. Extended(n, ins) =
        CASE op = "mul" -> SetPair(n, 0, Mul(s.r[0], s.r[2]))
          [] op = "div" -> SetQuotient(n, 0, q)
          [] op = "ash" -> SetOne(n, 0, Ash(s.r[0], s.r[2]))
          [] op = "ashc" -> SetPair(n, 0, Ashc(s.r[0], s.r[1], s.r[2]))
  BY <1>4, <1>5, <1>6, <1>7 DEF q
<1>9. \A p : LET u == Arch(SetPair(n, 0, p))
             IN  u.r[0] = p.hi /\ u.r[1] = p.lo /\ u.f = p.f /\ u.r[2] = n.r[2]
  BY <1>4, PairLeaves
<1>10. \A p : LET u == Arch(SetOne(n, 0, p))
              IN  u.r[0] = p.d /\ u.f = p.f /\ u.r[2] = n.r[2]
  BY <1>4 DEF SetOne, Arch, Shape, Parts
<1>11. \A p : LET u == Arch(WithCodes(n, p)) IN u.r = n.r /\ u.f = p
  BY <1>4, CodesParts DEF Arch
<1>12. Turn(s, i) = Arch(Extended(n, ins))
  BY <1>1, <1>3 DEF Turn, ins
<1>13. CASE op = "div"
  <2>1. Turn(s, i) = Arch(IF q.f.v THEN WithCodes(n, q.f) ELSE SetPair(n, 0, q))
    BY <1>8, <1>12, <1>13 DEF SetQuotient
  <2>2. CASE q.f.v
    BY <1>7, <1>11, <1>13, <2>1, <2>2 DEF q
  <2>3. CASE ~q.f.v
    BY <1>7, <1>9, <1>13, <2>1, <2>3 DEF q
  <2>4. QED
    BY <2>2, <2>3
<1>14. CASE op = "mul"
  BY <1>7, <1>8, <1>9, <1>12, <1>14
<1>15. CASE op = "ashc"
  BY <1>7, <1>8, <1>9, <1>12, <1>15
<1>16. CASE op = "ash"
  BY <1>7, <1>8, <1>10, <1>12, <1>16
<1>17. QED
  BY <1>13, <1>14, <1>15, <1>16

LEMMA SoundTurns ==
  ASSUME GuestInv
  PROVE  /\ Len(prog.code) >= 1 => Sound(Turn(Origin, 1))
         /\ Len(prog.code) >= 2 => Sound(Turn(Turn(Origin, 1), 2))
<1>1. prog.code \in Seq(Decoded) /\ Sound(Origin)
  BY DEF GuestInv, InstrInv, InstrTypes
<1>2. Len(prog.code) >= 1 => prog.code[1] \in Decoded
  BY <1>1
<1>3. Len(prog.code) >= 2 => prog.code[2] \in Decoded
  BY <1>1
<1>4. Len(prog.code) >= 1 => Sound(Turn(Origin, 1))
  BY <1>1, <1>2, TurnSound
<1>5. Len(prog.code) >= 2 => Len(prog.code) >= 1
  BY <1>1
<1>6. Len(prog.code) >= 2 => Sound(Turn(Turn(Origin, 1), 2))
  <2> SUFFICES ASSUME Len(prog.code) >= 2 PROVE Sound(Turn(Turn(Origin, 1), 2))
    OBVIOUS
  <2> DEFINE u == Turn(Origin, 1)
  <2>1. Sound(u)
    BY <1>4, <1>5
  <2> HIDE DEF u
  <2>2. Sound(Turn(u, 2))
    BY <1>3, <2>1, TurnSound
  <2>3. QED
    BY <2>2 DEF u
<1>7. QED
  BY <1>4, <1>6

LEMMA OriginWords ==
  ASSUME Sound(Origin)
  PROVE  /\ Origin.r = prog.r /\ Origin.f = prog.f
         /\ \A q \in 0 .. 5 : prog.r[q] \in Word /\ prog.r[q] \in Operand(WordSize) /\ Was(q) = prog.r[q]
<1>1. Origin.r = prog.r /\ Origin.f = prog.f
  BY DEF Origin
<1>2. prog.r \in [0 .. 7 -> Word]
  BY <1>1 DEF Sound
<1>3. QED
  BY <1>1, <1>2 DEF Word, Operand, Was

LEMMA NoPlainOps ==
  /\ {"add", "sub"} \subseteq DyadicOps \ ReadOnly
  /\ {"adc", "sbc", "neg", "asl", "rol", "asr", "ror"} \subseteq UnaryOps
  BY DEF DyadicOps, ReadOnly, UnaryOps

LEMMA WordHalf == \E h \in Nat \ {0} : WordSize = 2 * h
  BY SizeHalves DEF Sized

(* Three instructions on the registers a pair and another.                 *)
LEMMA AddRuns ==
  ASSUME GuestInv, prog.code = DoubleAdd
  PROVE  LET low == Add(WordSize, Was(1), Was(3), prog.f)
             mid == Adc(WordSize, Was(2), low.f)
             high == Add(WordSize, Was(0), mid.d, mid.f)
         IN  Ran(3).r[2] = high.d /\ Ran(3).r[3] = low.d
<1> DEFINE low == Add(WordSize, Was(1), Was(3), prog.f)
           mid == Adc(WordSize, Was(2), low.f)
           high == Add(WordSize, Was(0), mid.d, mid.f)
           s1 == Turn(Origin, 1)
           s2 == Turn(s1, 2)
           s3 == Turn(s2, 3)
<1>1. prog.code[1] = Op("add", Reg(1), Reg(3)) /\ prog.code[2] = One("adc", Reg(2))
      /\ prog.code[3] = Op("add", Reg(0), Reg(2)) /\ Len(prog.code) = 3
  BY DEF DoubleAdd
<1>2. Sound(Origin) /\ Sound(s1) /\ Sound(s2)
  BY <1>1, SoundTurns DEF GuestInv
<1>3. Ran(3) = s3
  BY DEF Ran
<1>4. Leaves(Origin, s1, 3, low)
  <2>1. Leaves(Origin, s1, 3, Dyadic("add", WordSize, Origin.r[1], Origin.r[3], Origin.f))
    BY <1>1, <1>2, NoPlainOps, DyadicLeaves
  <2>2. QED
    BY <1>2, <2>1, OriginWords DEF Dyadic
<1>5. s1.r[3] = low.d /\ s1.f = low.f /\ s1.r[2] = Was(2) /\ s1.r[0] = Was(0)
  BY <1>2, <1>4, OriginWords DEF Leaves
<1> HIDE DEF s1, low
<1>6. Leaves(s1, s2, 2, mid)
  <2>1. Leaves(s1, s2, 2, Unary("adc", WordSize, s1.r[2], s1.f))
    BY <1>1, <1>2, NoPlainOps, UnaryLeaves
  <2>2. QED
    BY <1>5, <2>1 DEF Unary
<1>7. s2.r[2] = mid.d /\ s2.f = mid.f /\ s2.r[3] = low.d /\ s2.r[0] = Was(0)
  BY <1>5, <1>6 DEF Leaves
<1> HIDE DEF s2, mid
<1>8. Leaves(s2, s3, 2, high)
  <2>1. Leaves(s2, s3, 2, Dyadic("add", WordSize, s2.r[0], s2.r[2], s2.f))
    BY <1>1, <1>2, NoPlainOps, DyadicLeaves
  <2>2. QED
    BY <1>7, <2>1 DEF Dyadic
<1>9. s3.r[2] = high.d /\ s3.r[3] = low.d
  BY <1>7, <1>8 DEF Leaves
<1>10. QED
  BY <1>3, <1>9 DEF high, mid, low

LEMMA SubtractRuns ==
  ASSUME GuestInv, prog.code = DoubleSubtract
  PROVE  LET low == Sub(WordSize, Was(1), Was(3), prog.f)
             mid == Sbc(WordSize, Was(2), low.f)
             high == Sub(WordSize, Was(0), mid.d, mid.f)
         IN  Ran(3).r[2] = high.d /\ Ran(3).r[3] = low.d
<1> DEFINE low == Sub(WordSize, Was(1), Was(3), prog.f)
           mid == Sbc(WordSize, Was(2), low.f)
           high == Sub(WordSize, Was(0), mid.d, mid.f)
           s1 == Turn(Origin, 1)
           s2 == Turn(s1, 2)
           s3 == Turn(s2, 3)
<1>1. prog.code[1] = Op("sub", Reg(1), Reg(3)) /\ prog.code[2] = One("sbc", Reg(2))
      /\ prog.code[3] = Op("sub", Reg(0), Reg(2)) /\ Len(prog.code) = 3
  BY DEF DoubleSubtract
<1>2. Sound(Origin) /\ Sound(s1) /\ Sound(s2)
  BY <1>1, SoundTurns DEF GuestInv
<1>3. Ran(3) = s3
  BY DEF Ran
<1>4. Leaves(Origin, s1, 3, low)
  <2>1. Leaves(Origin, s1, 3, Dyadic("sub", WordSize, Origin.r[1], Origin.r[3], Origin.f))
    BY <1>1, <1>2, NoPlainOps, DyadicLeaves
  <2>2. QED
    BY <1>2, <2>1, OriginWords DEF Dyadic
<1>5. s1.r[3] = low.d /\ s1.f = low.f /\ s1.r[2] = Was(2) /\ s1.r[0] = Was(0)
  BY <1>2, <1>4, OriginWords DEF Leaves
<1> HIDE DEF s1, low
<1>6. Leaves(s1, s2, 2, mid)
  <2>1. Leaves(s1, s2, 2, Unary("sbc", WordSize, s1.r[2], s1.f))
    BY <1>1, <1>2, NoPlainOps, UnaryLeaves
  <2>2. QED
    BY <1>5, <2>1 DEF Unary
<1>7. s2.r[2] = mid.d /\ s2.f = mid.f /\ s2.r[3] = low.d /\ s2.r[0] = Was(0)
  BY <1>5, <1>6 DEF Leaves
<1> HIDE DEF s2, mid
<1>8. Leaves(s2, s3, 2, high)
  <2>1. Leaves(s2, s3, 2, Dyadic("sub", WordSize, s2.r[0], s2.r[2], s2.f))
    BY <1>1, <1>2, NoPlainOps, DyadicLeaves
  <2>2. QED
    BY <1>7, <2>1 DEF Dyadic
<1>9. s3.r[2] = high.d /\ s3.r[3] = low.d
  BY <1>7, <1>8 DEF Leaves
<1>10. QED
  BY <1>3, <1>9 DEF high, mid, low

LEMMA NegateRuns ==
  ASSUME GuestInv, prog.code = DoubleNegate
  PROVE  LET first == Neg(WordSize, Was(2), prog.f)
             low == Neg(WordSize, Was(3), first.f)
             high == Sbc(WordSize, first.d, low.f)
         IN  Ran(3).r[2] = high.d /\ Ran(3).r[3] = low.d
<1> DEFINE first == Neg(WordSize, Was(2), prog.f)
           low == Neg(WordSize, Was(3), first.f)
           high == Sbc(WordSize, first.d, low.f)
           s1 == Turn(Origin, 1)
           s2 == Turn(s1, 2)
           s3 == Turn(s2, 3)
<1>1. prog.code[1] = One("neg", Reg(2)) /\ prog.code[2] = One("neg", Reg(3))
      /\ prog.code[3] = One("sbc", Reg(2)) /\ Len(prog.code) = 3
  BY DEF DoubleNegate
<1>2. Sound(Origin) /\ Sound(s1) /\ Sound(s2)
  BY <1>1, SoundTurns DEF GuestInv
<1>3. Ran(3) = s3
  BY DEF Ran
<1>4. Leaves(Origin, s1, 2, first)
  <2>1. Leaves(Origin, s1, 2, Unary("neg", WordSize, Origin.r[2], Origin.f))
    BY <1>1, <1>2, NoPlainOps, UnaryLeaves
  <2>2. QED
    BY <1>2, <2>1, OriginWords DEF Unary
<1>5. s1.r[2] = first.d /\ s1.f = first.f /\ s1.r[3] = Was(3)
  BY <1>2, <1>4, OriginWords DEF Leaves
<1> HIDE DEF s1, first
<1>6. Leaves(s1, s2, 3, low)
  <2>1. Leaves(s1, s2, 3, Unary("neg", WordSize, s1.r[3], s1.f))
    BY <1>1, <1>2, NoPlainOps, UnaryLeaves
  <2>2. QED
    BY <1>5, <2>1 DEF Unary
<1>7. s2.r[3] = low.d /\ s2.f = low.f /\ s2.r[2] = first.d
  BY <1>5, <1>6 DEF Leaves
<1> HIDE DEF s2, low
<1>8. Leaves(s2, s3, 2, high)
  <2>1. Leaves(s2, s3, 2, Unary("sbc", WordSize, s2.r[2], s2.f))
    BY <1>1, <1>2, NoPlainOps, UnaryLeaves
  <2>2. QED
    BY <1>7, <2>1 DEF Unary
<1>9. s3.r[2] = high.d /\ s3.r[3] = low.d
  BY <1>7, <1>8 DEF Leaves
<1>10. QED
  BY <1>3, <1>9 DEF high, low, first

LEMMA TwiceRuns ==
  ASSUME GuestInv, prog.code = DoubleTwice
  PROVE  LET low == Asl(WordSize, Was(3), prog.f)
             high == Rol(WordSize, Was(2), low.f)
         IN  Ran(2).r[2] = high.d /\ Ran(2).r[3] = low.d /\ Ran(2).f = high.f
<1> DEFINE low == Asl(WordSize, Was(3), prog.f)
           high == Rol(WordSize, Was(2), low.f)
           s1 == Turn(Origin, 1)
           s2 == Turn(s1, 2)
<1>1. prog.code[1] = One("asl", Reg(3)) /\ prog.code[2] = One("rol", Reg(2)) /\ Len(prog.code) = 2
  BY DEF DoubleTwice
<1>2. Sound(Origin) /\ Sound(s1)
  BY <1>1, SoundTurns DEF GuestInv
<1>3. Ran(2) = s2
  BY DEF Ran
<1>4. Leaves(Origin, s1, 3, low)
  <2>1. Leaves(Origin, s1, 3, Unary("asl", WordSize, Origin.r[3], Origin.f))
    BY <1>1, <1>2, NoPlainOps, UnaryLeaves
  <2>2. QED
    BY <1>2, <2>1, OriginWords DEF Unary
<1>5. s1.r[3] = low.d /\ s1.f = low.f /\ s1.r[2] = Was(2)
  BY <1>2, <1>4, OriginWords DEF Leaves
<1> HIDE DEF s1, low
<1>6. Leaves(s1, s2, 2, high)
  <2>1. Leaves(s1, s2, 2, Unary("rol", WordSize, s1.r[2], s1.f))
    BY <1>1, <1>2, NoPlainOps, UnaryLeaves
  <2>2. QED
    BY <1>5, <2>1 DEF Unary
<1>7. s2.r[2] = high.d /\ s2.f = high.f /\ s2.r[3] = low.d
  BY <1>5, <1>6 DEF Leaves
<1>8. QED
  BY <1>3, <1>7 DEF high, low

LEMMA HalveRuns ==
  ASSUME GuestInv, prog.code = DoubleHalve
  PROVE  LET high == Asr(WordSize, Was(2), prog.f)
             low == Ror(WordSize, Was(3), high.f)
         IN  Ran(2).r[2] = high.d /\ Ran(2).r[3] = low.d /\ Ran(2).f = low.f
<1> DEFINE high == Asr(WordSize, Was(2), prog.f)
           low == Ror(WordSize, Was(3), high.f)
           s1 == Turn(Origin, 1)
           s2 == Turn(s1, 2)
<1>1. prog.code[1] = One("asr", Reg(2)) /\ prog.code[2] = One("ror", Reg(3)) /\ Len(prog.code) = 2
  BY DEF DoubleHalve
<1>2. Sound(Origin) /\ Sound(s1)
  BY <1>1, SoundTurns DEF GuestInv
<1>3. Ran(2) = s2
  BY DEF Ran
<1>4. Leaves(Origin, s1, 2, high)
  <2>1. Leaves(Origin, s1, 2, Unary("asr", WordSize, Origin.r[2], Origin.f))
    BY <1>1, <1>2, NoPlainOps, UnaryLeaves
  <2>2. QED
    BY <1>2, <2>1, OriginWords DEF Unary
<1>5. s1.r[2] = high.d /\ s1.f = high.f /\ s1.r[3] = Was(3)
  BY <1>2, <1>4, OriginWords DEF Leaves
<1> HIDE DEF s1, high
<1>6. Leaves(s1, s2, 3, low)
  <2>1. Leaves(s1, s2, 3, Unary("ror", WordSize, s1.r[3], s1.f))
    BY <1>1, <1>2, NoPlainOps, UnaryLeaves
  <2>2. QED
    BY <1>5, <2>1 DEF Unary
<1>7. s2.r[3] = low.d /\ s2.f = low.f /\ s2.r[2] = high.d
  BY <1>5, <1>6 DEF Leaves
<1>8. QED
  BY <1>3, <1>7 DEF high, low

LEMMA ExtendRuns ==
  ASSUME GuestInv, prog.code = DoubleExtend
  PROVE  Ran(2).r[2] = Sxt(Tst(WordSize, Was(3), prog.f).f).d /\ Ran(2).r[3] = Was(3)
<1> DEFINE s1 == Turn(Origin, 1)
           s2 == Turn(s1, 2)
<1>1. prog.code[1] = One("tst", Reg(3)) /\ prog.code[2] = One("sxt", Reg(2)) /\ Len(prog.code) = 2
  BY DEF DoubleExtend
<1>2. Sound(Origin) /\ Sound(s1)
  BY <1>1, SoundTurns DEF GuestInv
<1>3. Ran(2) = s2
  BY DEF Ran
<1>4. s1.f = Tst(WordSize, Was(3), prog.f).f /\ s1.r[3] = Was(3)
  <2>1. s1.f = Tst(WordSize, Origin.r[3], Origin.f).f /\ s1.r[3] = Origin.r[3]
    BY <1>1, <1>2, TestLeaves
  <2>2. QED
    BY <1>2, <2>1, OriginWords
<1> HIDE DEF s1
<1>5. Leaves(s1, s2, 2, Sxt(s1.f))
  BY <1>1, <1>2, SxtLeaves
<1>6. QED
  BY <1>3, <1>4, <1>5 DEF Leaves

(* A number of two words is what is left of any that differs from it by    *)
(* multiples of their size.                                                *)
LEMMA DoubleRemainder ==
  ASSUME NEW hi \in Word, NEW lo \in Word, NEW k \in Int, NEW x,
         x = (hi * WordSize + lo) + DoubleSize * k
  PROVE  hi * WordSize + lo = x % DoubleSize
<1> DEFINE d == hi * WordSize + lo
<1>1. PICK h \in Nat \ {0} : WordSize = 2 * h
  BY WordHalf
<1>2. d \in Operand(DoubleSize)
  BY <1>1, PairBounds
<1>3. DoubleSize \in Nat \ {0}
  BY DoubleType
<1>4. d \in 0 .. DoubleSize - 1
  BY <1>2 DEF Operand
<1> HIDE DEF d
<1>5. x = d + DoubleSize * k
  BY DEF d
<1>6. x % DoubleSize = d
  BY <1>3, <1>4, <1>5, Residue
<1>7. QED
  BY <1>6 DEF d

LEMMA AddFinished ==
  ASSUME GuestInv, Finished("add") PROVE DoubleIs(2, 3) = (DoubleWas(2, 3) + DoubleWas(0, 1)) % DoubleSize
<1> DEFINE low == Add(WordSize, Was(1), Was(3), prog.f)
           mid == Adc(WordSize, Was(2), low.f)
           high == Add(WordSize, Was(0), mid.d, mid.f)
<1>1. prog.code = DoubleAdd /\ Sound(Origin) /\ r = Ran(Len(prog.code)).r
  <2>1. "add" \in DOMAIN CodeOf /\ CodeOf["add"] = {DoubleAdd}
    BY DEF CodeOf
  <2>2. QED
    BY <2>1, FinishedAs
<1>2. Len(prog.code) = 3
  BY <1>1 DEF DoubleAdd
<1>3. r[2] = high.d /\ r[3] = low.d
  BY <1>1, <1>2, AddRuns
<1>4. PICK h \in Nat \ {0} : WordSize = 2 * h
  BY WordHalf
<1>5. \A q \in 0 .. 5 : Was(q) \in Operand(2 * h)
  BY <1>1, <1>4, OriginWords
<1>6. low.d \in Word /\ high.d \in Word
  <2>1. Word = Operand(2 * h)
    BY <1>4 DEF Word, Operand
  <2>2. low.d \in Operand(2 * h) /\ mid.d \in Operand(2 * h)
    BY <1>4, <1>5, AddIsExact, AdcIsExact
  <2> HIDE DEF mid
  <2>3. high.d \in Operand(2 * h)
    BY <1>4, <1>5, <2>2, AddIsExact
  <2>4. QED
    BY <2>1, <2>2, <2>3
<1>7. \E carry \in 0 .. 2 :
        (Was(0) * WordSize + Was(1)) + (Was(2) * WordSize + Was(3))
          = (high.d * WordSize + low.d) + carry * (WordSize * WordSize)
  BY <1>4, <1>5, DoubleAddIsExact
<1> HIDE DEF low, mid, high
<1>8. PICK carry \in 0 .. 2 : DoubleWas(0, 1) + DoubleWas(2, 3) = (high.d * WordSize + low.d) + carry * DoubleSize
  BY <1>7 DEF DoubleWas, DoubleSize
<1>9. DoubleWas(2, 3) + DoubleWas(0, 1) = (high.d * WordSize + low.d) + DoubleSize * carry
  <2>1. Was(0) \in Int /\ Was(1) \in Int /\ Was(2) \in Int /\ Was(3) \in Int /\ WordSize \in Int
    BY <1>4, <1>5 DEF Operand
  <2>2. DoubleWas(2, 3) \in Int /\ DoubleWas(0, 1) \in Int
    BY <2>1 DEF DoubleWas
  <2>3. carry * DoubleSize = DoubleSize * carry
    BY DoubleType
  <2>4. QED
    BY <1>8, <2>2, <2>3
<1>10. high.d * WordSize + low.d = (DoubleWas(2, 3) + DoubleWas(0, 1)) % DoubleSize
  BY <1>6, <1>9, DoubleRemainder
<1>11. QED
  BY <1>3, <1>10 DEF DoubleIs

LEMMA SubtractFinished ==
  ASSUME GuestInv, Finished("subtract")
  PROVE  DoubleIs(2, 3) = (DoubleWas(2, 3) - DoubleWas(0, 1)) % DoubleSize
<1> DEFINE low == Sub(WordSize, Was(1), Was(3), prog.f)
           mid == Sbc(WordSize, Was(2), low.f)
           high == Sub(WordSize, Was(0), mid.d, mid.f)
           k == -(OneIf(mid.f.c) + OneIf(high.f.c))
<1>1. prog.code = DoubleSubtract /\ Sound(Origin) /\ r = Ran(Len(prog.code)).r
  <2>1. "subtract" \in DOMAIN CodeOf /\ CodeOf["subtract"] = {DoubleSubtract}
    BY DEF CodeOf
  <2>2. QED
    BY <2>1, FinishedAs
<1>2. Len(prog.code) = 3
  BY <1>1 DEF DoubleSubtract
<1>3. r[2] = high.d /\ r[3] = low.d
  BY <1>1, <1>2, SubtractRuns
<1>4. PICK h \in Nat \ {0} : WordSize = 2 * h
  BY WordHalf
<1>5. WordSize \in Nat \ {0} /\ \A q \in 0 .. 5 : Was(q) \in Operand(WordSize)
  BY <1>1, <1>4, OriginWords
<1>6. /\ (Was(2) * WordSize + Was(3)) - (Was(0) * WordSize + Was(1))
                          = (high.d * WordSize + low.d) + (WordSize * WordSize) * k
      /\ high.d \in Operand(WordSize) /\ low.d \in Operand(WordSize)
  <2>1. Was(0) \in Operand(WordSize) /\ Was(1) \in Operand(WordSize)
        /\ Was(2) \in Operand(WordSize) /\ Was(3) \in Operand(WordSize) /\ WordSize \in Nat \ {0}
    BY <1>5
  <2>2. QED
    BY <1>4, <2>1, DoubleSubtractIsExact
<1>7. high.d \in Word /\ low.d \in Word
  BY <1>6 DEF Word, Operand
<1>8. k \in Int
  BY DEF OneIf
<1> HIDE DEF low, mid, high, k
<1>9. DoubleWas(2, 3) - DoubleWas(0, 1) = (high.d * WordSize + low.d) + DoubleSize * k
  BY <1>6 DEF DoubleWas, DoubleSize
<1>10. high.d * WordSize + low.d = (DoubleWas(2, 3) - DoubleWas(0, 1)) % DoubleSize
  BY <1>7, <1>8, <1>9, DoubleRemainder
<1>11. QED
  BY <1>3, <1>10 DEF DoubleIs

LEMMA NegateFinished ==
  ASSUME GuestInv, Finished("negate") PROVE DoubleIs(2, 3) = (-DoubleWas(2, 3)) % DoubleSize
<1> DEFINE first == Neg(WordSize, Was(2), prog.f)
           low == Neg(WordSize, Was(3), first.f)
           high == Sbc(WordSize, first.d, low.f)
           k == OneIf(first.f.c) + OneIf(high.f.c)
<1>1. prog.code = DoubleNegate /\ Sound(Origin) /\ r = Ran(Len(prog.code)).r
  <2>1. "negate" \in DOMAIN CodeOf /\ CodeOf["negate"] = {DoubleNegate}
    BY DEF CodeOf
  <2>2. QED
    BY <2>1, FinishedAs
<1>2. Len(prog.code) = 3
  BY <1>1 DEF DoubleNegate
<1>3. r[2] = high.d /\ r[3] = low.d
  BY <1>1, <1>2, NegateRuns
<1>4. PICK h \in Nat \ {0} : WordSize = 2 * h
  BY WordHalf
<1>5. WordSize \in Nat \ {0} /\ \A q \in 0 .. 5 : Was(q) \in Operand(WordSize)
  BY <1>1, <1>4, OriginWords
<1>6. /\ (Was(2) * WordSize + Was(3)) + (high.d * WordSize + low.d) = (WordSize * WordSize) * k
      /\ high.d \in Operand(WordSize) /\ low.d \in Operand(WordSize)
  <2>1. Was(2) \in Operand(WordSize) /\ Was(3) \in Operand(WordSize) /\ WordSize \in Nat \ {0}
    BY <1>5
  <2> DEFINE c == Was(2)
             e == Was(3)
             s == WordSize
  <2>2. s \in Nat \ {0} /\ c \in Operand(s) /\ e \in Operand(s) /\ \E n \in Nat \ {0} : s = 2 * n
    BY <1>4, <2>1
  <2> HIDE DEF c, e, s
  <2>3. LET ne == Neg(s, c, prog.f)
            lo == Neg(s, e, ne.f)
            hi == Sbc(s, ne.d, lo.f)
        IN  /\ (c * s + e) + (hi.d * s + lo.d) = (s * s) * (OneIf(ne.f.c) + OneIf(hi.f.c))
            /\ hi.d \in Operand(s) /\ lo.d \in Operand(s)
    BY <2>2, DoubleNegateIsExact
  <2>4. QED
    BY <2>3 DEF c, e, s
<1>7. high.d \in Word /\ low.d \in Word
  BY <1>6 DEF Word, Operand
<1>8. k \in Int /\ Was(2) \in Int /\ Was(3) \in Int
  BY <1>5 DEF OneIf, Operand
<1> HIDE DEF low, first, high, k
<1>9. -DoubleWas(2, 3) = (high.d * WordSize + low.d) + DoubleSize * (-k)
  <2>1. DoubleWas(2, 3) + (high.d * WordSize + low.d) = DoubleSize * k
    BY <1>6 DEF DoubleWas, DoubleSize
  <2>2. DoubleWas(2, 3) \in Int /\ high.d * WordSize + low.d \in Int
    BY <1>5, <1>7, <1>8 DEF DoubleWas, Word
  <2>3. DoubleSize * (-k) = -(DoubleSize * k) /\ DoubleSize * k \in Int
    BY <1>8, DoubleType
  <2>4. QED
    BY <2>1, <2>2, <2>3
<1>10. -k \in Int
  BY <1>8
<1>11. high.d * WordSize + low.d = (-DoubleWas(2, 3)) % DoubleSize
  BY <1>7, <1>10, <1>9, DoubleRemainder
<1>12. QED
  BY <1>3, <1>11 DEF DoubleIs

LEMMA TwiceFinished ==
  ASSUME GuestInv, Finished("twice")
  PROVE  /\ DoubleIs(2, 3) = (2 * DoubleWas(2, 3)) % DoubleSize
         /\ f.c = (Pair(Was(2), Was(3)) < 0)
         /\ f.v = ~FitsDouble(2 * Pair(Was(2), Was(3)))
<1>1. prog.code = DoubleTwice /\ Sound(Origin) /\ r = Ran(Len(prog.code)).r /\ f = Ran(Len(prog.code)).f
  <2>1. "twice" \in DOMAIN CodeOf /\ CodeOf["twice"] = {DoubleTwice}
    BY DEF CodeOf
  <2>2. QED
    BY <2>1, FinishedAs
<1>2. Len(prog.code) = 2
  BY <1>1 DEF DoubleTwice
<1>3. PICK h \in Nat \ {0} : WordSize = 2 * h
  BY WordHalf
<1>4. Was(2) \in Word /\ Was(3) \in Word
  BY <1>1, OriginWords
<1>5. QED
  BY <1>1, <1>2, <1>3, <1>4, TwiceRuns, DoubleTwiceIsExact DEF DoubleIs, DoubleWas

LEMMA HalveFinished ==
  ASSUME GuestInv, Finished("halve")
  PROVE  Pair(r[2], r[3]) = Pair(Was(2), Was(3)) \div 2 /\ f.c = Odd(DoubleWas(2, 3))
<1>1. prog.code = DoubleHalve /\ Sound(Origin) /\ r = Ran(Len(prog.code)).r /\ f = Ran(Len(prog.code)).f
  <2>1. "halve" \in DOMAIN CodeOf /\ CodeOf["halve"] = {DoubleHalve}
    BY DEF CodeOf
  <2>2. QED
    BY <2>1, FinishedAs
<1>2. Len(prog.code) = 2
  BY <1>1 DEF DoubleHalve
<1>3. PICK h \in Nat \ {0} : WordSize = 2 * h
  BY WordHalf
<1>4. Was(2) \in Word /\ Was(3) \in Word
  BY <1>1, OriginWords
<1>5. QED
  BY <1>1, <1>2, <1>3, <1>4, HalveRuns, DoubleHalveIsExact DEF DoubleWas

LEMMA ExtendFinished ==
  ASSUME GuestInv, Finished("extend") PROVE Pair(r[2], r[3]) = Value(3)
<1>1. prog.code = DoubleExtend /\ Sound(Origin) /\ r = Ran(Len(prog.code)).r
  <2>1. "extend" \in DOMAIN CodeOf /\ CodeOf["extend"] = {DoubleExtend}
    BY DEF CodeOf
  <2>2. QED
    BY <2>1, FinishedAs
<1>2. Len(prog.code) = 2
  BY <1>1 DEF DoubleExtend
<1>3. PICK h \in Nat \ {0} : WordSize = 2 * h
  BY WordHalf
<1>4. Was(3) \in Word
  BY <1>1, OriginWords
<1>5. QED
  BY <1>1, <1>2, <1>3, <1>4, ExtendRuns, DoubleExtendIsExact DEF Value

LEMMA DoubleWordHolds == ASSUME GuestInv PROVE DoubleWordExact
  BY AddFinished, SubtractFinished, NegateFinished, TwiceFinished, HalveFinished, ExtendFinished
     DEF DoubleWordExact

-----------------------------------------------------------------------------
(* Shifts: quotients of products and of quotients.                         *)
LEMMA QuotientOfProduct ==
  ASSUME NEW x \in Int, NEW a \in Nat \ {0}, NEW b \in Nat \ {0}
  PROVE  (x * a) \div (a * b) = x \div b
<1> DEFINE q == x \div b
           m == x % b
<1>1. q \in Int /\ m \in 0 .. b - 1 /\ x = b * q + m
  BY Division
<1> HIDE DEF q, m
<1>2. a * b \in Nat \ {0} /\ a * m \in Nat /\ a * m < a * b
  <2>1. \A p \in Nat, n \in Nat : p < n => a * p < a * n
    <3> SUFFICES ASSUME NEW p \in Nat, NEW n \in Nat, p < n PROVE a * p < a * n
      OBVIOUS
    <3>1. a * (n - p) > 0
      <4>1. \A u \in Nat \ {0}, v \in Nat \ {0} : u * v > 0
        OBVIOUS
      <4>2. QED
        BY <4>1
    <3>2. a * (n - p) = a * n - a * p
      OBVIOUS
    <3>3. a * n \in Int /\ a * p \in Int
      OBVIOUS
    <3>4. QED
      BY <3>1, <3>2, <3>3
  <2>2. \A u \in Nat \ {0}, v \in Nat \ {0} : u * v \in Nat \ {0}
    OBVIOUS
  <2>3. m \in Nat /\ b \in Nat /\ m < b
    BY <1>1
  <2>4. a * m < a * b
    BY <2>1, <2>3
  <2>5. a * m \in Nat
    BY <2>3
  <2>6. QED
    BY <2>2, <2>4, <2>5
<1>3. x * a = a * m + (a * b) * q
  <2>1. (b * q + m) * a = a * m + (a * b) * q
    BY <1>1
  <2>2. QED
    BY <1>1, <2>1
<1>4. a * m \in 0 .. (a * b) - 1
  BY <1>2
<1>5. (x * a) \div (a * b) = q
  BY <1>1, <1>2, <1>3, <1>4, Residue
<1>6. QED
  BY <1>5 DEF q

LEMMA QuotientOfQuotient ==
  ASSUME NEW x \in Int, NEW a \in Nat \ {0} PROVE (x \div a) \div 2 = x \div (2 * a)
<1> DEFINE q == x \div a
           m == x % a
           p == q \div 2
           e == q % 2
<1>1. q \in Int /\ m \in 0 .. a - 1 /\ x = a * q + m
  BY Division
<1> HIDE DEF q, m
<1>2. p \in Int /\ e \in 0 .. 1 /\ q = 2 * p + e
  <2>1. 2 \in Nat \ {0}
    OBVIOUS
  <2>2. p \in Int /\ e \in 0 .. 2 - 1 /\ q = 2 * p + e
    BY <1>1, <2>1, Division
  <2>3. QED
    BY <2>2
<1> HIDE DEF p, e
<1>3. x = (a * e + m) + (2 * a) * p
  <2>1. a * (2 * p + e) = a * e + (2 * a) * p
    BY <1>2
  <2>2. a * e \in Int /\ (2 * a) * p \in Int /\ a * q \in Int
    BY <1>1, <1>2
  <2>3. a * q = a * e + (2 * a) * p
    BY <1>2, <2>1
  <2>4. QED
    BY <1>1, <2>2, <2>3
<1>4. a * e + m \in 0 .. 2 * a - 1 /\ 2 * a \in Nat \ {0}
  <2>1. CASE e = 0
    BY <1>1, <2>1
  <2>2. CASE e = 1
    BY <1>1, <2>2
  <2>3. QED
    BY <1>2, <2>1, <2>2
<1>5. x \div (2 * a) = p
  BY <1>2, <1>3, <1>4, Residue
<1>6. QED
  BY <1>5 DEF p, q

(* A number and its residue.                                               *)
LEMMA SignedBack ==
  ASSUME NEW h \in Nat \ {0}, NEW y \in -h .. h - 1
  PROVE  Signed(2 * h, y % (2 * h)) = y /\ (Odd(y % (2 * h)) <=> Odd(y))
<1> DEFINE s == 2 * h
           d == IF y < 0 THEN y + s ELSE y
           k == IF y < 0 THEN -1 ELSE 0
<1>1. s \in Nat \ {0} /\ d \in 0 .. s - 1 /\ k \in Int /\ y = d + s * k
  OBVIOUS
<1> HIDE DEF d, k, s
<1>2. y % s = d
  BY <1>1, Residue
<1>3. Half(s) = h
  BY DEF Half, s
<1>4. Signed(s, d) = y
  BY <1>3 DEF Signed, Sign, d, s
<1>5. Odd(d) <=> Odd(y)
  BY DEF Odd, d, s
<1>6. QED
  BY <1>2, <1>4, <1>5 DEF s

LEMMA SignedResidue ==
  ASSUME NEW h \in Nat \ {0}, NEW d \in Operand(2 * h)
  PROVE  LET x == Signed(2 * h, d)
         IN  /\ x \in -h .. h - 1 /\ x % (2 * h) = d /\ (x < 0 <=> Sign(2 * h, d))
             /\ x \div (2 * h) = IF Sign(2 * h, d) THEN -1 ELSE 0
<1> DEFINE s == 2 * h
           x == Signed(s, d)
           k == IF d >= h THEN -1 ELSE 0
<1>1. Half(s) = h
  BY DEF Half
<1>2. x = (IF d >= h THEN d - s ELSE d) /\ (Sign(s, d) <=> d >= h) /\ d \in 0 .. s - 1 /\ s \in Nat \ {0}
  BY <1>1 DEF Signed, Sign, Operand
<1>3. x \in -h .. h - 1 /\ x = d + s * k /\ (x < 0 <=> d >= h) /\ k \in Int
  BY <1>2
<1> HIDE DEF x, k, s
<1>4. x % s = d /\ x \div s = k
  BY <1>2, <1>3, Residue
<1>5. QED
  BY <1>2, <1>3, <1>4 DEF x, k, s

Shifting(s) == [d : Operand(s), c : BOOLEAN, v : BOOLEAN]
Unshifted(d) == [d |-> d, c |-> FALSE, v |-> FALSE]

LEMMA OnceType ==
  ASSUME NEW s \in Nat \ {0}, NEW left \in BOOLEAN, NEW t \in Shifting(s)
  PROVE  ShiftOnce(s, left, t) \in Shifting(s)
<1>1. t.d \in Operand(s) /\ t.v \in BOOLEAN /\ t.d \in Int
  BY DEF Shifting, Operand
<1>2. (2 * t.d) % s \in Operand(s)
  <2>1. \A x \in Int : x % s \in Operand(s)
    BY Divides DEF Operand
  <2>2. 2 * t.d \in Int
    BY <1>1
  <2>3. QED
    BY <2>1, <2>2
<1>3. (Signed(s, t.d) \div 2) % s \in Operand(s)
  <2>1. Signed(s, t.d) \in Int
    BY <1>1, SignedType
  <2>2. Signed(s, t.d) \div 2 \in Int
    BY <2>1, Divides
  <2>3. QED
    BY <2>2, Divides DEF Operand
<1>4. \A d : Sign(s, d) \in BOOLEAN /\ Odd(d) \in BOOLEAN
  BY DEF Sign, Odd
<1>5. CASE left
  <2> DEFINE d == (2 * t.d) % s
             over == t.v \/ Sign(s, d) # Sign(s, t.d)
  <2>1. over \in BOOLEAN
    BY Zenon
  <2>2. ShiftOnce(s, left, t) = [d |-> d, c |-> Sign(s, t.d), v |-> over]
    BY <1>5 DEF ShiftOnce
  <2> HIDE DEF d, over
  <2>3. d \in Operand(s)
    BY <1>2 DEF d
  <2>4. QED
    BY <1>4, <2>1, <2>2, <2>3 DEF Shifting
<1>6. CASE ~left
  <2>1. ShiftOnce(s, left, t) = [d |-> (Signed(s, t.d) \div 2) % s, c |-> Odd(t.d), v |-> FALSE]
    BY <1>6 DEF ShiftOnce
  <2>2. QED
    BY <1>3, <1>4, <2>1 DEF Shifting
<1>7. QED
  BY <1>5, <1>6

(* A shift is as many single ones as it counts.                            *)
LEMMA ShiftUnfolds ==
  ASSUME NEW s \in Nat \ {0}, NEW d \in Operand(s), NEW n \in 0 .. 2 * IntBits
  PROVE  LET left == n < IntBits
             k == IF left THEN n ELSE 2 * IntBits - n
         IN  \E g : /\ ShiftBy(s, d, n) = g[k] /\ g[0] = Unshifted(d)
                    /\ \A i \in 1 .. k : g[i] = ShiftOnce(s, left, g[i - 1])
<1> DEFINE left == n < IntBits
           k == IF left THEN n ELSE 2 * IntBits - n
           Good(g) == g = [i \in 0 .. k |-> IF i = 0 THEN [d |-> d, c |-> FALSE, v |-> FALSE]
                                            ELSE ShiftOnce(s, left, g[i - 1])]
           S == Shifting(s)
           step == [it \in Nat \X S |-> ShiftOnce(s, left, it[2])]
<1>1. k \in Nat /\ left \in BOOLEAN
  BY BitCounts
<1>2. ShiftBy(s, d, n) = (CHOOSE g : Good(g))[k]
  BY DEF ShiftBy
<1> HIDE DEF left, k
<1>3. step \in [Nat \X S -> S]
  <2>1. ASSUME NEW it \in Nat \X S PROVE ShiftOnce(s, left, it[2]) \in S
    BY <1>1, OnceType
  <2>2. QED
    BY <2>1
<1>4. Unshifted(d) \in S
  BY DEF Unshifted, Shifting
<1>5. \E g : Good(g)
  <2>1. PICK g \in [0 .. k -> S] : Steps(g, Unshifted(d), step, k)
    <3> HIDE DEF step, S
    <3>1. QED
      BY <1>1, <1>3, <1>4, Iteration
  <2>2. ASSUME NEW i \in 0 .. k
        PROVE  g[i] = IF i = 0 THEN [d |-> d, c |-> FALSE, v |-> FALSE] ELSE ShiftOnce(s, left, g[i - 1])
    <3>1. i # 0 => i - 1 \in 0 .. k /\ i \in Nat /\ g[i - 1] \in S
      BY <1>1
    <3>2. i # 0 => step[<<i, g[i - 1]>>] = ShiftOnce(s, left, g[i - 1])
      BY <3>1
    <3>3. g[i] = IF i = 0 THEN Unshifted(d) ELSE step[<<i, g[i - 1]>>]
      BY <2>1 DEF Steps
    <3>4. QED
      BY <3>2, <3>3 DEF Unshifted
  <2>3. QED
    BY <2>2
<1> DEFINE g == CHOOSE x : Good(x)
<1>6. Good(g)
  BY <1>5
<1>7. ShiftBy(s, d, n) = g[k]
  BY <1>2
<1> HIDE DEF g
<1>8. g[0] = Unshifted(d) /\ \A i \in 1 .. k : g[i] = ShiftOnce(s, left, g[i - 1])
  <2>1. \A i \in 0 .. k : g[i] = IF i = 0 THEN [d |-> d, c |-> FALSE, v |-> FALSE]
                                 ELSE ShiftOnce(s, left, g[i - 1])
    BY <1>6
  <2>2. 0 \in 0 .. k /\ \A i \in 1 .. k : i \in 0 .. k /\ i # 0
    BY <1>1
  <2> HIDE DEF Good
  <2>3. g[0] = Unshifted(d)
    BY <2>1, <2>2 DEF Unshifted
  <2>4. \A i \in 1 .. k : g[i] = ShiftOnce(s, left, g[i - 1])
    BY <2>1, <2>2
  <2>5. QED
    BY <2>3, <2>4
<1>9. QED
  BY <1>7, <1>8 DEF left, k

(* The product of x by a power of two, and what does not fit of it.        *)
LeftOf(s, x, first, t) ==
  /\ t.d = x % s
  /\ t.c = (~first /\ Odd(x \div s))
  /\ t.v = SignLost(x \div s, Sign(s, x % s))

LEMMA LeftFirst ==
  ASSUME NEW h \in Nat \ {0}, NEW d \in Operand(2 * h)
  PROVE  LeftOf(2 * h, Signed(2 * h, d), TRUE, Unshifted(d))
<1> DEFINE x == Signed(2 * h, d)
<1>1. x % (2 * h) = d /\ x \div (2 * h) = IF Sign(2 * h, d) THEN -1 ELSE 0
  BY SignedResidue
<1> HIDE DEF x
<1>2. SignLost(x \div (2 * h), Sign(2 * h, d)) = FALSE
  BY <1>1 DEF SignLost
<1>3. QED
  BY <1>1, <1>2 DEF LeftOf, Unshifted, x

LEMMA LeftMore ==
  ASSUME NEW h \in Nat \ {0}, NEW x \in Int, NEW first \in BOOLEAN, NEW t, LeftOf(2 * h, x, first, t)
  PROVE  LeftOf(2 * h, 2 * x, FALSE, ShiftOnce(2 * h, TRUE, t))
<1> DEFINE s == 2 * h
           d == x % s
           q == x \div s
           b == IF d >= h THEN 1 ELSE 0
           e == 2 * d - s * b
<1>0. Half(s) = h /\ s \in Nat \ {0}
  BY DEF Half
<1>1. q \in Int /\ d \in 0 .. s - 1 /\ x = s * q + d
  BY <1>0, Division
<1> HIDE DEF d, q
<1>2. b \in 0 .. 1 /\ e \in 0 .. s - 1 /\ 2 * d = e + s * b
  <2>1. s * 1 = s /\ s * 0 = 0 /\ s = 2 * h
    BY <1>0
  <2>2. CASE d >= h
    BY <1>0, <1>1, <2>1, <2>2
  <2>3. CASE ~(d >= h)
    BY <1>0, <1>1, <2>1, <2>3
  <2>4. QED
    BY <2>2, <2>3
<1>3. Sign(s, d) <=> b = 1
  BY <1>0 DEF Sign
<1>4. Sign(s, d) \in BOOLEAN /\ Sign(s, e) \in BOOLEAN
  BY DEF Sign
<1> HIDE DEF b, e, s
<1>5. 2 * x = e + s * (2 * q + b)
  <2>1. s * (2 * q + b) = 2 * (s * q) + s * b
    BY <1>0, <1>1, <1>2
  <2>2. s * q \in Int /\ s * b \in Int
    BY <1>0, <1>1, <1>2
  <2>3. QED
    BY <1>1, <1>2, <2>1, <2>2
<1>6. 2 * q + b \in Int
  BY <1>1, <1>2
<1>7. (2 * x) % s = e /\ (2 * x) \div s = 2 * q + b
  <2> DEFINE k == 2 * q + b
  <2>1. k \in Int /\ 2 * x = e + s * k
    BY <1>5, <1>6
  <2> HIDE DEF k
  <2>2. \A y : y = e + s * k => y % s = e /\ y \div s = k
    BY <1>0, <1>2, <2>1, Residue
  <2>3. QED
    BY <2>1, <2>2 DEF k
<1>8. (2 * d) % s = e
  <2>1. b \in Int
    BY <1>2
  <2>2. QED
    BY <1>0, <1>2, <2>1, Residue
<1>9. Odd(2 * q + b) <=> b = 1
  <2>1. 2 * q + b = b + 2 * q /\ b \in 0 .. 2 - 1 /\ 2 \in Nat \ {0}
    BY <1>1, <1>2
  <2>2. (2 * q + b) % 2 = b
    BY <1>1, <2>1, Residue
  <2>3. QED
    BY <2>2 DEF Odd
<1>10. t.d = d /\ (t.v <=> q # (IF b = 1 THEN -1 ELSE 0)) /\ t.v \in BOOLEAN
  <2>1. t.d = d /\ t.v = SignLost(q, Sign(s, d))
    BY DEF LeftOf, d, q, s
  <2>2. SignLost(q, Sign(s, d)) \in BOOLEAN
    BY DEF SignLost
  <2>3. SignLost(q, Sign(s, d)) <=> q # (IF b = 1 THEN -1 ELSE 0)
    BY <1>3 DEF SignLost
  <2>4. QED
    BY <2>1, <2>2, <2>3
<1> DEFINE u == ShiftOnce(s, TRUE, t)
           over == t.v \/ Sign(s, e) # Sign(s, d)
<1>11. u.d = e /\ u.c = Sign(s, d) /\ u.v = over
  BY <1>8, <1>10 DEF ShiftOnce
<1> DEFINE z == IF Sign(s, e) THEN -1 ELSE 0
<1>12. (Sign(s, e) # Sign(s, d)) <=> z # (IF b = 1 THEN -1 ELSE 0)
  BY <1>3, <1>4
<1>13. z \in {-1, 0}
  OBVIOUS
<1>14. (q # (IF b = 1 THEN -1 ELSE 0) \/ z # (IF b = 1 THEN -1 ELSE 0)) <=> 2 * q + b # z
  <2> HIDE DEF z
  <2>1. QED
    BY <1>1, <1>2, <1>13
<1>15. over <=> 2 * q + b # z
  <2> HIDE DEF z
  <2>1. QED
    BY <1>10, <1>12, <1>14
<1>16. over \in BOOLEAN
  BY Zenon
<1>17. over = SignLost(2 * q + b, Sign(s, e))
  <2>1. SignLost(2 * q + b, Sign(s, e)) = (2 * q + b # z)
    BY DEF SignLost
  <2> HIDE DEF z, over
  <2>2. QED
    BY <1>15, <1>16, <2>1
<1>18. u.c = Odd(2 * q + b)
  <2>1. Odd(2 * q + b) \in BOOLEAN
    BY DEF Odd
  <2>2. QED
    BY <1>3, <1>4, <1>9, <1>11, <2>1
<1> HIDE DEF u, over
<1>19. LeftOf(s, 2 * x, FALSE, u)
  <2> DEFINE k == 2 * q + b
             y == 2 * x
  <2>1. y % s = e /\ y \div s = k /\ u.d = e /\ u.c = Odd(k) /\ u.v = SignLost(k, Sign(s, e))
    BY <1>7, <1>11, <1>17, <1>18
  <2>2. Odd(k) \in BOOLEAN
    BY DEF Odd
  <2> HIDE DEF k, y
  <2>3. LeftOf(s, y, FALSE, u)
    BY <2>1, <2>2 DEF LeftOf
  <2>4. QED
    BY <2>3 DEF y
<1>20. QED
  BY <1>19 DEF u, s

LEMMA LeftUnfolds ==
  ASSUME NEW s \in Nat \ {0}, NEW d \in Operand(s), NEW n \in 0 .. IntBits - 1
  PROVE  \E g : /\ ShiftBy(s, d, n) = g[n] /\ g[0] = Unshifted(d)
                /\ \A i \in 1 .. n : g[i] = ShiftOnce(s, TRUE, g[i - 1])
<1> DEFINE left == n < IntBits
           k == IF left THEN n ELSE 2 * IntBits - n
<1>1. n \in 0 .. 2 * IntBits /\ n < IntBits
  BY BitCounts
<1>2. left = TRUE /\ k = n
  BY <1>1
<1>3. \E g : /\ ShiftBy(s, d, n) = g[k] /\ g[0] = Unshifted(d)
             /\ \A i \in 1 .. k : g[i] = ShiftOnce(s, left, g[i - 1])
  BY <1>1, ShiftUnfolds
<1> HIDE DEF left, k
<1>4. QED
  BY <1>2, <1>3

LEMMA RightUnfolds ==
  ASSUME NEW s \in Nat \ {0}, NEW d \in Operand(s), NEW n \in IntBits .. 2 * IntBits
  PROVE  \E g : /\ ShiftBy(s, d, n) = g[2 * IntBits - n] /\ g[0] = Unshifted(d)
                /\ \A i \in 1 .. 2 * IntBits - n : g[i] = ShiftOnce(s, FALSE, g[i - 1])
<1> DEFINE left == n < IntBits
           k == IF left THEN n ELSE 2 * IntBits - n
<1>1. n \in 0 .. 2 * IntBits /\ ~(n < IntBits)
  BY BitCounts
<1>2. left = FALSE /\ k = 2 * IntBits - n
  BY <1>1
<1>3. \E g : /\ ShiftBy(s, d, n) = g[k] /\ g[0] = Unshifted(d)
             /\ \A i \in 1 .. k : g[i] = ShiftOnce(s, left, g[i - 1])
  BY <1>1, ShiftUnfolds
<1> HIDE DEF left, k
<1>4. QED
  BY <1>2, <1>3

LEMMA ShiftsLeft ==
  ASSUME NEW h \in Nat \ {0}, NEW d \in Operand(2 * h), NEW n \in 0 .. IntBits - 1
  PROVE  LeftOf(2 * h, Signed(2 * h, d) * TwoTo[n], n = 0, ShiftBy(2 * h, d, n))
<1> DEFINE s == 2 * h
           x == Signed(s, d)
<1>1. n < IntBits /\ n \in 0 .. 2 * IntBits /\ s \in Nat \ {0} /\ d \in Operand(s) /\ n \in Nat
  BY BitCounts
<1>2. PICK g : /\ ShiftBy(s, d, n) = g[n] /\ g[0] = Unshifted(d)
               /\ \A i \in 1 .. n : g[i] = ShiftOnce(s, TRUE, g[i - 1])
  <2> HIDE DEF s
  <2>1. QED
    BY <1>1, LeftUnfolds
<1> DEFINE T == {i \in Nat : i <= n => LeftOf(s, x * TwoTo[i], i = 0, g[i])}
<1>3. x \in Int
  BY SignedResidue
<1>4. 0 \in T
  <2>1. x * TwoTo[0] = x
    BY <1>3, Doubling
  <2>2. LeftOf(s, x, TRUE, Unshifted(d))
    BY LeftFirst
  <2>3. (0 = 0) = TRUE
    OBVIOUS
  <2> HIDE DEF x, s
  <2>4. QED
    BY <1>2, <2>1, <2>2, <2>3
<1>5. ASSUME NEW i \in T PROVE i + 1 \in T
  <2> SUFFICES ASSUME i + 1 <= n PROVE LeftOf(s, x * TwoTo[i + 1], i + 1 = 0, g[i + 1])
    OBVIOUS
  <2>1. i \in Nat /\ i <= n /\ i + 1 \in 1 .. n /\ (i + 1) - 1 = i /\ Power(i + 1) /\ i + 1 # 0 /\ Power(i)
    BY <1>1, BitCounts DEF Power
  <2>2. TwoTo[i + 1] = 2 * TwoTo[i] /\ TwoTo[i] \in Nat
    BY <2>1, Doubling
  <2>3. x * TwoTo[i + 1] = 2 * (x * TwoTo[i]) /\ x * TwoTo[i] \in Int
    <3>1. x * (2 * TwoTo[i]) = 2 * (x * TwoTo[i]) /\ x * TwoTo[i] \in Int
      BY <1>3, <2>2
    <3>2. QED
      BY <2>2, <3>1
  <2>4. LeftOf(s, x * TwoTo[i], i = 0, g[i])
    BY <2>1
  <2>5. g[i + 1] = ShiftOnce(s, TRUE, g[i])
    BY <1>2, <2>1
  <2> DEFINE y == x * TwoTo[i]
             b == i = 0
  <2>6. b \in BOOLEAN /\ y \in Int /\ LeftOf(2 * h, y, b, g[i])
    BY <2>3, <2>4
  <2> HIDE DEF y, b
  <2>7. LeftOf(2 * h, 2 * y, FALSE, ShiftOnce(2 * h, TRUE, g[i]))
    BY <2>6, LeftMore
  <2>8. (i + 1 = 0) = FALSE
    BY <2>1
  <2>9. QED
    BY <2>3, <2>5, <2>7, <2>8 DEF y
<1> HIDE DEF T
<1>6. T = Nat
  <2>1. T \in SUBSET Nat
    BY DEF T
  <2>2. QED
    BY <1>4, <1>5, <2>1, Induction
<1>7. LeftOf(s, x * TwoTo[n], n = 0, g[n])
  BY <1>1, <1>6 DEF T
<1>8. QED
  BY <1>2, <1>7

(* The quotient of x by a power of two.                                    *)
LEMMA ShiftsRight ==
  ASSUME NEW h \in Nat \ {0}, NEW d \in Operand(2 * h), NEW n \in IntBits + 1 .. 2 * IntBits - 1
  PROVE  LET x == Signed(2 * h, d)
             k == 2 * IntBits - n
             t == ShiftBy(2 * h, d, n)
         IN  /\ t.d = (x \div TwoTo[k]) % (2 * h)
             /\ t.c = Odd(x \div TwoTo[k - 1]) /\ t.v = FALSE
<1> DEFINE s == 2 * h
           x == Signed(s, d)
           k == 2 * IntBits - n
<1>1. ~(n < IntBits) /\ n \in 0 .. 2 * IntBits /\ s \in Nat \ {0} /\ d \in Operand(s) /\ k \in 1 .. IntBits - 1
  BY BitCounts
<1>2. PICK g : /\ ShiftBy(s, d, n) = g[k] /\ g[0] = Unshifted(d)
               /\ \A i \in 1 .. k : g[i] = ShiftOnce(s, FALSE, g[i - 1])
  <2> HIDE DEF s
  <2>1. n \in IntBits .. 2 * IntBits
    BY BitCounts
  <2>2. QED
    BY <1>1, <2>1, RightUnfolds
<1> DEFINE y(i) == x \div TwoTo[i]
           T == {i \in Nat : i <= k => /\ y(i) \in -h .. h - 1 /\ g[i].d = y(i) % s /\ g[i].v = FALSE
                                       /\ i # 0 => g[i].c = Odd(y(i - 1))}
<1>3. x \in -h .. h - 1 /\ x % s = d
  BY SignedResidue
<1> HIDE DEF x, k
<1>4. 0 \in T
  <2>1. x \div TwoTo[0] = x
    BY <1>3, Doubling
  <2>2. g[0].d = d /\ g[0].v = FALSE
    BY <1>2 DEF Unshifted
  <2>3. y(0) = x
    BY <2>1
  <2> HIDE DEF y
  <2>4. QED
    BY <1>3, <2>2, <2>3
<1>5. ASSUME NEW i \in T PROVE i + 1 \in T
  <2> HIDE DEF y
  <2> SUFFICES ASSUME i + 1 <= k
               PROVE  y(i + 1) \in -h .. h - 1 /\ g[i + 1].d = y(i + 1) % s /\ g[i + 1].v = FALSE
                      /\ g[i + 1].c = Odd(y((i + 1) - 1))
    <3> HIDE DEF s
    <3>1. i + 1 \in Nat
      OBVIOUS
    <3>2. QED
      BY <3>1
  <2>1. i \in Nat /\ i <= k /\ i + 1 \in 1 .. k /\ (i + 1) - 1 = i /\ Power(i + 1) /\ i + 1 # 0 /\ Power(i)
    BY <1>1, BitCounts DEF Power
  <2>2. y(i) \in -h .. h - 1 /\ g[i].d = y(i) % s
    BY <2>1
  <2>3. y(i + 1) = y(i) \div 2
    <3>1. TwoTo[i + 1] = 2 * TwoTo[i] /\ TwoTo[i] \in Nat \ {0}
      BY <2>1, Doubling, Positive
    <3>2. x \in Int
      BY <1>3
    <3>3. QED
      BY <3>1, <3>2, QuotientOfQuotient DEF y
  <2> DEFINE p == y(i)
  <2>4. p \in -h .. h - 1
    BY <2>2
  <2>5. Signed(s, p % s) = p /\ (Odd(p % s) <=> Odd(p))
    BY <2>4, SignedBack
  <2>6. g[i + 1] = ShiftOnce(s, FALSE, g[i]) /\ g[i].d = p % s
    BY <1>2, <2>1, <2>2
  <2> HIDE DEF p, s
  <2>7. g[i + 1].d = (p \div 2) % s /\ g[i + 1].c = Odd(p % s) /\ g[i + 1].v = FALSE
    BY <2>5, <2>6 DEF ShiftOnce
  <2>8. Odd(p % s) = Odd(p)
    <3>1. Odd(p % s) \in BOOLEAN /\ Odd(p) \in BOOLEAN
      BY DEF Odd
    <3>2. QED
      BY <2>5, <3>1
  <2>9. p \div 2 \in -h .. h - 1
    BY <2>4
  <2>10. QED
    BY <2>1, <2>3, <2>7, <2>8, <2>9 DEF p
<1> HIDE DEF T
<1>6. T = Nat
  <2>1. T \in SUBSET Nat
    BY DEF T
  <2>2. QED
    BY <1>4, <1>5, <2>1, Induction
<1>7. k \in Nat /\ k # 0
  BY <1>1
<1>8. g[k].d = y(k) % s /\ g[k].v = FALSE /\ g[k].c = Odd(y(k - 1))
  <2>1. k \in T
    BY <1>6, <1>7
  <2> HIDE DEF y
  <2>2. QED
    BY <1>7, <2>1 DEF T
<1>9. QED
  BY <1>2, <1>8 DEF x, k

LEMMA WordPower ==
  /\ WordSize = TwoTo[WordBits] /\ DoubleSize = TwoTo[IntBits] /\ WordSize \in Nat \ {0}
  /\ \E h \in Nat \ {0} : WordSize = 2 * h /\ Half(WordSize) = h
  /\ \E h \in Nat \ {0} : DoubleSize = 2 * h /\ Half(DoubleSize) = h
<1>1. WordSize = TwoTo[WordBits] /\ WordSize \in Nat \ {0}
  BY BitCounts, Positive DEF WordSize
<1>2. DoubleSize = TwoTo[IntBits]
  <2>1. Power(WordBits + WordBits) /\ WordBits \in Nat /\ IntBits = WordBits + WordBits
    BY BitCounts DEF Power
  <2>2. TwoTo[WordBits + WordBits] = TwoTo[WordBits] * TwoTo[WordBits]
    BY <2>1, PowerOfSum
  <2>3. QED
    BY <1>1, <2>1, <2>2 DEF DoubleSize
<1>3. PICK h \in Nat \ {0} : WordSize = 2 * h
  BY WordHalf
<1>4. Half(WordSize) = h /\ \E H \in Nat \ {0} : DoubleSize = 2 * H /\ Half(DoubleSize) = H
  BY <1>3, PairSizes
<1>5. QED
  BY <1>1, <1>2, <1>3, <1>4

(* A shift to the left by n of a number of b bits loses what is above the  *)
(* b - n low ones.                                                         *)
LEMMA LostAbove ==
  ASSUME NEW x \in Int, NEW b, Power(b), NEW n \in 0 .. b
  PROVE  (x * TwoTo[n]) \div TwoTo[b] = x \div TwoTo[b - n] /\ x * TwoTo[n] \in Int
<1>1. n \in Nat /\ b - n \in Nat /\ Power(n + (b - n)) /\ Power(n) /\ Power(b - n) /\ n + (b - n) = b
  BY BitCounts DEF Power
<1>2. TwoTo[b] = TwoTo[n] * TwoTo[b - n]
  BY <1>1, PowerOfSum
<1>3. TwoTo[n] \in Nat \ {0} /\ TwoTo[b - n] \in Nat \ {0}
  BY <1>1, Positive
<1>4. x * TwoTo[n] \in Int
  BY <1>3
<1>5. (x * TwoTo[n]) \div (TwoTo[n] * TwoTo[b - n]) = x \div TwoTo[b - n]
  BY <1>3, QuotientOfProduct
<1>6. QED
  BY <1>2, <1>4, <1>5

(* A shift by all the bits of a word or more leaves none of them.          *)
LEMMA AllLost ==
  ASSUME NEW x \in Int, NEW n \in WordBits .. IntBits - 1
  PROVE  LET y == x * TwoTo[n]
             p == y \div WordSize
         IN  y % WordSize = 0 /\ (p # 0 <=> x # 0) /\ (Odd(p) <=> n = WordBits /\ Odd(x))
<1> DEFINE e == n - WordBits
           t == TwoTo[e]
           y == x * TwoTo[n]
<1>1. e \in Nat /\ WordBits \in Nat /\ Power(WordBits + e) /\ Power(e) /\ WordBits + e = n
  BY BitCounts DEF Power
<1>2. TwoTo[n] = WordSize * t
  BY <1>1, PowerOfSum, WordPower
<1>3. t \in Nat \ {0} /\ WordSize \in Nat \ {0}
  BY <1>1, Positive, WordPower
<1>4. (e = 0 => t = 1) /\ (e # 0 => t = 2 * TwoTo[e - 1] /\ TwoTo[e - 1] \in Nat)
  <2> HIDE DEF e
  <2>1. e # 0 => Power(e - 1)
    BY <1>1, BitCounts DEF Power
  <2>2. QED
    BY <1>1, <2>1, Doubling
<1> HIDE DEF t
<1> DEFINE p == x * t
<1>5. p \in Int /\ y = 0 + WordSize * p
  <2>1. x * (WordSize * t) = WordSize * (x * t) /\ x * t \in Int
    BY <1>3
  <2>2. WordSize * p \in Int
    BY <1>3, <2>1
  <2>3. QED
    BY <1>2, <2>1, <2>2
<1>6. y % WordSize = 0 /\ y \div WordSize = p
  <2> HIDE DEF p, y
  <2>1. 0 \in 0 .. WordSize - 1
    BY <1>3
  <2>2. QED
    BY <1>3, <1>5, <2>1, Residue
<1>7. p # 0 <=> x # 0
  BY <1>3
<1>8. Odd(p) <=> n = WordBits /\ Odd(x)
  <2>1. CASE e = 0
    <3>1. p = x /\ n = WordBits
      BY <1>1, <1>4, <2>1
    <3>2. QED
      BY <3>1
  <2>2. CASE e # 0
    <3> DEFINE q == x * TwoTo[e - 1]
    <3>1. q \in Int /\ p = 0 + 2 * q /\ n # WordBits
      <4>1. x * (2 * TwoTo[e - 1]) = 2 * (x * TwoTo[e - 1]) /\ x * TwoTo[e - 1] \in Int
        BY <1>4, <2>2
      <4>2. QED
        BY <1>1, <1>4, <2>2, <4>1
    <3> HIDE DEF q, p
    <3>2. p % 2 = 0
      BY <3>1, Residue
    <3>3. QED
      BY <3>1, <3>2 DEF Odd
  <2>3. QED
    BY <2>1, <2>2
<1> HIDE DEF p, y
<1>9. QED
  BY <1>6, <1>7, <1>8 DEF y

(* The four ways of a shift by a count, as single shifts do them.          *)
LEMMA NoShift ==
  ASSUME NEW h \in Nat \ {0}, NEW d \in Operand(2 * h)
  PROVE  LET t == ShiftBy(2 * h, d, 0)
         IN  t.d = Signed(2 * h, d) % (2 * h) /\ t.d = d /\ t.c = FALSE /\ t.v = FALSE
<1> DEFINE x == Signed(2 * h, d)
           t == ShiftBy(2 * h, d, 0)
<1>1. 0 \in 0 .. IntBits - 1 /\ TwoTo[0] = 1
  BY BitCounts, Doubling
<1>2. x \in Int /\ x % (2 * h) = d /\ x \div (2 * h) = IF Sign(2 * h, d) THEN -1 ELSE 0
  BY SignedResidue
<1>3. LeftOf(2 * h, x * TwoTo[0], 0 = 0, t)
  BY <1>1, ShiftsLeft
<1>4. x * TwoTo[0] = x
  BY <1>1, <1>2
<1> HIDE DEF x, t
<1>5. LeftOf(2 * h, x, TRUE, t)
  BY <1>3, <1>4
<1>6. SignLost(x \div (2 * h), Sign(2 * h, d)) = FALSE
  BY <1>2 DEF SignLost
<1>7. QED
  BY <1>2, <1>5, <1>6 DEF LeftOf, x, t

LEMMA LeftShift ==
  ASSUME NEW h \in Nat \ {0}, NEW b, Power(b), TwoTo[b] = 2 * h,
         NEW d \in Operand(2 * h), NEW n \in 1 .. b - 1
  PROVE  LET src == Signed(2 * h, d)
             fallen == src \div TwoTo[b - n]
             e == (src * TwoTo[n]) % (2 * h)
             t == ShiftBy(2 * h, d, n)
         IN  t.d = e /\ e \in Operand(2 * h) /\ t.c = Odd(fallen) /\ t.v = SignLost(fallen, Sign(2 * h, e))
<1> DEFINE src == Signed(2 * h, d)
           t == ShiftBy(2 * h, d, n)
           y == src * TwoTo[n]
<1>1. n \in 0 .. IntBits - 1 /\ n # 0 /\ n \in 0 .. b
  BY BitCounts DEF Power
<1>2. src \in Int
  BY SignedResidue
<1>3. y \div (2 * h) = src \div TwoTo[b - n] /\ y \in Int
  BY <1>1, <1>2, LostAbove
<1>4. LeftOf(2 * h, y, n = 0, t)
  BY <1>1, ShiftsLeft
<1>5. y % (2 * h) \in Operand(2 * h)
  <2>1. 2 * h \in Nat \ {0}
    OBVIOUS
  <2>2. QED
    BY <1>3, <2>1, Division DEF Operand
<1>6. Odd(y \div (2 * h)) \in BOOLEAN
  BY DEF Odd
<1> HIDE DEF y, t, src
<1>7. QED
  BY <1>1, <1>3, <1>4, <1>5, <1>6 DEF LeftOf, y, t, src

LEMMA RightShifted ==
  ASSUME NEW h \in Nat \ {0}, NEW d \in Operand(2 * h), NEW n \in IntBits + 1 .. 2 * IntBits - 1
  PROVE  LET g == RightResult(Signed(2 * h, d), 2 * IntBits - n)
             t == ShiftBy(2 * h, d, n)
         IN  g.d % (2 * h) = t.d /\ g.c = t.c /\ g.v = t.v /\ g.d \in Int
<1>1. 2 * IntBits - n # IntBits /\ Power(2 * IntBits - n)
  BY BitCounts DEF Power
<1> DEFINE x == Signed(2 * h, d)
           k == 2 * IntBits - n
           t == ShiftBy(2 * h, d, n)
<1>2. /\ t.d = (x \div TwoTo[k]) % (2 * h)
      /\ t.c = Odd(x \div TwoTo[k - 1]) /\ t.v = FALSE
  BY ShiftsRight
<1>3. x \in Int /\ TwoTo[k] \in Nat \ {0}
  BY <1>1, SignedResidue, Positive
<1> HIDE DEF x, k, t
<1>4. RightShift(x, k) = x \div TwoTo[k] /\ x \div TwoTo[k] \in Int
  BY <1>1, <1>3, Division DEF RightShift, k
<1>5. QED
  BY <1>2, <1>4 DEF RightResult, x, k, t

(* ASH by a count that is not the full width is that many single shifts.   *)
LEMMA AshIsExact ==
  ASSUME NEW x \in Word, NEW y, Count(y) \in 0 .. 2 * IntBits - 1, Count(y) # IntBits
  PROVE  LET t == ShiftBy(WordSize, x, Count(y))
         IN  Ash(x, y) = Result(WordSize, t.d, t.v, t.c)
<1> DEFINE n == Count(y)
           src == Signed(WordSize, x)
           out0 == src \div TwoTo[WordBits - n]
           left == (src * TwoTo[n]) % WordSize
           none == [d |-> src, v |-> FALSE, c |-> FALSE]
           some == [d |-> left, c |-> Odd(out0), v |-> SignLost(out0, Sign(WordSize, left))]
           all == [d |-> 0, v |-> src # 0, c |-> n = WordBits /\ Odd(src)]
           right == RightResult(src, 2 * IntBits - n)
           g == CASE n = 0 -> none
                  [] n \in 1 .. WordBits - 1 -> some
                  [] n \in WordBits .. IntBits - 1 -> all
                  [] OTHER -> right
           t == ShiftBy(WordSize, x, n)
<1>1. PICK h \in Nat \ {0} : WordSize = 2 * h /\ Half(WordSize) = h
  BY WordPower
<1>2. Ash(x, y) = Result(WordSize, g.d % WordSize, g.v, g.c)
  BY DEF Ash
<1>3. x \in Operand(2 * h) /\ src \in Int
  <2>1. x \in Operand(2 * h)
    BY <1>1 DEF Word, Operand
  <2>2. QED
    BY <1>1, <2>1, SignedResidue
<1>4. n \in 0 .. 2 * IntBits - 1 /\ n # IntBits /\ WordBits \in Nat /\ WordBits > 0 /\ IntBits = WordBits + WordBits
  BY BitCounts
<1> HIDE DEF n
<1>5. CASE n = 0
  <2>0. g = none
    <3> HIDE DEF none, some, all, right
    <3>1. n \notin 1 .. WordBits - 1 /\ n \notin WordBits .. IntBits - 1
      BY <1>4, <1>5
    <3>2. QED
      BY <1>5, <3>1
  <2> HIDE DEF g
  <2>1. g = [d |-> src, v |-> FALSE, c |-> FALSE]
    BY <2>0
  <2>2. t.d = src % WordSize /\ t.c = FALSE /\ t.v = FALSE
    BY <1>1, <1>3, <1>5, NoShift
  <2> HIDE DEF t, src
  <2>3. QED
    BY <1>2, <2>1, <2>2 DEF t, n
<1>6. CASE n \in 1 .. WordBits - 1
  <2>0. g = some
    <3> HIDE DEF none, some, all, right
    <3>1. n # 0 /\ n \notin WordBits .. IntBits - 1
      BY <1>4, <1>6
    <3>2. QED
      BY <1>6, <3>1
  <2> HIDE DEF g
  <2>1. g = [d |-> left, c |-> Odd(out0), v |-> SignLost(out0, Sign(WordSize, left))]
    BY <2>0
  <2>2. t.d = left /\ left \in Operand(2 * h) /\ t.c = Odd(out0) /\ t.v = SignLost(out0, Sign(WordSize, left))
    <3>1. Power(WordBits) /\ TwoTo[WordBits] = 2 * h
      BY <1>1, WordPower, BitCounts
    <3>2. QED
      BY <1>1, <1>3, <1>6, <3>1, LeftShift
  <2> HIDE DEF left, out0, t
  <2>3. left % WordSize = left
    <3>1. \A s \in Nat : \A d \in 0 .. s - 1 : d % s = d
      OBVIOUS
    <3>2. WordSize \in Nat /\ left \in 0 .. WordSize - 1
      BY <1>1, <2>2 DEF Operand
    <3>3. QED
      BY <3>1, <3>2
  <2>4. QED
    BY <1>2, <2>1, <2>2, <2>3 DEF t, n
<1>7. CASE n \in WordBits .. IntBits - 1
  <2>0. g = all
    <3> HIDE DEF none, some, all, right
    <3>1. n # 0 /\ n \notin 1 .. WordBits - 1
      BY <1>4, <1>7
    <3>2. QED
      BY <1>7, <3>1
  <2> HIDE DEF g
  <2>1. g = [d |-> 0, v |-> src # 0, c |-> n = WordBits /\ Odd(src)]
    BY <2>0
  <2> DEFINE z == src * TwoTo[n]
             p == z \div WordSize
  <2>2. z % WordSize = 0 /\ (p # 0 <=> src # 0) /\ (Odd(p) <=> n = WordBits /\ Odd(src))
    BY <1>3, <1>7, AllLost
  <2>3. LeftOf(WordSize, z, n = 0, t)
    <3>1. n \in 0 .. IntBits - 1
      BY <1>4, <1>7
    <3>2. QED
      BY <1>1, <1>3, <3>1, ShiftsLeft
  <2> DEFINE lost == n = WordBits /\ Odd(src)
  <2>4. lost \in BOOLEAN
    BY Zenon DEF Odd
  <2> HIDE DEF z, p, t, src, lost
  <2>5. t.d = 0
    BY <2>2, <2>3 DEF LeftOf
  <2>6. n # 0
    BY <1>4, <1>7
  <2>7. t.c = lost
    <3>1. t.c = Odd(p) /\ Odd(p) \in BOOLEAN
      BY <2>3, <2>6 DEF LeftOf, p, Odd
    <3>2. Odd(p) <=> lost
      BY <2>2 DEF lost
    <3>3. QED
      BY <2>4, <3>1, <3>2
  <2>8. t.v = (src # 0)
    <3>1. ~Sign(WordSize, 0)
      BY <1>1 DEF Sign
    <3>2. t.v = (p # 0)
      BY <2>2, <2>3, <3>1 DEF LeftOf, SignLost, p
    <3>3. QED
      BY <2>2, <3>2
  <2>9. 0 % WordSize = 0
    BY <1>1
  <2>10. QED
    BY <1>2, <2>1, <2>5, <2>7, <2>8, <2>9 DEF t, n, lost
<1>8. CASE n \in IntBits + 1 .. 2 * IntBits - 1
  <2>1. n # 0 /\ n \notin 1 .. WordBits - 1 /\ n \notin WordBits .. IntBits - 1
    BY <1>4, <1>8
  <2>2. g = right
    <3> HIDE DEF none, some, all, right
    <3>1. QED
      BY <2>1
  <2>3. LET e == RightResult(src, 2 * IntBits - n)
        IN  e.d % (2 * h) = t.d /\ e.c = t.c /\ e.v = t.v
    BY <1>1, <1>3, <1>8, RightShifted
  <2> HIDE DEF g, t, src
  <2>4. g.d % WordSize = t.d /\ g.c = t.c /\ g.v = t.v
    BY <1>1, <2>2, <2>3
  <2>5. QED
    BY <1>2, <2>4 DEF t, n
<1>9. n = 0 \/ n \in 1 .. WordBits - 1 \/ n \in WordBits .. IntBits - 1 \/ n \in IntBits + 1 .. 2 * IntBits - 1
  BY <1>4
<1>10. QED
  BY <1>5, <1>6, <1>7, <1>8, <1>9

(* What a pair of registers keeps of a number.                             *)
LEMMA PairKeeps ==
  ASSUME NEW x \in Int, NEW cc
  PROVE  LET p == InPair(x, cc)
         IN  /\ p.hi \in Word /\ p.lo \in Word /\ p.f = cc
             /\ p.hi * WordSize + p.lo = x % DoubleSize
<1> DEFINE w == WordSize
           q == x \div w
           lo == x % w
           k == q \div w
           hi == q % w
<1>1. w \in Nat \ {0}
  BY WordPower
<1>2. q \in Int /\ lo \in 0 .. w - 1 /\ x = w * q + lo
  BY <1>1, Division
<1>3. k \in Int /\ hi \in 0 .. w - 1 /\ q = w * k + hi
  BY <1>1, <1>2, Division
<1>4. InPair(x, cc) = [hi |-> hi, lo |-> lo, f |-> cc]
  BY DEF InPair
<1> HIDE DEF q, lo, k, hi, w
<1>5. x = (hi * w + lo) + (w * w) * k
  <2>1. w * (w * k + hi) = (w * w) * k + hi * w
    BY <1>1, <1>3
  <2>2. (w * w) * k \in Int /\ hi * w \in Int
    BY <1>1, <1>3
  <2>3. QED
    BY <1>2, <1>3, <2>1, <2>2
<1>6. hi \in Word /\ lo \in Word
  BY <1>2, <1>3 DEF Word, w
<1>7. hi * WordSize + lo = x % DoubleSize
  <2>1. x = (hi * WordSize + lo) + DoubleSize * k
    BY <1>5 DEF w, DoubleSize
  <2>2. QED
    BY <1>3, <1>6, <2>1, DoubleRemainder
<1>8. QED
  BY <1>4, <1>6, <1>7

(* ASHC likewise, on the pair.                                             *)
LEMMA AshcIsExact ==
  ASSUME NEW top \in Word, NEW low \in Word, NEW y, Count(y) \in 0 .. 2 * IntBits - 1, Count(y) # IntBits
  PROVE  LET t == ShiftBy(DoubleSize, top * WordSize + low, Count(y))
             p == Ashc(top, low, y)
         IN  /\ p.hi * WordSize + p.lo = t.d
             /\ p.f = Flags(Sign(DoubleSize, t.d), t.d = 0, t.v, t.c)
<1> DEFINE n == Count(y)
           was == top * WordSize + low
           src == Pair(top, low)
           fallen == src \div TwoTo[IntBits - n]
           e == (src * TwoTo[n]) % DoubleSize
           left == Signed(DoubleSize, e)
           none == [d |-> src, v |-> FALSE, c |-> FALSE]
           some == [d |-> left, c |-> Odd(fallen), v |-> SignLost(fallen, left < 0)]
           right == RightResult(src, 2 * IntBits - n)
           g == CASE n = 0 -> none
                  [] n \in 1 .. IntBits - 1 -> some
                  [] OTHER -> right
           p == InPair(g.d, Flags(FALSE, FALSE, g.v, g.c))
           t == ShiftBy(DoubleSize, was, n)
<1>1. PICK H \in Nat \ {0} : DoubleSize = 2 * H /\ Half(DoubleSize) = H
  BY WordPower
<1>2. Ashc(top, low, y) = [p EXCEPT !.f.n = Sign(WordSize, p.hi), !.f.z = p.hi = 0 /\ p.lo = 0]
  BY DEF Ashc
<1>3. was \in Operand(2 * H) /\ src = Signed(2 * H, was) /\ src \in Int
  <2>1. PICK h \in Nat \ {0} : WordSize = 2 * h
    BY WordHalf
  <2>2. was \in Operand(2 * H)
    BY <1>1, <2>1, PairBounds
  <2>3. src = Signed(2 * H, was)
    BY <1>1 DEF Pair
  <2>4. QED
    BY <2>2, <2>3, SignedResidue
<1>4. n \in 0 .. 2 * IntBits - 1 /\ n # IntBits /\ IntBits \in Nat /\ IntBits > 0
  BY BitCounts
<1> HIDE DEF n, was, src
<1>5. g.d \in Int /\ g.d % DoubleSize = t.d /\ g.v = t.v /\ g.c = t.c
  <2>1. CASE n = 0
    <3>1. g = none
      <4> HIDE DEF none, some, right
      <4>1. QED
        BY <2>1
    <3>2. t.d = src % DoubleSize /\ t.c = FALSE /\ t.v = FALSE
      BY <1>1, <1>3, <2>1, NoShift
    <3> HIDE DEF g, t
    <3>3. QED
      BY <1>3, <3>1, <3>2
  <2>2. CASE n \in 1 .. IntBits - 1
    <3>1. g = some
      <4> HIDE DEF none, some, right
      <4>1. n # 0
        BY <2>2
      <4>2. QED
        BY <2>2, <4>1
    <3>2. t.d = e /\ e \in Operand(2 * H) /\ t.c = Odd(fallen) /\ t.v = SignLost(fallen, Sign(2 * H, e))
      <4>1. Power(IntBits) /\ TwoTo[IntBits] = 2 * H
        BY <1>1, <1>4, WordPower DEF Power
      <4>2. QED
        BY <1>1, <1>3, <2>2, <4>1, LeftShift
    <3> HIDE DEF g, t, fallen, e
    <3>3. left \in Int /\ left % DoubleSize = e /\ (left < 0 <=> Sign(2 * H, e))
      BY <1>1, <3>2, SignedResidue
    <3>4. SignLost(fallen, left < 0) = SignLost(fallen, Sign(2 * H, e))
      BY <3>3 DEF SignLost
    <3> HIDE DEF left
    <3>5. QED
      BY <3>1, <3>2, <3>3, <3>4
  <2>3. CASE n \in IntBits + 1 .. 2 * IntBits - 1
    <3>1. g = right
      <4> HIDE DEF none, some, right
      <4>1. n # 0 /\ n \notin 1 .. IntBits - 1
        BY <1>4, <2>3
      <4>2. QED
        BY <4>1
    <3>2. LET q == RightResult(src, 2 * IntBits - n)
          IN  q.d % (2 * H) = t.d /\ q.c = t.c /\ q.v = t.v /\ q.d \in Int
      BY <1>1, <1>3, <2>3, RightShifted
    <3> HIDE DEF g, t
    <3>3. QED
      BY <1>1, <3>1, <3>2
  <2>4. n = 0 \/ n \in 1 .. IntBits - 1 \/ n \in IntBits + 1 .. 2 * IntBits - 1
    BY <1>4
  <2>5. QED
    BY <2>1, <2>2, <2>3, <2>4
<1> HIDE DEF g, t
<1>6. p.hi \in Word /\ p.lo \in Word /\ p.hi * WordSize + p.lo = t.d /\ p.f = Flags(FALSE, FALSE, t.v, t.c)
  BY <1>5, PairKeeps
<1>7. p = [hi |-> p.hi, lo |-> p.lo, f |-> p.f]
  BY DEF InPair
<1> HIDE DEF p
<1> DEFINE hi == p.hi
           lo == p.lo
<1>8. (Sign(WordSize, hi) <=> Sign(DoubleSize, t.d)) /\ (hi = 0 /\ lo = 0 <=> t.d = 0)
  <2>1. PICK h \in Nat \ {0} : WordSize = 2 * h /\ Half(WordSize) = h
    BY WordPower
  <2>2. Sign(DoubleSize, hi * WordSize + lo) <=> hi >= h
    BY <1>6, <2>1, PairBounds
  <2>3. hi = 0 /\ lo = 0 <=> hi * WordSize + lo = 0
    <3>1. \A i \in Nat, j \in Nat, w \in Nat \ {0} : i * w + j = 0 <=> (i = 0 /\ j = 0)
      <4> SUFFICES ASSUME NEW i \in Nat, NEW j \in Nat, NEW w \in Nat \ {0}
                   PROVE  i * w + j = 0 <=> (i = 0 /\ j = 0)
        OBVIOUS
      <4>1. i # 0 => i * w > 0
        OBVIOUS
      <4>2. i * w \in Nat
        OBVIOUS
      <4>3. i = 0 => i * w = 0
        OBVIOUS
      <4>4. QED
        BY <4>1, <4>2, <4>3
    <3>2. hi \in Nat /\ lo \in Nat /\ WordSize \in Nat \ {0}
      BY <1>6, WordPower DEF Word
    <3>3. QED
      BY <3>1, <3>2
  <2>4. Sign(WordSize, hi) <=> hi >= h
    BY <2>1 DEF Sign
  <2>5. QED
    BY <1>6, <2>2, <2>3, <2>4
<1> DEFINE neg == Sign(WordSize, hi)
           zero == hi = 0 /\ lo = 0
           q == [p EXCEPT !.f.n = neg, !.f.z = zero]
<1>9. neg = Sign(DoubleSize, t.d)
  BY <1>8 DEF Sign
<1>10. zero = (t.d = 0)
  <2>1. zero \in BOOLEAN /\ (t.d = 0) \in BOOLEAN
    BY Zenon
  <2>2. QED
    BY <1>8, <2>1
<1>11. Ashc(top, low, y) = q
  BY <1>2
<1> HIDE DEF neg, zero
<1>12. q.hi = hi /\ q.lo = lo /\ q.f = Flags(neg, zero, t.v, t.c)
  <2> DEFINE tv == t.v
             tc == t.c
             no == FALSE
  <2>2. p = [hi |-> hi, lo |-> lo, f |-> Flags(no, no, tv, tc)]
    BY <1>6, <1>7
  <2> HIDE DEF hi, lo, tv, tc, no
  <2> DEFINE a == Flags(no, no, tv, tc)
             b == Flags(neg, no, tv, tc)
             c == Flags(neg, zero, tv, tc)
  <2>3. [a EXCEPT !.n = neg] = b /\ [b EXCEPT !.z = zero] = c
    BY DEF Flags
  <2> HIDE DEF a, b, c
  <2>4. [p EXCEPT !.f.n = neg] = [hi |-> hi, lo |-> lo, f |-> b]
    <3>1. [p EXCEPT !.f.n = neg] = [hi |-> hi, lo |-> lo, f |-> [a EXCEPT !.n = neg]]
      BY <2>2 DEF a
    <3>2. QED
      BY <2>3, <3>1
  <2> DEFINE u == [p EXCEPT !.f.n = neg]
  <2>5. q = [u EXCEPT !.f.z = zero]
    OBVIOUS
  <2> HIDE DEF u, q
  <2>6. q = [hi |-> hi, lo |-> lo, f |-> [b EXCEPT !.z = zero]]
    <3>1. u = [hi |-> hi, lo |-> lo, f |-> b]
      BY <2>4 DEF u
    <3>2. QED
      BY <2>5, <3>1
  <2>7. q.hi = hi /\ q.lo = lo /\ q.f = c
    BY <2>3, <2>6
  <2>8. QED
    BY <2>7 DEF tv, tc, c
<1> HIDE DEF q
<1>13. QED
  BY <1>6, <1>9, <1>10, <1>11, <1>12 DEF t, was, n

LEMMA AshFinished ==
  ASSUME GuestInv, Finished("ash"), Count(Was(2)) # IntBits
  PROVE  LET word == ShiftBy(WordSize, Was(0), Count(Was(2)))
         IN  r[0] = word.d /\ f = Flags(Sign(WordSize, word.d), word.d = 0, word.v, word.c)
<1>1. prog.code = ShiftWord /\ Sound(Origin) /\ r = Ran(Len(prog.code)).r /\ f = Ran(Len(prog.code)).f
  <2>1. "ash" \in DOMAIN CodeOf /\ CodeOf["ash"] = {ShiftWord}
    BY DEF CodeOf
  <2>2. QED
    BY <2>1, FinishedAs
<1>2. Len(prog.code) = 1 /\ prog.code[1] = Op("ash", Reg(0), Reg(2))
  BY <1>1 DEF ShiftWord
<1>3. Ran(1) = Turn(Origin, 1)
  BY DEF Ran
<1>4. Was(0) \in Word /\ Was(2) \in Word /\ Origin.r[0] = Was(0) /\ Origin.r[2] = Was(2)
  BY <1>1, OriginWords
<1> DEFINE g == Ash(Was(0), Was(2))
           word == ShiftBy(WordSize, Was(0), Count(Was(2)))
<1>5. r[0] = g.d /\ f = g.f
  BY <1>1, <1>2, <1>3, <1>4, ExtendedTurn
<1>6. g = Result(WordSize, word.d, word.v, word.c)
  BY <1>4, CountType, AshIsExact
<1> HIDE DEF g, word
<1>7. QED
  BY <1>5, <1>6 DEF Result, word

LEMMA AshcFinished ==
  ASSUME GuestInv, Finished("ashc"), Count(Was(2)) # IntBits
  PROVE  LET double == ShiftBy(DoubleSize, DoubleWas(0, 1), Count(Was(2)))
         IN  /\ DoubleIs(0, 1) = double.d
             /\ f = Flags(Sign(DoubleSize, double.d), double.d = 0, double.v, double.c)
<1>1. prog.code = ShiftPair /\ Sound(Origin) /\ r = Ran(Len(prog.code)).r /\ f = Ran(Len(prog.code)).f
  <2>1. "ashc" \in DOMAIN CodeOf /\ CodeOf["ashc"] = {ShiftPair}
    BY DEF CodeOf
  <2>2. QED
    BY <2>1, FinishedAs
<1>2. Len(prog.code) = 1 /\ prog.code[1] = Op("ashc", Reg(0), Reg(2))
  BY <1>1 DEF ShiftPair
<1>3. Ran(1) = Turn(Origin, 1)
  BY DEF Ran
<1>4. /\ Was(0) \in Word /\ Was(1) \in Word /\ Was(2) \in Word
      /\ Origin.r[0] = Was(0) /\ Origin.r[1] = Was(1) /\ Origin.r[2] = Was(2)
  BY <1>1, OriginWords
<1> DEFINE g == Ashc(Was(0), Was(1), Was(2))
<1>5. r[0] = g.hi /\ r[1] = g.lo /\ f = g.f
  BY <1>1, <1>2, <1>3, <1>4, ExtendedTurn
<1>6. LET t == ShiftBy(DoubleSize, Was(0) * WordSize + Was(1), Count(Was(2)))
      IN  /\ g.hi * WordSize + g.lo = t.d
          /\ g.f = Flags(Sign(DoubleSize, t.d), t.d = 0, t.v, t.c)
  BY <1>4, CountType, AshcIsExact
<1> HIDE DEF g
<1>7. QED
  BY <1>5, <1>6 DEF DoubleIs, DoubleWas

LEMMA ShiftsHold == ASSUME GuestInv PROVE ShiftsExact
  BY AshFinished, AshcFinished DEF ShiftsExact

(* C's division truncates: the remainder is smaller than the divisor and   *)
(* has the sign of the dividend.                                           *)
LEMMA Truncates ==
  ASSUME NEW a \in Int, NEW b \in Int \ {0}
  PROVE  LET q == Quotient(a, b)
             m == IF b < 0 THEN -b ELSE b
             rem == a - b * q
         IN  /\ q \in Int /\ rem \in Int /\ a = b * q + rem
             /\ -m < rem /\ rem < m /\ (rem = 0 \/ (rem < 0 <=> a < 0))
<1> DEFINE big == IF a < 0 THEN -a ELSE a
           m == IF b < 0 THEN -b ELSE b
           k == big \div m
           left == big % m
           q == Quotient(a, b)
<1>1. big \in Nat /\ m \in Nat \ {0}
  OBVIOUS
<1>2. q = IF (a < 0) = (b < 0) THEN k ELSE -k
  BY DEF Quotient
<1> HIDE DEF q
<1>3. k \in Int /\ left \in 0 .. m - 1 /\ big = m * k + left
  <2> HIDE DEF big, m
  <2>1. QED
    BY <1>1, Division
<1> HIDE DEF k, left
<1> DEFINE t == b * k
<1>4. t \in Int /\ b * (-k) = -t /\ (-b) * k = -t
  BY <1>3
<1>5. big = (IF b < 0 THEN -t ELSE t) + left
  <2>1. CASE b < 0
    <3>1. m = -b /\ m * k = -t
      BY <1>4, <2>1
    <3> HIDE DEF t, m, big
    <3>2. QED
      BY <1>3, <2>1, <3>1
  <2>2. CASE ~(b < 0)
    <3>1. m = b /\ m * k = t
      BY <2>2
    <3> HIDE DEF t, m, big
    <3>2. QED
      BY <1>3, <2>2, <3>1
  <2>3. QED
    BY <2>1, <2>2
<1>6. b * q = IF (a < 0) = (b < 0) THEN t ELSE -t
  <2>1. CASE (a < 0) = (b < 0)
    BY <1>2, <2>1
  <2>2. CASE (a < 0) # (b < 0)
    <3>1. q = -k
      BY <1>2, <2>2
    <3> HIDE DEF t
    <3>2. QED
      BY <1>4, <2>2, <3>1
  <2>3. QED
    BY <2>1, <2>2
<1> DEFINE p == b * q
           rem == a - p
<1>7. p \in Int /\ q \in Int
  <2> HIDE DEF t
  <2>1. QED
    BY <1>2, <1>3, <1>4, <1>6
<1> HIDE DEF t, p
<1>8. rem = IF a < 0 THEN -left ELSE left
  <2>1. p = IF (a < 0) = (b < 0) THEN t ELSE -t
    BY <1>6 DEF p
  <2>2. QED
    BY <1>3, <1>4, <1>5, <1>7, <2>1
<1>9. rem \in Int /\ a = p + rem /\ -m < rem /\ rem < m /\ (rem = 0 \/ (rem < 0 <=> a < 0))
  BY <1>1, <1>3, <1>7, <1>8
<1>10. QED
  BY <1>7, <1>9 DEF p, q

LEMMA ProductDivides ==
  ASSUME NEW a \in Int, NEW b \in Int \ {0} PROVE Quotient(a * b, b) = a
<1> DEFINE d == a * b
           q == Quotient(d, b)
           m == IF b < 0 THEN -b ELSE b
           rem == d - b * q
<1>1. d \in Int /\ d = b * a
  OBVIOUS
<1>2. q \in Int /\ rem \in Int /\ -m < rem /\ rem < m
  <2> HIDE DEF d
  <2>1. QED
    BY <1>1, Truncates
<1> HIDE DEF d, q
<1>3. b * (a - q) = rem
  <2>1. b * (a - q) = b * a - b * q
    BY <1>2
  <2>2. QED
    BY <1>1, <2>1
<1>4. CASE b > 0
  <2>1. b \in Nat \ {0} /\ m = b
    BY <1>4
  <2> HIDE DEF rem
  <2>2. -b < b * (a - q) /\ b * (a - q) < b
    BY <1>2, <1>3, <2>1
  <2>3. a = q
    BY <1>2, <2>1, <2>2, Multiples
  <2>4. QED
    BY <2>3 DEF q, d
<1>5. CASE b < 0
  <2> DEFINE e == -b
  <2>1. e \in Nat \ {0} /\ m = e
    BY <1>5
  <2>2. e * (q - a) = b * (a - q)
    BY <1>2
  <2> HIDE DEF e, rem
  <2>3. -e < e * (q - a) /\ e * (q - a) < e
    BY <1>2, <1>3, <2>1, <2>2
  <2>4. q = a
    BY <1>2, <2>1, <2>3, Multiples
  <2>5. QED
    BY <2>4 DEF q, d
<1>6. QED
  BY <1>4, <1>5

(* The product of two words fits in two.                                   *)
LEMMA ProductFits ==
  ASSUME NEW h \in Nat \ {0}, NEW x \in -h .. h - 1, NEW y \in -h .. h - 1
  PROVE  x * y \in Int /\ x * y <= h * h /\ -(h * h) <= x * y /\ h * h \in Nat \ {0}
<1>1. \A p \in Nat, q \in Nat : p * q >= 0
  OBVIOUS
<1>2. h - x \in Nat /\ h + x \in Nat /\ h - y \in Nat /\ h + y \in Nat
  OBVIOUS
<1>3. /\ (h - x) * (h + y) >= 0 /\ (h + x) * (h - y) >= 0
      /\ (h - x) * (h - y) >= 0 /\ (h + x) * (h + y) >= 0
  BY <1>1, <1>2
<1> DEFINE hh == h * h
           hx == h * x
           hy == h * y
           xy == x * y
<1>4. /\ (h - x) * (h + y) = hh + hy - hx - xy /\ (h + x) * (h - y) = hh - hy + hx - xy
      /\ (h - x) * (h - y) = hh - hy - hx + xy /\ (h + x) * (h + y) = hh + hy + hx + xy
  OBVIOUS
<1>5. hh \in Int /\ hx \in Int /\ hy \in Int /\ xy \in Int
  OBVIOUS
<1>6. hh > 0
  <2>1. \A p \in Nat \ {0} : \A q \in Nat \ {0} : p * q > 0
    OBVIOUS
  <2>2. QED
    BY <2>1
<1> HIDE DEF hh, hx, hy, xy
<1>7. xy <= hh /\ -hh <= xy
  BY <1>3, <1>4, <1>5
<1>8. QED
  BY <1>5, <1>6, <1>7 DEF hh, xy

(* DIV of a pair by a word.                                                *)
LEMMA DivIsExact ==
  ASSUME NEW h \in Nat \ {0}, WordSize = 2 * h, NEW top \in Word, NEW low \in Word, NEW w \in Word, NEW cc
  PROVE  LET a == Pair(top, low)
             b == Signed(WordSize, w)
             g == Div(top, low, w, cc)
             q == Quotient(a, b)
         IN  /\ a \in Int /\ b \in -h .. h - 1
             /\ g.f.v \in BOOLEAN
             /\ g.f.v => b = 0 \/ q \notin -h .. h - 2
             /\ ~g.f.v => /\ b # 0 /\ q \in -h .. h - 2
                          /\ Signed(WordSize, g.hi) = q /\ Signed(WordSize, g.lo) = a - b * q
             /\ b # 0 /\ q \in -h .. h - 2 /\ ~(a = -Half(DoubleSize) /\ b = -1) => ~g.f.v
<1> DEFINE a == Pair(top, low)
           b == Signed(WordSize, w)
           g == Div(top, low, w, cc)
           q == Quotient(a, b)
           same(c) == [hi |-> top, lo |-> low, f |-> Flags(cc.n, cc.z, TRUE, c)]
           rem == a - b * q
           fits == [hi |-> q % WordSize, lo |-> rem % WordSize, f |-> Flags(q < 0, q = 0, FALSE, FALSE)]
           H == h * WordSize
<1>1. H \in Nat \ {0} /\ DoubleSize = 2 * H /\ Half(DoubleSize) = H /\ Half(WordSize) = h
  BY PairSizes
<1>2. a \in Int
  <2>1. top * WordSize + low \in Operand(DoubleSize)
    BY PairBounds
  <2>2. QED
    BY <1>1, <2>1, SignedResidue DEF Pair
<1>3. b \in -h .. h - 1
  <2>1. w \in Operand(2 * h)
    BY DEF Word, Operand
  <2>2. QED
    BY <2>1, SignedResidue
<1>4. g = IF b = 0 THEN same(TRUE) ELSE IF DivOverflow(a, b) THEN same(FALSE) ELSE fits
  BY DEF Div
<1>5. \A c : same(c).f.v = TRUE
  BY DEF Flags
<1>6. fits.f.v = FALSE /\ fits.hi = q % WordSize /\ fits.lo = rem % WordSize
  BY DEF Flags
<1>7. DivOverflow(a, b) <=> (a = -H /\ b = -1) \/ q >= h - 1 \/ q < -h
  BY <1>1 DEF DivOverflow
<1> DEFINE over == DivOverflow(a, b)
<1>8. over \in BOOLEAN
  BY DEF DivOverflow
<1> HIDE DEF a, b, g, q, same, fits, H, over
<1>9. b # 0 => q \in Int
  BY <1>2, <1>3, Truncates DEF q
<1>10. a = -H /\ b = -1 => q = H
  <2> SUFFICES ASSUME a = -H, b = -1 PROVE q = H
    OBVIOUS
  <2>0. \A i \in Nat \ {0} : i \div 1 = i
    OBVIOUS
  <2>1. H \in Nat \ {0} /\ H \div 1 = H
    BY <1>1, <2>0
  <2>2. a < 0 /\ -a = H
    BY <1>1
  <2>3. b < 0 /\ -b = 1
    <3>1. \A i \in Int : i + 1 = 0 => i < 0 /\ -i = 1
      OBVIOUS
    <3>2. b \in Int /\ b + 1 = 0
      BY <1>3
    <3>3. QED
      BY <3>1, <3>2
  <2>4. a < 0 /\ b < 0 /\ -a = H /\ -b = 1 /\ H \div 1 = H
    BY <2>1, <2>2, <2>3
  <2>5. Quotient(a, b) = (-a) \div (-b)
    BY <2>4 DEF Quotient
  <2>6. QED
    BY <2>4, <2>5 DEF q
<1>11. H >= h
  <2>1. \A i \in Nat \ {0} : \A j \in Nat \ {0} : i * j >= i
    OBVIOUS
  <2>2. WordSize \in Nat \ {0}
    OBVIOUS
  <2>3. QED
    BY <2>1, <2>2 DEF H
<1>12. (b = 0 \/ over) <=> g.f.v
  <2>1. CASE b = 0
    BY <1>4, <1>5, <2>1
  <2>2. CASE b # 0 /\ over
    BY <1>4, <1>5, <2>2 DEF over
  <2>3. CASE b # 0 /\ ~over
    BY <1>4, <1>6, <2>3 DEF over
  <2>4. QED
    BY <2>1, <2>2, <2>3
<1>13. g.f.v \in BOOLEAN
  <2>1. b = 0 \/ over => g.f.v = TRUE
    BY <1>4, <1>5 DEF over
  <2>2. ~(b = 0 \/ over) => g.f.v = FALSE
    BY <1>4, <1>6 DEF over
  <2>3. QED
    BY <2>1, <2>2
<1>14. over /\ b # 0 => q \notin -h .. h - 2
  BY <1>1, <1>7, <1>9, <1>10, <1>11 DEF over
<1>15. ~over /\ b # 0 => q \in -h .. h - 2
  BY <1>7, <1>9 DEF over
<1>16. b # 0 /\ q \in -h .. h - 2 /\ ~(a = -H /\ b = -1) => ~over
  BY <1>7 DEF over
<1>17. ASSUME b # 0, ~over PROVE Signed(WordSize, g.hi) = q /\ Signed(WordSize, g.lo) = rem
  <2>1. q \in -h .. h - 1
    BY <1>15, <1>17
  <2>2. rem \in -h .. h - 1
    <3>1. LET m == IF b < 0 THEN -b ELSE b IN rem \in Int /\ -m < rem /\ rem < m
      <4>1. b \in Int \ {0}
        BY <1>3, <1>17
      <4>2. QED
        BY <1>2, <4>1, Truncates DEF q
    <3> HIDE DEF rem
    <3>2. QED
      BY <1>3, <3>1
  <2> HIDE DEF rem
  <2>3. Signed(WordSize, q % WordSize) = q /\ Signed(WordSize, rem % WordSize) = rem
    BY <2>1, <2>2, SignedBack
  <2>4. g = fits
    BY <1>4, <1>17 DEF over
  <2>5. QED
    BY <1>6, <2>3, <2>4
<1> HIDE DEF rem
<1> SUFFICES /\ g.f.v => b = 0 \/ q \notin -h .. h - 2
             /\ ~g.f.v => /\ b # 0 /\ q \in -h .. h - 2
                          /\ Signed(WordSize, g.hi) = q /\ Signed(WordSize, g.lo) = rem
             /\ b # 0 /\ q \in -h .. h - 2 /\ ~(a = -H /\ b = -1) => ~g.f.v
  BY <1>1, <1>2, <1>3, <1>13 DEF a, b, g, q, rem
<1>18. QED
  BY <1>12, <1>14, <1>15, <1>16, <1>17

LEMMA DivideFinished ==
  ASSUME GuestInv, Finished("divide")
  PROVE  LET y == Value(2)
             q == Signed(WordSize, r[0])
             rem == Signed(WordSize, r[1])
             dividend == Pair(Was(0), Was(1))
             largest == Half(WordSize) - 1
         IN  IF f.v
             THEN /\ r[0] = Was(0) /\ r[1] = Was(1)
                  /\ y = 0 \/ Quotient(dividend, y) \notin -Half(WordSize) .. largest - 1
             ELSE /\ y # 0
                  /\ q * y + rem = dividend
                  /\ rem * rem < y * y
                  /\ rem = 0 \/ (rem < 0) = (dividend < 0)
<1>1. prog.code = DivideOnce /\ Sound(Origin) /\ r = Ran(Len(prog.code)).r /\ f = Ran(Len(prog.code)).f
  <2>1. "divide" \in DOMAIN CodeOf /\ CodeOf["divide"] = {DivideOnce}
    BY DEF CodeOf
  <2>2. QED
    BY <2>1, FinishedAs
<1>2. Len(prog.code) = 1 /\ prog.code[1] = Op("div", Reg(0), Reg(2))
  BY <1>1 DEF DivideOnce
<1>3. Ran(1) = Turn(Origin, 1)
  BY DEF Ran
<1>4. /\ Was(0) \in Word /\ Was(1) \in Word /\ Was(2) \in Word
      /\ Origin.r[0] = Was(0) /\ Origin.r[1] = Was(1) /\ Origin.r[2] = Was(2)
  BY <1>1, OriginWords
<1>5. PICK h \in Nat \ {0} : WordSize = 2 * h /\ Half(WordSize) = h
  BY WordPower
<1> DEFINE g == Div(Was(0), Was(1), Was(2), Origin.f)
           a == Pair(Was(0), Was(1))
           b == Signed(WordSize, Was(2))
           q == Quotient(a, b)
           rem == a - b * q
<1>6. /\ f = g.f
      /\ g.f.v => r[0] = Was(0) /\ r[1] = Was(1)
      /\ ~g.f.v => r[0] = g.hi /\ r[1] = g.lo
  BY <1>1, <1>2, <1>3, <1>4, ExtendedTurn
<1>7. /\ a \in Int /\ b \in -h .. h - 1
      /\ g.f.v => b = 0 \/ q \notin -h .. h - 2
      /\ ~g.f.v => b # 0 /\ Signed(WordSize, g.hi) = q /\ Signed(WordSize, g.lo) = rem
  BY <1>4, <1>5, DivIsExact
<1> HIDE DEF g, a, b, q, rem
<1>8. Value(2) = b
  BY DEF Value, b
<1>9. CASE f.v
  <2>1. b = 0 \/ q \notin -h .. h - 2
    BY <1>6, <1>7, <1>9
  <2>2. (h - 1) - 1 = h - 2
    OBVIOUS
  <2>3. Half(WordSize) - 1 - 1 = h - 2
    BY <1>5
  <2>4. b = 0 \/ q \notin -Half(WordSize) .. Half(WordSize) - 1 - 1
    BY <1>5, <2>1, <2>3
  <2>5. QED
    BY <1>6, <1>8, <1>9, <2>4 DEF a, q
<1>10. CASE ~f.v
  <2>1. b # 0 /\ Signed(WordSize, r[0]) = q /\ Signed(WordSize, r[1]) = rem
    BY <1>6, <1>7, <1>10
  <2> DEFINE m == IF b < 0 THEN -b ELSE b
  <2>2. /\ q \in Int /\ rem \in Int /\ a = b * q + rem
        /\ -m < rem /\ rem < m /\ (rem = 0 \/ (rem < 0 <=> a < 0))
    <3>1. b \in Int \ {0}
      BY <1>7, <2>1
    <3>2. QED
      BY <1>7, <3>1, Truncates DEF q, rem
  <2>3. q * b + rem = a
    <3>1. q * b = b * q
      BY <1>7, <2>2
    <3>2. QED
      BY <2>2, <3>1
  <2>4. rem * rem < b * b
    <3>1. m - rem > 0 /\ m + rem > 0 /\ m \in Int /\ m - rem \in Int /\ m + rem \in Int
      BY <1>7, <2>2
    <3>2. \A i \in Int : \A j \in Int : i > 0 /\ j > 0 => i * j > 0
      OBVIOUS
    <3>3. (m - rem) * (m + rem) > 0
      BY <3>1, <3>2
    <3>4. m * m = b * b
      <4>1. \A i \in Int : (-i) * (-i) = i * i
        OBVIOUS
      <4>2. QED
        BY <1>7, <4>1
    <3> HIDE DEF m
    <3>5. (m - rem) * (m + rem) = m * m - rem * rem
      BY <2>2, <3>1
    <3>6. m * m \in Int /\ rem * rem \in Int
      BY <2>2, <3>1
    <3>7. QED
      BY <3>3, <3>4, <3>5, <3>6
  <2>5. rem = 0 \/ (rem < 0) = (a < 0)
    <3>1. CASE rem < 0
      BY <1>7, <2>2, <3>1
    <3>2. CASE ~(rem < 0)
      BY <1>7, <2>2, <3>2
    <3>3. QED
      BY <3>1, <3>2
  <2>6. QED
    BY <1>8, <1>10, <2>1, <2>3, <2>4, <2>5 DEF a
<1>11. QED
  BY <1>9, <1>10

LEMMA ProductFinished ==
  ASSUME GuestInv, Finished("product")
  PROVE  \/ Value(2) = 0 \/ Value(0) = Half(WordSize) - 1
         \/ ~f.v /\ Signed(WordSize, r[0]) = Value(0) /\ Signed(WordSize, r[1]) = 0
<1> DEFINE s == Turn(Origin, 1)
           x == Signed(WordSize, Was(0))
           y == Signed(WordSize, Was(2))
           d == x * y
           p == Mul(Was(0), Was(2))
<1>1. prog.code = MultiplyDivide /\ Sound(Origin) /\ r = Ran(Len(prog.code)).r /\ f = Ran(Len(prog.code)).f
  <2>1. "product" \in DOMAIN CodeOf /\ CodeOf["product"] = {MultiplyDivide}
    BY DEF CodeOf
  <2>2. QED
    BY <2>1, FinishedAs
<1>2. /\ Len(prog.code) = 2 /\ prog.code[1] = Op("mul", Reg(0), Reg(2))
      /\ prog.code[2] = Op("div", Reg(0), Reg(2))
  BY <1>1 DEF MultiplyDivide
<1>3. Ran(2) = Turn(s, 2) /\ Sound(s)
  BY <1>2, SoundTurns DEF Ran
<1>4. Was(0) \in Word /\ Was(2) \in Word /\ Origin.r[0] = Was(0) /\ Origin.r[2] = Was(2)
  BY <1>1, OriginWords
<1>5. PICK h \in Nat \ {0} : WordSize = 2 * h /\ Half(WordSize) = h
  BY WordPower
<1>6. s.r[2] = Was(2) /\ s.r[0] = p.hi /\ s.r[1] = p.lo
  BY <1>1, <1>2, <1>4, ExtendedTurn
<1>7. x \in -h .. h - 1 /\ y \in -h .. h - 1
  <2>1. Was(0) \in Operand(2 * h) /\ Was(2) \in Operand(2 * h)
    BY <1>4, <1>5 DEF Word, Operand
  <2>2. QED
    BY <1>5, <2>1, SignedResidue
<1> DEFINE H == h * WordSize
<1>8. H \in Nat \ {0} /\ DoubleSize = 2 * H /\ Half(DoubleSize) = H
  BY <1>5, PairSizes
<1> HIDE DEF s, x, y
<1>9. d \in Int /\ d <= h * h /\ -(h * h) <= d /\ h * h \in Nat \ {0}
  BY <1>7, ProductFits
<1>10. H = 2 * (h * h)
  BY <1>5
<1>11. d \in -H .. H - 1 /\ d # -H
  <2> DEFINE hh == h * h
  <2>1. d \in Int /\ d <= hh /\ -hh <= d /\ hh \in Nat \ {0} /\ H = 2 * hh
    BY <1>9, <1>10
  <2> HIDE DEF d, hh, H
  <2>2. QED
    BY <2>1
<1> HIDE DEF d, H
<1>12. p.hi \in Word /\ p.lo \in Word /\ p.hi * WordSize + p.lo = d % DoubleSize
  <2>1. \E cc : p = InPair(d, cc)
    BY DEF Mul, d, x, y
  <2>2. QED
    BY <1>9, <2>1, PairKeeps
<1> HIDE DEF p
<1>13. Pair(p.hi, p.lo) = d
  <2>1. Signed(DoubleSize, d % DoubleSize) = d
    BY <1>8, <1>11, SignedBack
  <2>2. QED
    BY <1>12, <2>1 DEF Pair
<1> DEFINE g == Div(p.hi, p.lo, Was(2), s.f)
<1>14. /\ f = g.f
       /\ ~g.f.v => r[0] = g.hi /\ r[1] = g.lo
  BY <1>1, <1>2, <1>3, <1>6, ExtendedTurn
<1> DEFINE q == Quotient(d, y)
<1>15. /\ ~g.f.v => Signed(WordSize, g.hi) = q /\ Signed(WordSize, g.lo) = d - y * q
       /\ y # 0 /\ q \in -h .. h - 2 /\ d # -H => ~g.f.v
  BY <1>4, <1>5, <1>8, <1>12, <1>13, DivIsExact DEF y
<1>16. y # 0 => q = x
  <2>1. y # 0 => y \in Int \ {0}
    BY <1>7
  <2>2. x \in Int
    BY <1>7
  <2>3. QED
    BY <2>1, <2>2, ProductDivides DEF d
<1> HIDE DEF g, q
<1>17. Value(2) = y /\ Value(0) = x
  BY DEF Value, x, y
<1>18. ASSUME y # 0, x # h - 1 PROVE ~f.v /\ Signed(WordSize, r[0]) = x /\ Signed(WordSize, r[1]) = 0
  <2>1. q = x /\ q \in -h .. h - 2
    BY <1>7, <1>16, <1>18
  <2>2. ~g.f.v
    BY <1>11, <1>15, <1>18, <2>1
  <2>3. d - y * q = 0
    <3>1. y * x = x * y /\ x * y \in Int
      BY <1>7
    <3>2. QED
      BY <2>1, <3>1 DEF d
  <2>4. QED
    BY <1>14, <1>15, <2>1, <2>2, <2>3
<1>19. QED
  BY <1>5, <1>17, <1>18

LEMMA DivisionHolds == ASSUME GuestInv PROVE DivideExact
  BY DivideFinished, ProductFinished DEF DivideExact

(* Whatever the programs compute on two words, by shifts of a count and by *)
(* division, is what the same arithmetic gives on integers.                *)
THEOREM ArithmeticAlwaysExact == InstrSpec => []ArithmeticExact
<1>1. GuestInv => ArithmeticExact
  BY DoubleWordHolds, ShiftsHold, DivisionHolds DEF ArithmeticExact
<1>2. QED
  BY <1>1, GuestInvariant, PTL

-----------------------------------------------------------------------------
(* The machine of a floating-point instruction: it goes on, having changed *)
(* at most FEC, the traps and ER, or it has been refused.                  *)
Fields ==
  {"fr", "fps", "fec", "cell", "whole", "saved", "codes", "traps", "ok", "src", "fac", "rest", "newV"}
Formed(m) == m = [p \in Fields |-> m[p]]
Going(m) == Formed(m) /\ m.ok = TRUE /\ "int" \notin m.traps
Untouched(s, m) ==
  m.fr = s.fr /\ m.cell = s.cell /\ m.whole = s.whole /\ m.fps \in {s.fps, s.fps \cup {"er"}}
Calm(s, m) == Going(m) /\ Untouched(s, m)
Stopped(s, m) ==
  /\ m.ok = FALSE /\ Untouched(s, m) /\ m.fps = s.fps \cup {"er"}
  /\ m.fec \in {"op", "dzro", "undfv"}
Clean(s, m) == Going(m) \/ Stopped(s, m)

LEMMA CalmTwice ==
  ASSUME NEW s, NEW m, NEW t, Calm(s, m), Calm(m, t) PROVE Calm(s, t)
  BY DEF Calm, Untouched

LEMMA CleanAfter ==
  ASSUME NEW s, NEW m, NEW t, Calm(s, m), Clean(m, t) PROVE Clean(s, t)
  BY DEF Calm, Untouched, Clean, Stopped

LEMMA SignalCalm ==
  ASSUME NEW m, Going(m), NEW code
  PROVE  Calm(m, Signal(m, code)) /\ (~Masked(m, code) => Signal(m, code).fec = code /\ Signal(m, code).fps = m.fps \cup {"er"})
<1> DEFINE tr == IF "id" \in m.fps THEN m.traps ELSE m.traps \cup {"fpe"}
           on == m.fps \cup {"er"}
           t == [m EXCEPT !.fps = on, !.fec = code, !.traps = tr]
<1>1. "int" \notin tr
  BY DEF Going
<1>2. Signal(m, code) = IF Masked(m, code) THEN m ELSE t
  BY DEF Signal
<1>3. Calm(m, m)
  BY DEF Calm, Untouched
<1> HIDE DEF tr, on
<1>4. /\ Going(t) /\ t.fr = m.fr /\ t.cell = m.cell /\ t.whole = m.whole
      /\ t.fps = on /\ t.fec = code
  BY <1>1 DEF Going, Formed, Fields
<1> HIDE DEF t
<1>5. QED
  BY <1>2, <1>3, <1>4 DEF Calm, Untouched, on

LEMMA RefuseStops ==
  ASSUME NEW m, Going(m), NEW code \in {"op", "dzro", "undfv"}, ~Masked(m, code)
  PROVE  Stopped(m, Refuse(m, code))
<1> DEFINE t == Signal(m, code)
           tr == t.traps \cup {"int"}
           u == [t EXCEPT !.ok = FALSE, !.traps = tr]
<1>1. Calm(m, t) /\ t.fec = code /\ t.fps = m.fps \cup {"er"}
  BY SignalCalm
<1>2. Refuse(m, code) = u
  BY DEF Refuse
<1> HIDE DEF t, tr
<1>3. u.fr = t.fr /\ u.cell = t.cell /\ u.whole = t.whole /\ u.fps = t.fps /\ u.fec = t.fec /\ u.ok = FALSE
  BY <1>1 DEF Calm, Going, Formed, Fields
<1> HIDE DEF u
<1>4. QED
  BY <1>1, <1>2, <1>3 DEF Stopped, Calm, Untouched

LEMMA NeverMasked ==
  ASSUME NEW m PROVE ~Masked(m, "op") /\ ~Masked(m, "dzro")
  BY DEF Masked, EnableBit

(* What a calculation returns.                                             *)
LEMMA ReturnedCalm ==
  ASSUME NEW m, Going(m), NEW x, NEW v PROVE Calm(m, Returned(m, x, v))
  BY DEF Returned, Calm, Going, Formed, Fields, Untouched

LEMMA InRangeCalm ==
  ASSUME NEW m, Going(m), NEW x, NEW code, NEW v PROVE Calm(m, InRange(m, x, code, v))
<1> DEFINE t == Signal(m, code)
           y == IF Masked(m, code) THEN ZeroFac ELSE x
<1>1. Calm(m, t)
  BY SignalCalm
<1>2. InRange(m, x, code, v) = Returned(t, y, v)
  BY DEF InRange
<1> HIDE DEF t, y
<1>3. Calm(t, Returned(t, y, v))
  BY <1>1, ReturnedCalm DEF Calm
<1>4. QED
  BY <1>1, <1>2, <1>3, CalmTwice

LEMMA PackCalm ==
  ASSUME NEW m, Going(m), NEW neg, NEW e, NEW frac PROVE Calm(m, Pack(m, neg, e, frac))
<1> DEFINE x == [neg |-> neg, exp |-> e % Exps, frac |-> (frac \div 2 ^ Guard) % Hidden]
<1>1. Pack(m, neg, e, frac) =
        CASE e >= Exps -> InRange(m, x, "ovflo", TRUE)
          [] e <= 0 -> InRange(m, x, "unflo", FALSE)
          [] OTHER -> Returned(m, x, FALSE)
  BY DEF Pack
<1> HIDE DEF x
<1>2. Pack(m, neg, e, frac) \in {InRange(m, x, "ovflo", TRUE), InRange(m, x, "unflo", FALSE), Returned(m, x, FALSE)}
  BY <1>1
<1>3. QED
  BY <1>2, InRangeCalm, ReturnedCalm

LEMMA RoundAndPackCalm ==
  ASSUME NEW m, Going(m), NEW neg, NEW e, NEW frac, NEW round
  PROVE  Calm(m, RoundAndPack(m, neg, e, frac, round))
  BY PackCalm DEF RoundAndPack

LEMMA SettleCalm ==
  ASSUME NEW m, Going(m), NEW neg, NEW n, NEW round PROVE Calm(m, Settle(m, neg, n, round))
  BY RoundAndPackCalm DEF Settle

LEMMA RoundCalm ==
  ASSUME NEW m, Going(m), NEW x PROVE Calm(m, roundfp11(m, x))
<1> DEFINE g == Magnitude(x) + LastBit("long") \div 2
           y == [neg |-> x.neg, exp |-> (g \div Hidden) % Exps, frac |-> g % Hidden]
<1>1. roundfp11(m, x) = IF g >= Exps * Hidden THEN InRange(m, y, "ovflo", TRUE) ELSE Returned(m, y, FALSE)
  BY DEF roundfp11
<1> HIDE DEF g, y
<1>2. QED
  BY <1>1, InRangeCalm, ReturnedCalm

LEMMA AddCalm ==
  ASSUME NEW m, Going(m), NEW x, NEW y PROVE Calm(m, addfp11(m, x, y))
<1> DEFINE a == IF Magnitude(x) < Magnitude(y) THEN y ELSE x
           b == IF Magnitude(x) < Magnitude(y) THEN x ELSE y
           ediff == a.exp - b.exp
           aligned == Guarded(b) \div 2 ^ ediff
           total == Guarded(a) + (IF a.neg = b.neg THEN aligned ELSE -aligned)
           sum == IF total = 0 THEN Returned(m, ZeroFac, FALSE)
                  ELSE Settle(m, a.neg, Normalised(a.exp, total), TRUE)
<1>1. addfp11(m, x, y) =
        CASE a.exp = 0 -> Returned(m, ZeroFac, FALSE)
          [] a.exp # 0 /\ (b.exp = 0 \/ ediff > GuardedBits) -> Returned(m, a, FALSE)
          [] OTHER -> sum
  BY DEF addfp11
<1> HIDE DEF a, b, ediff, total
<1>2. Calm(m, sum)
  BY ReturnedCalm, SettleCalm
<1> HIDE DEF sum
<1>3. addfp11(m, x, y) \in {Returned(m, ZeroFac, FALSE), Returned(m, a, FALSE), sum}
  BY <1>1
<1>4. QED
  BY <1>2, <1>3, ReturnedCalm

LEMMA ModCalm ==
  ASSUME NEW m, Going(m), NEW x, NEW y PROVE Calm(m, modfp11(m, x, y))
<1> DEFINE p == TimesFrac(x, y)
           neg == x.neg # y.neg
           unit == 2 ^ (GuardedBits - (p.exp - Bias))
           part == p.frac % unit
           whole0 == RoundAndPack(m, neg, p.exp, p.frac - part, FALSE)
           frac0 == Settle(m, neg, Normalised(Bias, part * 2 ^ (p.exp - Bias)), TRUE)
           t == RoundAndPack(m, neg, p.exp, p.frac, TRUE)
           long == RoundAndPack(m, neg, p.exp, p.frac, FALSE)
           low == [t EXCEPT !.rest = t.fac, !.fac = ZeroFac]
           left == IF part = 0 THEN ZeroFac ELSE frac0.fac
           both == [whole0 EXCEPT !.rest = left]
<1>2. modfp11(m, x, y) =
        CASE x.exp = 0 \/ y.exp = 0 -> Returned(m, ZeroFac, FALSE)
          [] x.exp # 0 /\ y.exp # 0 /\ p.exp <= Bias -> low
          [] x.exp # 0 /\ y.exp # 0
             /\ p.exp > Bias + (IF "d" \in m.fps THEN DoubleBits ELSE SingleBits) -> long
          [] OTHER -> both
  BY DEF modfp11
<1> HIDE DEF p, neg, part, frac0
<1>3. Calm(m, t) /\ Calm(m, long) /\ Calm(m, whole0)
  BY RoundAndPackCalm
<1> HIDE DEF t, long, whole0, left
<1>4. Calm(m, low) /\ Calm(m, both)
  <2>1. Calm(m, both)
    BY <1>3 DEF Calm, Going, Formed, Fields, Untouched
  <2> DEFINE z == t.fac
             u == [t EXCEPT !.rest = z]
  <2> HIDE DEF z
  <2>2. Calm(m, u)
    BY <1>3 DEF Calm, Going, Formed, Fields, Untouched
  <2>3. low = [u EXCEPT !.fac = ZeroFac]
    BY DEF z
  <2> HIDE DEF u, low
  <2>4. Calm(m, low)
    BY <2>2, <2>3 DEF Calm, Going, Formed, Fields, Untouched
  <2>5. QED
    BY <2>1, <2>4
<1> HIDE DEF low, both
<1>5. modfp11(m, x, y) \in {Returned(m, ZeroFac, FALSE), low, long, both}
  BY <1>2
<1>6. QED
  BY <1>3, <1>4, <1>5, ReturnedCalm

LEMMA DivCalm ==
  ASSUME NEW m, Going(m), NEW x, NEW y
  PROVE  LET t == divfp11(m, x, y) IN Calm(m, t) \/ Stopped(m, t)
<1> DEFINE q == Settle(m, x.neg # y.neg, QuotientFrac(m, x, y), TRUE)
<1>1. divfp11(m, x, y) =
        CASE y.exp = 0 -> Refuse(m, "dzro")
          [] y.exp # 0 /\ x.exp = 0 -> Returned(m, ZeroFac, FALSE)
          [] y.exp # 0 /\ x.exp # 0 -> q
  BY DEF divfp11
<1>2. Calm(m, q)
  BY SettleCalm
<1> HIDE DEF q
<1>3. divfp11(m, x, y) \in {Refuse(m, "dzro"), Returned(m, ZeroFac, FALSE), q}
  BY <1>1
<1>4. QED
  BY <1>2, <1>3, NeverMasked, RefuseStops, ReturnedCalm

LEMMA FccClean ==
  ASSUME NEW s, NEW m, Clean(s, m), NEW x, NEW v PROVE Clean(s, WithFcc(m, x, v))
<1> DEFINE codes == setfcc(m.fps, x, v)
           t == [m EXCEPT !.fps = codes]
<1>1. WithFcc(m, x, v) = IF m.ok THEN t ELSE m
  BY DEF WithFcc
<1> HIDE DEF codes
<1>2. CASE m.ok
  <2>1. Going(m)
    BY <1>2 DEF Clean, Stopped
  <2>2. Going(t)
    BY <2>1 DEF Going, Formed, Fields
  <2> HIDE DEF t
  <2>3. QED
    BY <1>1, <1>2, <2>2 DEF Clean
<1>3. CASE ~m.ok
  BY <1>1, <1>3
<1>4. QED
  BY <1>2, <1>3

LEMMA StoreGoing ==
  ASSUME NEW m, Going(m), NEW ac, NEW x PROVE Going(StoreAc(m, ac, x))
<1> DEFINE new == [m.fr EXCEPT ![ac] = Over(x, @, Len0(m))]
           t == [m EXCEPT !.fr = new]
<1>1. StoreAc(m, ac, x) = t
  BY DEF StoreAc
<1> HIDE DEF new
<1>2. Going(t)
  BY DEF Going, Formed, Fields
<1>3. QED
  BY <1>1, <1>2

LEMMA GeteaEnds ==
  ASSUME NEW m, Going(m), NEW dst
  PROVE  GeteaFP(m, dst) = m \/ Stopped(m, GeteaFP(m, dst))
  BY NeverMasked, RefuseStops DEF GeteaFP

LEMMA OperandReadEnds ==
  ASSUME NEW m, Going(m), NEW dst, NEW len
  PROVE  LET t == ReadFP(m, dst, len) IN Calm(m, t) \/ Stopped(m, t)
<1> DEFINE t == GeteaFP(m, dst)
           x == Narrow(IF dst.kind = "ac" THEN t.fr[dst.n] ELSE t.cell, LenOf(dst, len))
           undefined == dst.kind # "ac" /\ x.neg /\ x.exp = 0
           read == [t EXCEPT !.src = x]
<1>1. ReadFP(m, dst, len) = IF ~t.ok THEN t
                            ELSE IF undefined /\ ~Masked(t, "undfv") THEN Refuse(t, "undfv")
                            ELSE read
  BY DEF ReadFP
<1>2. t = m \/ Stopped(m, t)
  BY GeteaEnds
<1> HIDE DEF t, x, undefined
<1>3. CASE t = m
  <2>1. Calm(m, read)
    BY <1>3 DEF Calm, Going, Formed, Fields, Untouched
  <2> HIDE DEF read
  <2>2. ~Masked(t, "undfv") => Stopped(m, Refuse(t, "undfv"))
    BY <1>3, RefuseStops
  <2>3. QED
    BY <1>1, <1>2, <1>3, <2>1, <2>2 DEF Going
<1>4. CASE Stopped(m, t)
  BY <1>1, <1>4 DEF Stopped
<1>5. QED
  BY <1>2, <1>3, <1>4

LEMMA WriteClean ==
  ASSUME NEW m, Going(m), NEW dst, NEW x, NEW len PROVE Clean(m, WriteFP(m, dst, x, len))
<1> DEFINE t == GeteaFP(m, dst)
           regs == [t.fr EXCEPT ![dst.n] = Over(x, @, len)]
           there == Over(x, t.cell, LenOf(dst, len))
           u == [t EXCEPT !.fr = regs]
           v == [t EXCEPT !.cell = there]
<1>1. WriteFP(m, dst, x, len) = IF ~t.ok THEN t ELSE IF dst.kind = "ac" THEN u ELSE v
  BY DEF WriteFP
<1>2. t = m \/ Stopped(m, t)
  BY GeteaEnds
<1> HIDE DEF t, regs, there
<1>3. CASE t = m
  <2>1. Going(u) /\ Going(v)
    BY <1>3 DEF Going, Formed, Fields
  <2> HIDE DEF u, v
  <2>2. t.ok
    BY <1>3 DEF Going
  <2>3. QED
    BY <1>1, <2>1, <2>2 DEF Clean
<1>4. CASE Stopped(m, t)
  BY <1>1, <1>4 DEF Stopped, Clean
<1>5. QED
  BY <1>2, <1>3, <1>4

(* The instructions.                                                       *)
LEMMA CalculatedEnds ==
  ASSUME NEW m, Going(m), NEW op \in {"add", "sub", "mul", "div", "mod"}, NEW fac
  PROVE  LET t == Calculated(m, op, fac) IN Calm(m, t) \/ Stopped(m, t)
<1> DEFINE t == Calculated(m, op, fac)
<1>1. CASE op = "add"
  <2>1. t = addfp11(m, fac, m.src)
    BY <1>1 DEF Calculated
  <2>2. QED
    BY <2>1, AddCalm
<1>2. CASE op = "sub"
  <2> DEFINE y == IF m.src.exp = 0 THEN m.src ELSE Negated(m.src)
  <2>1. t = addfp11(m, fac, y)
    BY <1>2 DEF Calculated
  <2> HIDE DEF y, t
  <2>2. QED
    BY <2>1, AddCalm DEF t
<1>3. CASE op = "mul"
  <2>1. t = mulfp11(m, fac, m.src)
    BY <1>3 DEF Calculated
  <2>2. Calm(m, mulfp11(m, fac, m.src))
    BY ReturnedCalm, SettleCalm DEF mulfp11
  <2>3. QED
    BY <2>1, <2>2
<1>4. CASE op = "div"
  <2>1. t = divfp11(m, fac, m.src)
    BY <1>4 DEF Calculated
  <2>2. QED
    BY <2>1, DivCalm
<1>5. CASE op = "mod"
  <2>1. t = modfp11(m, fac, m.src)
    BY <1>5 DEF Calculated
  <2>2. QED
    BY <2>1, ModCalm
<1>6. QED
  BY <1>1, <1>2, <1>3, <1>4, <1>5

LEMMA CalculateClean ==
  ASSUME NEW m, Going(m), NEW i, i.op \in {"add", "sub", "mul", "div", "mod"}
  PROVE  Clean(m, Calculate(m, i))
<1> DEFINE t == Calculated(m, i.op, LoadAc(m, i.ac))
           both == StoreAc(StoreAc(t, NextAc(i.ac), t.fac), i.ac, t.rest)
           one == StoreAc(t, i.ac, t.fac)
<1>1. Calm(m, t) \/ Stopped(m, t)
  BY CalculatedEnds
<1>2. Calculate(m, i) = IF ~t.ok THEN t
                        ELSE IF i.op = "mod" THEN WithFcc(both, t.rest, t.newV)
                        ELSE WithFcc(one, t.fac, t.newV)
  BY DEF Calculate
<1> HIDE DEF t
<1>3. t.ok => Going(both) /\ Going(one)
  BY <1>1, StoreGoing DEF Calm, Stopped
<1> HIDE DEF both, one
<1>4. t.ok => Clean(m, both) /\ Clean(m, one)
  BY <1>3 DEF Clean
<1>5. ~t.ok => Clean(m, t)
  BY <1>1 DEF Calm, Going, Clean
<1>6. QED
  BY <1>2, <1>4, <1>5, FccClean

LEMMA CompareGoing == ASSUME NEW m, Going(m), NEW i PROVE Going(Compare(m, i))
<1> DEFINE x == Cleaned(m.src)
           y == Cleaned(LoadAc(m, i.ac))
           nearer == x.neg = y.neg /\ Magnitude(x) < Magnitude(y)
           codes == IF x = y THEN {"z"} ELSE IF x.neg # nearer THEN {"n"} ELSE {}
           flags == (m.fps \ FloatCodes) \cup codes
           t == [m EXCEPT !.fps = flags]
<1>1. Compare(m, i) = IF x = y /\ x = ZeroFac THEN StoreAc(t, i.ac, ZeroFac) ELSE t
  BY DEF Compare
<1> HIDE DEF flags, x, y
<1>2. Going(t)
  BY DEF Going, Formed, Fields
<1> HIDE DEF t
<1>3. QED
  BY <1>1, <1>2, StoreGoing

LEMMA ConvertedCalm ==
  ASSUME NEW m, Going(m), NEW x PROVE Calm(m, ToShorter(m, x)) /\ Calm(m, FromLonger(m, x))
  BY RoundCalm, ReturnedCalm DEF ToShorter, FromLonger

(* A result stored in an accumulator, with its codes.                      *)
LEMMA StoredClean ==
  ASSUME NEW s, NEW m, Going(m), NEW ac, NEW x, NEW z, NEW v PROVE Clean(s, WithFcc(StoreAc(m, ac, x), z, v))
<1>1. Clean(s, StoreAc(m, ac, x))
  BY StoreGoing DEF Clean
<1>2. QED
  BY <1>1, FccClean

LEMMA StoreConvertedClean == ASSUME NEW m, Going(m), NEW i PROVE Clean(m, StoreConverted(m, i))
<1> DEFINE t == FromLonger(m, Cleaned(LoadAc(m, i.ac)))
           u == WriteFP(t, i.dst, t.fac, Len1(m))
<1>1. StoreConverted(m, i) = WithFcc(u, t.fac, t.newV)
  BY DEF StoreConverted
<1>2. Calm(m, t)
  BY ConvertedCalm
<1> HIDE DEF t
<1>3. Clean(t, u)
  BY <1>2, WriteClean DEF Calm
<1> HIDE DEF u
<1>4. Clean(m, u)
  BY <1>2, <1>3, CleanAfter
<1>5. QED
  BY <1>1, <1>4, FccClean

LEMMA WrittenClean ==
  ASSUME NEW m, Going(m), NEW dst, NEW x, NEW len, NEW z, NEW v
  PROVE  Clean(m, WithFcc(WriteFP(m, dst, x, len), z, v))
<1>1. Clean(m, WriteFP(m, dst, x, len))
  BY WriteClean
<1>2. QED
  BY <1>1, FccClean

LEMMA SourceClean ==
  ASSUME NEW m, Going(m), NEW i, i.op \in SourceOps PROVE Clean(m, WithSource(m, i))
<1>1. Clean(m, m)
  BY DEF Clean
<1>2. CASE i.op = "tst"
  <2>1. WithSource(m, i) = WithFcc(m, m.src, FALSE)
    BY <1>2 DEF WithSource
  <2>2. QED
    BY <1>1, <2>1, FccClean
<1>3. CASE i.op = "abs"
  <2> DEFINE x == [Cleaned(m.src) EXCEPT !.neg = FALSE]
  <2>1. WithSource(m, i) = WithFcc(WriteFP(m, i.dst, x, Len0(m)), x, FALSE)
    BY <1>3 DEF WithSource
  <2> HIDE DEF x
  <2>2. QED
    BY <2>1, WrittenClean
<1>4. CASE i.op = "neg"
  <2> DEFINE x == IF m.src.exp = 0 THEN ZeroFac ELSE Negated(m.src)
  <2>1. WithSource(m, i) = WithFcc(WriteFP(m, i.dst, x, Len0(m)), x, FALSE)
    BY <1>4 DEF WithSource
  <2> HIDE DEF x
  <2>2. QED
    BY <2>1, WrittenClean
<1>5. CASE i.op = "ld"
  <2>1. WithSource(m, i) = WithFcc(StoreAc(m, i.ac, m.src), m.src, FALSE)
    BY <1>5 DEF WithSource
  <2>2. QED
    BY <2>1, StoredClean
<1>6. CASE i.op = "ldc"
  <2> DEFINE t == ToShorter(m, Cleaned(m.src))
  <2>1. WithSource(m, i) = WithFcc(StoreAc(t, i.ac, t.fac), t.fac, t.newV)
    BY <1>6 DEF WithSource, LoadConverted
  <2>2. Going(t)
    BY ConvertedCalm DEF Calm
  <2> HIDE DEF t
  <2>3. QED
    BY <2>1, <2>2, StoredClean
<1>7. CASE i.op = "cmp"
  <2>1. WithSource(m, i) = Compare(m, i)
    BY <1>7 DEF WithSource
  <2>2. QED
    BY <2>1, CompareGoing DEF Clean
<1>8. CASE i.op \in {"add", "sub", "mul", "div", "mod"}
  <2>1. WithSource(m, i) = Calculate(m, i)
    BY <1>8 DEF WithSource
  <2>2. QED
    BY <1>8, <2>1, CalculateClean
<1>9. QED
  BY <1>2, <1>3, <1>4, <1>5, <1>6, <1>7, <1>8 DEF SourceOps

LEMMA IntegersClean ==
  ASSUME NEW m, Going(m), NEW i
  PROVE  /\ Clean(m, LoadInteger(m, i)) /\ Clean(m, StoreInteger(m, i))
         /\ Clean(m, LoadExponent(m, i)) /\ Clean(m, StoreExponent(m, i))
<1>1. Clean(m, LoadInteger(m, i))
  <2> DEFINE t == ToShorter(m, FloatOf(ReadI(m, i.dst)))
             x == IF ReadI(m, i.dst) = 0 THEN ZeroFac ELSE t.fac
  <2>1. LoadInteger(m, i) = WithFcc(StoreAc(t, i.ac, x), x, FALSE)
    BY DEF LoadInteger
  <2>2. Going(t)
    BY ConvertedCalm DEF Calm
  <2> HIDE DEF t, x
  <2>3. QED
    BY <2>1, <2>2, StoredClean
<1>2. Clean(m, StoreInteger(m, i))
  <2> DEFINE x == LoadAc(m, i.ac)
             bits == IF "l" \in m.fps THEN 2 * IntegerBits ELSE IntegerBits
             size == (Fraction(x) * 2 ^ (x.exp - Bias)) \div 2 ^ DoubleBits
             tooBig == \/ x.exp > Bias + bits
                       \/ x.exp > Bias /\ size >= 2 ^ (bits - 1) + (IF x.neg THEN 1 ELSE 0)
             value == IF x.exp <= Bias \/ tooBig THEN 0 ELSE IF x.neg THEN -size ELSE size
             codes == (IF value < 0 THEN {"n"} ELSE {}) \cup (IF value = 0 THEN {"z"} ELSE {})
                        \cup (IF tooBig THEN {"c"} ELSE {})
             t == IF tooBig THEN Signal(m, "icvt") ELSE m
             flags == (t.fps \ FloatCodes) \cup codes
             u == [t EXCEPT !.fps = flags, !.codes = codes]
  <2>1. StoreInteger(m, i) = WriteI(u, i.dst, value)
    BY DEF StoreInteger
  <2> HIDE DEF value, tooBig, codes
  <2>2. Going(t)
    BY SignalCalm DEF Calm
  <2> HIDE DEF t, flags
  <2>3. Going(u)
    BY <2>2 DEF Going, Formed, Fields
  <2> HIDE DEF u
  <2> DEFINE high == (IF "l" \in u.fps THEN High(value) ELSE value) * IntWords + (u.whole % IntWords)
             long == [u EXCEPT !.whole = value]
             short == [u EXCEPT !.whole = high]
  <2>4. WriteI(u, i.dst, value) \in {long, short}
    BY DEF WriteI
  <2> HIDE DEF high
  <2>5. Going(long) /\ Going(short)
    BY <2>3 DEF Going, Formed, Fields
  <2>6. QED
    BY <2>1, <2>4, <2>5 DEF Clean
<1>3. Clean(m, LoadExponent(m, i))
  <2> DEFINE e == High(m.whole)
             x == [LoadAc(m, i.ac) EXCEPT !.exp = (e + Bias) % Exps]
             t == CASE e >= Bias -> InRange(m, x, "ovflo", TRUE)
                    [] e <= -Bias -> InRange(m, x, "unflo", FALSE)
                    [] OTHER -> Returned(m, x, FALSE)
  <2>1. LoadExponent(m, i) = WithFcc(StoreAc(t, i.ac, t.fac), t.fac, t.newV)
    BY DEF LoadExponent
  <2> HIDE DEF e, x
  <2>2. t \in {InRange(m, x, "ovflo", TRUE), InRange(m, x, "unflo", FALSE), Returned(m, x, FALSE)}
    OBVIOUS
  <2> HIDE DEF t
  <2>3. Going(t)
    BY <2>2, InRangeCalm, ReturnedCalm DEF Calm
  <2>4. QED
    BY <2>1, <2>3, StoredClean
<1>4. Clean(m, StoreExponent(m, i))
  <2> DEFINE e == m.fr[i.ac].exp - Bias
             codes == (IF e < 0 THEN {"n"} ELSE {}) \cup (IF e = 0 THEN {"z"} ELSE {})
             flags == (m.fps \ FloatCodes) \cup codes
             words == e * IntWords + (m.whole % IntWords)
             t == [m EXCEPT !.fps = flags, !.codes = codes, !.whole = words]
  <2>1. StoreExponent(m, i) = t
    BY DEF StoreExponent
  <2> HIDE DEF e, codes, flags, words
  <2>2. Going(t)
    BY DEF Going, Formed, Fields
  <2>3. QED
    BY <2>1, <2>2 DEF Clean
<1>5. QED
  BY <1>1, <1>2, <1>3, <1>4

LEMMA StatusGoing == ASSUME NEW m, Going(m), NEW op \in StatusOps PROVE Going(StatusOp(m, op))
<1>1. \A x : /\ Going([m EXCEPT !.codes = x]) /\ Going([m EXCEPT !.fps = x]) /\ Going([m EXCEPT !.saved = x])
  BY DEF Going, Formed, Fields
<1>2. StatusOp(m, op) \in {[m EXCEPT !.codes = m.fps \cap FloatCodes], [m EXCEPT !.fps = m.fps \ {"d"}],
                           [m EXCEPT !.fps = m.fps \ {"l"}], [m EXCEPT !.fps = m.fps \cup {"d"}],
                           [m EXCEPT !.fps = m.fps \cup {"l"}],
                           [m EXCEPT !.fps = m.saved \cap StatusFlags], [m EXCEPT !.saved = m.fps],
                           [m EXCEPT !.saved = {m.fec}]}
  BY DEF StatusOp, StatusOps
<1>3. QED
  BY <1>1, <1>2

LEMMA InstructionClean == ASSUME NEW m, Going(m), NEW i PROVE Clean(m, fp11(m, i))
<1>1. CASE i.op \in StatusOps
  <2>1. fp11(m, i) = StatusOp(m, i.op)
    BY <1>1 DEF fp11, StatusOps, SourceOps
  <2>2. QED
    BY <1>1, <2>1, StatusGoing DEF Clean
<1>2. CASE i.op \in SourceOps
  <2> DEFINE t == ReadFP(m, i.dst, IF i.op = "ldc" THEN Len1(m) ELSE Len0(m))
  <2>1. fp11(m, i) = IF t.ok THEN WithSource(t, i) ELSE t
    BY <1>2 DEF fp11, StatusOps, SourceOps
  <2>2. Calm(m, t) \/ Stopped(m, t)
    BY OperandReadEnds
  <2> HIDE DEF t
  <2>3. CASE Calm(m, t)
    <3>1. Clean(t, WithSource(t, i)) /\ t.ok
      BY <1>2, <2>3, SourceClean DEF Calm, Going
    <3>2. QED
      BY <2>1, <2>3, <3>1, CleanAfter
  <2>4. CASE Stopped(m, t)
    BY <2>1, <2>4 DEF Stopped, Clean
  <2>5. QED
    BY <2>2, <2>3, <2>4
<1>3. CASE i.op = "clr"
  <2>1. fp11(m, i) = WithFcc(WriteFP(m, i.dst, ZeroFac, Len0(m)), ZeroFac, FALSE)
    BY <1>3 DEF fp11, StatusOps, SourceOps
  <2>2. QED
    BY <2>1, WrittenClean
<1>4. CASE i.op = "st"
  <2>1. fp11(m, i) = WriteFP(m, i.dst, LoadAc(m, i.ac), Len0(m))
    BY <1>4 DEF fp11, StatusOps, SourceOps
  <2>2. QED
    BY <2>1, WriteClean
<1>5. CASE i.op = "stc"
  BY <1>5, StoreConvertedClean DEF fp11, StatusOps, SourceOps
<1>6. CASE i.op \in {"ldexp", "stexp", "ldci", "stci"}
  <2>1. fp11(m, i) \in {LoadExponent(m, i), StoreExponent(m, i), LoadInteger(m, i), StoreInteger(m, i)}
    BY <1>6 DEF fp11, StatusOps, SourceOps
  <2>2. QED
    BY <2>1, IntegersClean
<1>7. CASE i.op \notin StatusOps \cup SourceOps \cup {"clr", "st", "stc", "ldexp", "stexp", "ldci", "stci"}
  <2>1. fp11(m, i) = Signal(m, "op")
    BY <1>7 DEF fp11
  <2>2. QED
    BY <2>1, SignalCalm DEF Calm, Clean
<1>8. QED
  BY <1>1, <1>2, <1>3, <1>4, <1>5, <1>6, <1>7

-----------------------------------------------------------------------------
FloatSpec == (FloatInit \/ FloatRest) /\ [][Fp11]_fpVars

(* The operands of an instruction that has not been executed are those it  *)
(* will find.                                                              *)
FloatInv ==
  /\ Refused
  /\ ~done => /\ fr = before.fr /\ fps = before.fps /\ cell = before.cell /\ whole = before.whole
              /\ fpTraps = {}

(* A floating-point instruction that aborts, for an operand that is not    *)
(* there, an undefined variable or a division by zero, has changed nothing *)
(* but the error it reports, wherever in its course it was refused.        *)
THEOREM RefusalIsClean == FloatSpec => [](done /\ before.op # "none" => Refused)
<1>1. FloatInit \/ FloatRest => FloatInv
  BY DEF FloatInit, FloatRest, FloatInv, Refused
<1>2. FloatInv /\ [Fp11]_fpVars => FloatInv'
  <2> SUFFICES ASSUME FloatInv, [Fp11]_fpVars PROVE FloatInv'
    OBVIOUS
  <2>1. CASE UNCHANGED fpVars
    BY <2>1 DEF FloatInv, Refused, fpVars
  <2>2. CASE Fp11
    <3> DEFINE m == fp11(Machine, before)
    <3>1. ~done /\ done' /\ fr' = m.fr /\ fps' = m.fps /\ fec' = m.fec /\ cell' = m.cell
          /\ whole' = m.whole /\ fpTraps' = m.traps /\ before' = before
      BY <2>2 DEF Fp11
    <3>2. Going(Machine) /\ Machine.fr = fr /\ Machine.fps = fps /\ Machine.cell = cell /\ Machine.whole = whole
      BY DEF Machine, Going, Formed, Fields
    <3>3. Clean(Machine, m)
      BY <3>2, InstructionClean
    <3>4. fr = before.fr /\ fps = before.fps /\ cell = before.cell /\ whole = before.whole
      BY <3>1 DEF FloatInv
    <3> HIDE DEF m
    <3>5. Refused'
      BY <3>1, <3>2, <3>3, <3>4 DEF Clean, Going, Stopped, Untouched, Refused
    <3>6. QED
      BY <3>1, <3>5 DEF FloatInv
  <2>3. QED
    BY <2>1, <2>2
<1>3. FloatInv => (done /\ before.op # "none" => Refused)
  BY DEF FloatInv
<1>4. QED
  BY <1>1, <1>2, <1>3, PTL DEF FloatSpec
=============================================================================
