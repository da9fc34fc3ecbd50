------------------------------- MODULE CpuMode -------------------------------
(***************************************************************************)
(* How src/src/simh/pdp11_cpu.c keeps the registers of RegisterBanks: the  *)
(* active ones in R[0..5] and SP, the others in REGFILE and STACKFILE,     *)
(* with copies made when the mode or the set changes, and all of them in   *)
(* REGFILE and STACKFILE while the simulator is stopped.  isenable and     *)
(* dsenable cache the address space of the current mode.                   *)
(***************************************************************************)
EXTENDS Integers

CONSTANTS ModeBit, RegValue, Words,  \* see RegisterBanks
          Mmr3Data                   \* what a guest stores in MMR3

ASSUME ModeAssumption == 1 \in ModeBit
ASSUME WordsAssumption == Words \in Nat /\ Words > 2
ASSUME Mmr3Assumption == Mmr3Data \subseteq SUBSET {"KDS", "SDS", "UDS", "CSM"}

VARIABLES
  cm, pm, rs,   \* the modes and the set; in PSW while the simulator is stopped
  R,            \* R[0..5]
  SP,           \* R[6]
  REGFILE, STACKFILE,
  mmr3,         \* MMR3: data space enables, CSM enable
  isenable, dsenable,
  out,          \* what the program read last
  running       \* sim_instr is running

psw == <<cm, pm, rs>>
active == <<R, SP>>
files == <<REGFILE, STACKFILE>>
spaces == <<isenable, dsenable>>
vars == <<psw, active, files, mmr3, spaces, out, running>>

Mode == SUBSET ModeBit
KERNEL == {}
SUPER == {1}
USER == {1, 2}
Set == {0, 1}
Address == 0 .. Words - 1
RedStack == 2

(* calc_is and calc_ds.                                                    *)
DsMask(m) ==
  CASE m = KERNEL -> {"KDS"} [] m = SUPER -> {"SDS"} [] m = USER -> {"UDS"} [] OTHER -> {}
CalcIs(m) == <<m, "I">>
CalcDs(m, f) == IF f \cap DsMask(m) # {} THEN <<m, "D">> ELSE <<m, "I">>

TypeOK ==
  /\ cm \in Mode /\ pm \in Mode /\ rs \in Set
  /\ R \in RegValue /\ SP \in Address
  /\ REGFILE \in [Set -> RegValue] /\ STACKFILE \in [Mode -> Address]
  /\ mmr3 \in SUBSET {"KDS", "SDS", "UDS", "CSM"}
  /\ isenable \in Mode \X {"I"} /\ dsenable \in Mode \X {"I", "D"}
  /\ out \in RegValue \cup Address
  /\ running \in BOOLEAN

Pop(v, n) == (v + n) % Words

Push(v, n) == (v - n) % Words

(* Before the first start: cpu_reset, and the files the console shows.     *)
Init ==
  /\ cm = KERNEL /\ pm = KERNEL /\ rs = 0
  /\ R \in RegValue /\ SP \in Address
  /\ REGFILE \in [Set -> RegValue] /\ STACKFILE \in [Mode -> Address]
  /\ mmr3 = {}
  /\ isenable = CalcIs(KERNEL) /\ dsenable = CalcDs(KERNEL, {})
  /\ out = 0
  /\ running = FALSE

-----------------------------------------------------------------------------
(* The registers of a set that is no longer selected are written back.     *)
SwapSets(s) ==
  IF s # rs
  THEN REGFILE' = [REGFILE EXCEPT ![rs] = R] /\ R' = REGFILE[s]
  ELSE UNCHANGED <<REGFILE, R>>

SetSpaces(m) == isenable' = CalcIs(m) /\ dsenable' = CalcDs(m, mmr3)

LoadReg(v) ==
  /\ running /\ R' = v
  /\ UNCHANGED <<psw, SP, files, mmr3, spaces, out, running>>

LoadSP(v) ==
  /\ running /\ SP' = v
  /\ UNCHANGED <<psw, R, files, mmr3, spaces, out, running>>

ReadRegister ==
  /\ running /\ out' \in {R, SP}
  /\ UNCHANGED <<psw, active, files, mmr3, spaces, running>>

(* A trap or interrupt sequence that completes.                            *)
Trap(m, s) ==
  LET stack == [STACKFILE EXCEPT ![cm] = SP] IN
  /\ running
  /\ STACKFILE' = stack
  /\ pm' = cm /\ cm' = m /\ rs' = s
  /\ SwapSets(s)
  /\ SP' = Push(stack[m], 2)
  /\ SetSpaces(m)
  /\ UNCHANGED <<mmr3, out, running>>

(* Its pushes on the kernel stack abort: the abort handler makes an        *)
(* emergency stack, and the simulator stops (stop_spabort).                *)
TrapPushAbort ==
  LET stack == [STACKFILE EXCEPT ![cm] = SP, ![KERNEL] = RedStack]
      sp == IF cm = KERNEL THEN RedStack ELSE SP
  IN /\ running /\ running' = FALSE
     /\ SP' = sp
     /\ STACKFILE' = [stack EXCEPT ![cm] = sp]
     /\ REGFILE' = [REGFILE EXCEPT ![rs] = R]
     /\ UNCHANGED <<psw, R, mmr3, spaces, out>>

(* RTI and RTT.                                                            *)
ReturnFromInterrupt(m, p, s) ==
  LET stack == [STACKFILE EXCEPT ![cm] = Pop(SP, 2)]
      newset == IF cm = KERNEL THEN s ELSE IF rs = 1 THEN 1 ELSE s
  IN /\ running
     /\ STACKFILE' = stack
     /\ IF cm = KERNEL THEN cm' = m /\ pm' = p
                       ELSE cm' = cm \cup m /\ pm' = pm \cup p
     /\ rs' = newset
     /\ SwapSets(newset)
     /\ SP' = stack[cm']
     /\ SetSpaces(cm')
     /\ UNCHANGED <<mmr3, out, running>>

(* Slip: SP is not written back to STACKFILE.                              *)
WritePSW_NoSave(m, p, s) ==
  /\ running
  /\ cm' = m /\ pm' = p /\ rs' = s
  /\ SwapSets(s)
  /\ SP' = STACKFILE[m]
  /\ SetSpaces(m)
  /\ UNCHANGED <<STACKFILE, mmr3, out, running>>

(* An instruction writes the PSW at its address: CPU_wr.                   *)
WritePSW(m, p, s) ==
  LET stack == [STACKFILE EXCEPT ![cm] = SP] IN
  /\ running
  /\ STACKFILE' = stack
  /\ cm' = m /\ pm' = p /\ rs' = s
  /\ SwapSets(s)
  /\ SP' = stack[m]
  /\ SetSpaces(m)
  /\ UNCHANGED <<mmr3, out, running>>

(* MFPI and MFPD, MTPI and MTPD of register 6.                             *)
MoveFromPreviousSP ==
  /\ running
  /\ out' = IF cm # pm THEN STACKFILE[pm] ELSE SP
  /\ SP' = Push(SP, 1)
  /\ UNCHANGED <<psw, R, files, mmr3, spaces, running>>

MoveToPreviousSP(v) ==
  /\ running
  /\ IF cm # pm
     THEN STACKFILE' = [STACKFILE EXCEPT ![pm] = v] /\ SP' = Pop(SP, 1)
     ELSE SP' = v /\ UNCHANGED STACKFILE
  /\ UNCHANGED <<psw, R, REGFILE, mmr3, spaces, out, running>>

(* CSM.                                                                    *)
CallSupervisorMode ==
  /\ running
  /\ "CSM" \in mmr3 /\ cm # KERNEL
  /\ STACKFILE' = [STACKFILE EXCEPT ![cm] = SP]
  /\ SP' = Push(SP, 3)
  /\ pm' = cm /\ cm' = SUPER
  /\ SetSpaces(SUPER)
  /\ UNCHANGED <<rs, R, REGFILE, mmr3, out, running>>

(* Its pushes abort: SP has been stored, nothing else has happened.        *)
CallSupervisorAbort ==
  /\ running
  /\ "CSM" \in mmr3 /\ cm # KERNEL
  /\ STACKFILE' = [STACKFILE EXCEPT ![cm] = SP]
  /\ UNCHANGED <<psw, active, REGFILE, mmr3, spaces, out, running>>

(* Slip: dsenable is not recomputed.                                       *)
WriteMMR3_NoCalc(f) ==
  /\ running
  /\ mmr3' = f
  /\ UNCHANGED <<psw, active, files, spaces, out, running>>

(* MMR3 is written; RESET in kernel mode clears it.                        *)
WriteMMR3(f) ==
  /\ running
  /\ mmr3' = f
  /\ dsenable' = CalcDs(cm, f)
  /\ UNCHANGED <<psw, active, files, isenable, out, running>>

ResetInstruction == cm = KERNEL /\ WriteMMR3({})

(* The loop ends: HALT, the console, or an abort while the vector is read. *)
Stop ==
  /\ running /\ running' = FALSE
  /\ REGFILE' = [REGFILE EXCEPT ![rs] = R]
  /\ STACKFILE' = [STACKFILE EXCEPT ![cm] = SP]
  /\ UNCHANGED <<psw, active, mmr3, spaces, out>>

(* sim_instr starts.                                                       *)
Start ==
  /\ ~running /\ running' = TRUE
  /\ R' = REGFILE[rs]
  /\ SP' = STACKFILE[cm]
  /\ SetSpaces(cm)
  /\ UNCHANGED <<psw, files, mmr3, out>>

(* The console of a stopped machine.                                       *)
Deposit ==
  /\ ~running
  /\ \/ \E s \in Set, v \in RegValue : REGFILE' = [REGFILE EXCEPT ![s] = v] /\ UNCHANGED <<STACKFILE, psw>>
     \/ \E m \in Mode, v \in Address : STACKFILE' = [STACKFILE EXCEPT ![m] = v] /\ UNCHANGED <<REGFILE, psw>>
     \/ cm' \in Mode /\ pm' \in Mode /\ rs' \in Set /\ UNCHANGED files
  /\ UNCHANGED <<active, mmr3, spaces, out, running>>

CpuReset ==
  /\ ~running
  /\ cm' = KERNEL /\ pm' = KERNEL /\ rs' = 0
  /\ mmr3' = {}
  /\ UNCHANGED <<active, files, spaces, out, running>>

Next ==
  \/ \E v \in RegValue : LoadReg(v)
  \/ \E v \in Address : LoadSP(v) \/ MoveToPreviousSP(v)
  \/ ReadRegister
  \/ \E m \in Mode, s \in Set : Trap(m, s)
  \/ TrapPushAbort
  \/ \E m \in Mode, p \in Mode, s \in Set : ReturnFromInterrupt(m, p, s) \/ WritePSW(m, p, s)
  \/ MoveFromPreviousSP
  \/ CallSupervisorMode
  \/ CallSupervisorAbort
  \/ \E f \in Mmr3Data : WriteMMR3(f)
  \/ ResetInstruction
  \/ Stop
  \/ Start
  \/ Deposit
  \/ CpuReset

Spec == Init /\ [][Next]_vars

-----------------------------------------------------------------------------
(* Instructions are fetched and data accessed in the space of the current  *)
(* mode: the cached flags follow every change of the mode and of MMR3.     *)
SpacesCurrent == running => isenable = CalcIs(cm) /\ dsenable = CalcDs(cm, mmr3)

(* Every field keeps its width, and the cached flags their meaning.        *)
ModeSound == TypeOK /\ SpacesCurrent

(* A register as the program means it, wherever the code keeps it.         *)
AbsRegs == [s \in Set |-> IF running /\ s = rs THEN R ELSE REGFILE[s]]
AbsSps == [m \in Mode |-> IF running /\ m = cm THEN SP ELSE STACKFILE[m]]

Banks == INSTANCE RegisterBanks
           WITH mode <- cm, prev <- pm, set <- rs, regs <- AbsRegs, sps <- AbsSps, seen <- out

(* The copies are invisible: no switch of mode or set, trap, abort, stop   *)
(* or restart loses or mixes up a register.                                *)
ImplementsBanks == Banks!BanksSpec
=============================================================================
