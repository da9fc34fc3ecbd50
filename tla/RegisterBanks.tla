---------------------------- MODULE RegisterBanks ----------------------------
(***************************************************************************)
(* What a PDP-11 program sees of its registers: a stack pointer for each   *)
(* mode and two sets of general registers, selected by the PSW.  CpuMode   *)
(* is how src/src/simh/pdp11_cpu.c keeps them.                             *)
(*                                                                         *)
(* A mode is the set of the 1 bits of its code, since RTI ORs modes.  One  *)
(* value stands for R0 to R5 of a set, which are always swapped together.  *)
(* Stack pointers count words.                                             *)
(***************************************************************************)
EXTENDS Integers

CONSTANTS ModeBit,   \* bits of a mode code (2 in the program)
          RegValue,  \* contents of a register set
          Words      \* words of the address space

Mode == SUBSET ModeBit
KERNEL == {}
SUPER == {1}
Set == {0, 1}
Address == 0 .. Words - 1
RedStack == 2        \* word address of the emergency stack, byte address 4

VARIABLES
  mode, prev,   \* PSW current and previous mode
  set,          \* PSW register set
  regs,         \* regs[s]: contents of set s
  sps,          \* sps[m]: stack pointer of mode m
  seen          \* what the program read last

bankVars == <<mode, prev, set, regs, sps, seen>>

Pop(v, n) == (v + n) % Words
Push(v, n) == (v - n) % Words

BanksInit ==
  /\ mode = KERNEL /\ prev = KERNEL /\ set = 0
  /\ regs \in [Set -> RegValue]
  /\ sps \in [Mode -> Address]
  /\ seen \in RegValue \cup Address

(* Ordinary instructions.                                                  *)
WriteReg(v) == regs' = [regs EXCEPT ![set] = v] /\ UNCHANGED <<mode, prev, set, sps, seen>>
WriteStack(v) == sps' = [sps EXCEPT ![mode] = v] /\ UNCHANGED <<mode, prev, set, regs, seen>>
See(v) == seen' = v /\ UNCHANGED <<mode, prev, set, regs, sps>>

(* A trap or interrupt pushes PSW and PC on the stack of the new mode.     *)
EnterTrap(m, s) ==
  /\ mode' = m /\ prev' = mode /\ set' = s
  /\ sps' = [sps EXCEPT ![m] = Push(@, 2)]
  /\ UNCHANGED <<regs, seen>>

(* The pushes abort in kernel mode.                                        *)
RedStackAbort ==
  /\ sps' = [sps EXCEPT ![KERNEL] = RedStack]
  /\ UNCHANGED <<mode, prev, set, regs, seen>>

(* RTI and RTT pop PC and PSW.  Only the kernel can leave its privileges.  *)
ReturnFromTrap(m, p, s) ==
  /\ sps' = [sps EXCEPT ![mode] = Pop(@, 2)]
  /\ IF mode = KERNEL
     THEN mode' = m /\ prev' = p /\ set' = s
     ELSE /\ mode' = mode \cup m /\ prev' = prev \cup p
          /\ set' = IF set = 1 THEN 1 ELSE s
  /\ UNCHANGED <<regs, seen>>

SetPSW(m, p, s) == mode' = m /\ prev' = p /\ set' = s /\ UNCHANGED <<regs, sps, seen>>

(* MFPI SP pushes the stack pointer of the previous mode, MTPI SP pops it. *)
MoveFromPrevious ==
  /\ seen' = sps[prev]
  /\ sps' = [sps EXCEPT ![mode] = Push(@, 1)]
  /\ UNCHANGED <<mode, prev, set, regs>>

MoveToPrevious(v) ==
  /\ sps' = [m \in Mode |-> IF m = prev THEN v
                            ELSE IF m = mode THEN Pop(sps[m], 1) ELSE sps[m]]
  /\ UNCHANGED <<mode, prev, set, regs, seen>>

(* CSM: the supervisor goes on with the caller's stack.                    *)
CallSupervisor ==
  /\ mode # KERNEL
  /\ mode' = SUPER /\ prev' = mode
  /\ sps' = [sps EXCEPT ![SUPER] = Push(sps[mode], 3)]
  /\ UNCHANGED <<set, regs, seen>>

(* The console changes a register of a stopped machine.                    *)
DepositReg(s, v) == regs' = [regs EXCEPT ![s] = v] /\ UNCHANGED <<mode, prev, set, sps, seen>>
DepositStack(m, v) == sps' = [sps EXCEPT ![m] = v] /\ UNCHANGED <<mode, prev, set, regs, seen>>

BanksNext ==
  \/ \E v \in RegValue : WriteReg(v)
  \/ \E v \in Address : WriteStack(v)
  \/ See(regs[set]) \/ See(sps[mode])
  \/ \E m \in Mode, s \in Set : EnterTrap(m, s)
  \/ RedStackAbort
  \/ \E m \in Mode, p \in Mode, s \in Set : ReturnFromTrap(m, p, s) \/ SetPSW(m, p, s)
  \/ MoveFromPrevious
  \/ \E v \in Address : MoveToPrevious(v)
  \/ CallSupervisor
  \/ \E s \in Set, v \in RegValue : DepositReg(s, v)
  \/ \E m \in Mode, v \in Address : DepositStack(m, v)

BanksSpec == BanksInit /\ [][BanksNext]_bankVars
=============================================================================
