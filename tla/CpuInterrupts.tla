---------------------------- MODULE CpuInterrupts ----------------------------
(***************************************************************************)
(* How the processor takes traps and interrupts: the main loop of          *)
(* sim_instr (src/src/simh/pdp11_cpu.c) around the interrupt controllers   *)
(* of IntController.                                                       *)
(*                                                                         *)
(* trapInt is the TRAP_INT bit of trap_req.  It caches the answer to "is   *)
(* an interrupt requested above the current priority": the loop looks at   *)
(* trap_req only.  It is recomputed (calc_ints) after an access to the I/O *)
(* page, after a change of priority, and when the clock queue is served,   *)
(* but not after a device's event handler has raised a request.            *)
(***************************************************************************)
EXTENDS IntController

CONSTANTS Ipl,     \* processor priorities a guest uses, out of 0 .. 7
          Quantum  \* instructions between two visits of the clock queue
                   \* (NOQUEUE_WAIT, 10000, when the queue is empty)

ASSUME IplAssumption == Ipl \subseteq 0 .. 7 /\ 7 \in Ipl
ASSUME QuantumAssumption == Quantum \in Nat \ {0}

VARIABLES
  ipl,          \* ipl, the priority field of the PSW
  trapInt,      \* trap_req & TRAP_INT
  traps,        \* trap_req & TRAP_ALL: yellow stack, and "instr" for others
  simInterval,  \* sim_interval
  phase,        \* "loop": at the top of the loop, "exec": event handler done
  running,      \* sim_instr is running (the console has it otherwise)
  floatAbort,   \* history: the last step was ExecFloatAbort
  lag           \* history: instructions fetched since an admissible request
                \* has been there without trapInt telling so

cpuVars == <<ipl, trapInt, traps, simInterval, phase, running,
             floatAbort, lag>>
vars == <<ctlVars, cpuVars>>

CpuTypeOK ==
  /\ TypeOK
  /\ ipl \in Ipl
  /\ trapInt \in BOOLEAN
  /\ traps \in SUBSET {"instr", "yellow"}
  /\ simInterval \in 0 .. Quantum
  /\ phase \in {"loop", "exec"}
  /\ running \in BOOLEAN
  /\ floatAbort \in BOOLEAN
  /\ lag \in 0 .. Quantum

(* INT_PIR4 is in int_mask[p] for the priorities below 4.                  *)
CalcInts(p, req) == req /\ p < 4

CpuInit ==
  /\ Init
  /\ ipl = 7
  /\ trapInt = FALSE
  /\ traps = {}
  /\ simInterval = 0
  /\ phase = "loop"
  /\ running = TRUE
  /\ floatAbort = FALSE
  /\ lag = 0

-----------------------------------------------------------------------------
(* Slip: calc_ints is not repeated after the clock queue is served.        *)
ServeClockQueue_NoCalc ==
  /\ running /\ phase = "loop" /\ simInterval = 0
  /\ \/ simInterval' = Quantum /\ UNCHANGED running
     \/ running' = FALSE /\ UNCHANGED simInterval
  /\ UNCHANGED <<ctlVars, ipl, trapInt, traps, phase>>

(* sim_interval <= 0: the clock queue is served, or ^C has been typed.     *)
ServeClockQueue ==
  /\ running /\ phase = "loop" /\ simInterval = 0
  /\ trapInt' = CalcInts(ipl, pir4)
  /\ \/ simInterval' = Quantum /\ UNCHANGED running
     \/ running' = FALSE /\ UNCHANGED simInterval
  /\ UNCHANGED <<ctlVars, ipl, traps, phase>>

AtTop == running /\ phase = "loop" /\ simInterval > 0

(* Slip: calc_ints is not repeated under the priority of the new PSW.      *)
EnterHandler_NoCalc(t, yellowAllowed) ==
  /\ ipl' \in Ipl
  /\ \/ traps' = t
     \/ yellowAllowed /\ traps' = t \cup {"yellow"}
  /\ UNCHANGED trapInt

(* The new PSW of a trap or interrupt sequence, and the stack check after  *)
(* the pushes.                                                             *)
EnterHandler(t, yellowAllowed) ==
  /\ ipl' \in Ipl
  /\ \/ traps' = t
     \/ yellowAllowed /\ traps' = t \cup {"yellow"}
  /\ trapInt' = CalcInts(ipl', pir4')

(* A trap is pending: the first one in priority order is taken.  Taking it *)
(* clears it and the lesser traps of its trap_clear entry; other traps of  *)
(* an instruction may remain.  A red stack trap stops the simulator.       *)
TakeTrap ==
  /\ AtTop /\ traps # {}
  /\ UNCHANGED <<ctlVars, simInterval, phase>>
  /\ \E left \in SUBSET traps :
       /\ traps = {"yellow"} => left = {}
       /\ EnterHandler(left, "instr" \in traps)
  /\ \/ UNCHANGED running
     \/ "instr" \in traps /\ running' = FALSE

(* Slip: int_req is cleared and the controllers are not told.              *)
TakeInterrupt_NoAck ==
  /\ AtTop /\ traps = {} /\ trapInt
  /\ CalcInts(ipl, pir4)
  /\ pir4' = FALSE
  /\ UNCHANGED <<irr, isr, imr, acr, mode, guestRegs, dropped, simInterval, phase, running>>
  /\ EnterHandler({}, TRUE)

(* Only TRAP_INT is set.  The request is acknowledged; with a zero vector  *)
(* there is nothing to do.                                                 *)
TakeInterrupt ==
  /\ AtTop /\ traps = {} /\ trapInt
  /\ CalcInts(ipl, pir4)
  /\ \E s \in AckSource :
       /\ Acknowledge(s)
       /\ IF AckVector(s) = 0
          THEN trapInt' = CalcInts(ipl, pir4') /\ UNCHANGED <<ipl, traps>>
          ELSE EnterHandler({}, TRUE)
  /\ UNCHANGED <<simInterval, phase, running>>

(* TRAP_INT alone, and no request: a floating-point instruction has left   *)
(* it behind.  The loop searches, finds nothing and recomputes it.         *)
NothingToDo ==
  /\ AtTop /\ traps = {} /\ trapInt
  /\ ~CalcInts(ipl, pir4)
  /\ trapInt' = CalcInts(ipl, pir4)
  /\ UNCHANGED <<ctlVars, ipl, traps, simInterval, phase, running>>

(* A memory access of the trap or interrupt sequence aborts: stop_vecabort *)
(* and stop_spabort stop the simulator, TRAP_INT stays as it was.          *)
AbortInSequence ==
  /\ AtTop
  /\ \/ traps # {} /\ UNCHANGED ctlVars
     \/ /\ traps = {} /\ trapInt /\ CalcInts(ipl, pir4)
        /\ \E s \in AckSource : AckVector(s) # 0 /\ Acknowledge(s)
  /\ traps' = traps \cup {"instr"}
  /\ running' = FALSE
  /\ UNCHANGED <<ipl, trapInt, simInterval, phase>>

(* No trap, no interrupt: the next instruction is fetched, the handler of  *)
(* the event of this instruction, if there is one, runs and may raise a    *)
(* request, and the instruction is about to execute.  With the trace bit   *)
(* on there already is a trap.                                             *)
FetchAndEvent ==
  /\ AtTop /\ traps = {} /\ ~trapInt
  /\ \/ UNCHANGED ctlVars
     \/ \E c \in Ctl, l \in Line : Raise(c, l)
  /\ simInterval' = simInterval - 1
  /\ phase' = "exec"
  /\ traps' \in {{}, {"instr"}}
  /\ UNCHANGED <<ipl, trapInt, running>>

(* The fetch itself aborts: no event, and the instruction does not count.  *)
FetchAbort ==
  /\ AtTop /\ traps = {} /\ ~trapInt
  /\ traps' = {"instr"}
  /\ UNCHANGED <<ctlVars, ipl, trapInt, simInterval, phase, running>>

-----------------------------------------------------------------------------
(* Executing the instruction; it may also ask for a trap.                  *)
Executing == running /\ phase = "exec" /\ phase' = "loop"
TrapAfter == traps' \in {traps, {"instr"}}

ExecPlain ==
  /\ Executing
  /\ TrapAfter
  /\ UNCHANGED <<ctlVars, ipl, trapInt, simInterval, running>>

(* It accesses a device register; the device may raise a request at once.  *)
ExecDeviceAccess ==
  /\ Executing
  /\ \/ UNCHANGED ctlVars
     \/ \E c \in Ctl, l \in Line : Raise(c, l)
  /\ trapInt' = CalcInts(ipl, pir4')
  /\ TrapAfter
  /\ UNCHANGED <<ipl, simInterval, running>>

(* It writes an interrupt controller.                                      *)
ExecControllerWrite ==
  /\ Executing
  /\ \E c \in Ctl : GuestWrite(c)
  /\ trapInt' = CalcInts(ipl, pir4')
  /\ TrapAfter
  /\ UNCHANGED <<ipl, simInterval, running>>

(* It changes the priority: a write to the PSW, MTPS, SPL, RTI or RTT.     *)
ExecSetPriority ==
  /\ Executing
  /\ ipl' \in Ipl
  /\ trapInt' = CalcInts(ipl', pir4)
  /\ TrapAfter
  /\ UNCHANGED <<ctlVars, simInterval, running>>

(* A floating-point instruction names a register that does not exist,      *)
(* reads an undefined variable or divides by zero: it leaves by            *)
(* ABORT(TRAP_INT), which sets TRAP_INT whatever is requested, most often  *)
(* after a floating-point trap has been asked for.                         *)
ExecFloatAbort ==
  /\ Executing
  /\ trapInt' = TRUE
  /\ TrapAfter
  /\ UNCHANGED <<ctlVars, ipl, simInterval, running>>

(* RESET in kernel mode.                                                   *)
ExecReset ==
  /\ Executing
  /\ DropLine
  /\ trapInt' = FALSE
  /\ UNCHANGED <<ipl, traps, simInterval, running>>

(* HALT in kernel mode.                                                    *)
ExecHalt ==
  /\ Executing
  /\ running' = FALSE
  /\ UNCHANGED <<ctlVars, ipl, trapInt, traps, simInterval>>

(* GO or CONTINUE at the console, which may have changed the PSW before:   *)
(* sim_instr starts again and rewrites PIRQ.                               *)
Continue ==
  /\ ~running
  /\ running' = TRUE
  /\ ipl' \in Ipl
  /\ DropLine
  /\ trapInt' = FALSE
  /\ UNCHANGED <<traps, simInterval, phase>>

(* RESET at the console, or the first half of RUN: the devices are reset   *)
(* and then the processor (cpu_reset).                                     *)
ConsoleReset ==
  /\ ~running
  /\ Reset
  /\ ipl' = 7
  /\ trapInt' = FALSE
  /\ traps' = {}
  /\ simInterval' \in {0, simInterval}
  /\ UNCHANGED <<phase, running>>

Execute ==
  \/ ExecPlain
  \/ ExecDeviceAccess
  \/ ExecControllerWrite
  \/ ExecSetPriority
  \/ ExecReset
  \/ ExecHalt

(* lag stops counting one above what LatencyBounded allows.                *)
CountLag ==
  lag' = IF ~CalcInts(ipl', pir4') \/ trapInt' THEN 0
         ELSE IF phase = "loop" /\ phase' = "exec" /\ lag <= Quantum THEN lag + 1
         ELSE lag

CpuStep ==
  /\ \/ /\ \/ ServeClockQueue
           \/ TakeTrap
           \/ TakeInterrupt
           \/ NothingToDo
           \/ AbortInSequence
           \/ FetchAndEvent
           \/ FetchAbort
           \/ Execute
        /\ floatAbort' = FALSE
     \/ ExecFloatAbort /\ floatAbort' = TRUE
  /\ CountLag

ConsoleStep ==
  /\ Continue \/ ConsoleReset
  /\ floatAbort' = FALSE
  /\ CountLag

CpuNext == CpuStep \/ ConsoleStep

(* The loop of sim_instr never waits: while it runs, it takes steps.       *)
CpuSpec == CpuInit /\ [][CpuNext]_vars /\ WF_vars(CpuStep)

-----------------------------------------------------------------------------
(* TRAP_INT is never stale the dangerous way: at the top of the loop it    *)
(* promises a request that the current priority admits, so the processor   *)
(* never takes an interrupt that was withdrawn or masked since.  The one   *)
(* exception is the step after a floating-point instruction gave up; the   *)
(* loop recomputes TRAP_INT before anything else happens.                  *)
TrapIntSound == running /\ trapInt /\ ~floatAbort => CalcInts(ipl, pir4)

(* Neither that nor the type of any variable is lost in a step of the loop *)
(* or of the console.                                                      *)
CpuSound == CpuTypeOK /\ TrapIntSound

(* Event handlers raise requests without telling trap_req.  Even for a     *)
(* guest that never touches the I/O page or its priority, such a request   *)
(* waits for at most the instructions left until the clock queue is next   *)
(* served.                                                                 *)
LatencyBounded == lag + simInterval <= Quantum

(* A request that the processor admits is not left hanging: while the      *)
(* guest executes instructions it is acknowledged, or it is withdrawn,     *)
(* masked by the priority, or dropped.                                     *)
GuestMakesProgress == []<><<FetchAndEvent>>_vars

InterruptServed ==
  GuestMakesProgress =>
    \/ []<>~(pir4 /\ ipl < 4)
    \/ []<><<TakeInterrupt>>_vars

(* The whole processor uses the controllers only through their operations: *)
(* each of its steps is a step of IntController or leaves them alone.      *)
ControllerSpec == Spec
=============================================================================
