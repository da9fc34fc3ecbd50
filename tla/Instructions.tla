----------------------------- MODULE Instructions -----------------------------
(***************************************************************************)
(* Executing one instruction (sim_instr of src/src/simh/pdp11_cpu.c): its  *)
(* operands in all addressing modes, memory, the condition codes, and what *)
(* is left behind when one of its references to memory aborts.             *)
(*                                                                         *)
(* An abort is a longjmp out of the middle of an instruction.  What the    *)
(* instruction did before stays done; MMR1 tells which registers GeteaW    *)
(* and GeteaB have moved, MMR2 where the instruction was.  With these the  *)
(* guest's page-fault handler restores the registers, makes the page       *)
(* present and starts the instruction again.                               *)
(*                                                                         *)
(* Instructions come from a list in place of memory, an input; their index *)
(* words are read from memory at PC.  One address space and one mode       *)
(* stand for all: Mmu and CpuMode model the others, and the instructions   *)
(* that change the mode; CpuInterrupts has those that change the priority, *)
(* which stays 0 here.  Memory management is on and MMR0 not frozen when   *)
(* an instruction begins, so that update_MM holds: the handler has cleared *)
(* the abort bits before it returns.                                       *)
(***************************************************************************)
EXTENDS Alu, Sequences

CONSTANTS StackLimit,  \* STKLIM
          Programs     \* what may be run: records with a list of instructions
                       \* "code", the registers "starts" and condition codes
                       \* "codes" it may start with, the words of memory
                       \* "mem" that are not zero, and a bound "faults"

ASSUME StackLimitAssumption == StackLimit \in Word

StackReg == 6  \* SP
PC == 7
MaxReferences == 7  \* no instruction refers to memory more often
NoFault == -1       \* a fuse that does not burn down

VARIABLES
  r, f, mem,  \* R, the condition codes, and M where it is not zero
  mmr1,       \* MMR1: the changes <<by, register>> it has room for
  mmr2,       \* MMR2: PC of the instruction
  traps,      \* what setTRAP has asked for
  prog,       \* the program and what it started with
  at,         \* instructions completed
  phase,      \* "ready" for an instruction, "aborted", or "again" to restart it
  faults,     \* aborts so far, up to the program's bound "faults"
  ideal,      \* history: r, f and mem if no reference had ever aborted
  askedCodes  \* history: an MFPS has been aborted

instrVars == <<r, f, mem, mmr1, mmr2, traps, prog, at, phase, faults, ideal, askedCodes>>

-----------------------------------------------------------------------------
(* A state within an instruction: the registers, the codes, memory, MMR1,  *)
(* the traps; fuse is the number of references until one aborts, and ok    *)
(* says that none has.                                                     *)
WordAt(m, a) ==
  IF a \div 2 \in DOMAIN m.mem THEN m.mem[a \div 2] ELSE 0
ByteAt(m, a) ==
  IF Odd(a) THEN WordAt(m, a) \div ByteSize ELSE WordAt(m, a) % ByteSize

(* Odd addresses are not an error on the Professional.                     *)
Store(words, w, d) == [v \in DOMAIN words \cup {w} |-> IF v = w THEN d ELSE words[v]]
PutWord(m, a, d) == [m EXCEPT !.mem = Store(@, a \div 2, d)]
PutByte(m, a, d) ==
  PutWord(m, a, IF Odd(a) THEN (WordAt(m, a) % ByteSize) + d * ByteSize
                ELSE (WordAt(m, a) \div ByteSize) * ByteSize + d)

(* One call of relocR or relocW; after one that aborts there are none.     *)
Refer(m) == IF m.ok /\ m.fuse # 0 THEN [m EXCEPT !.fuse = @ - 1]
            ELSE [m EXCEPT !.ok = FALSE]
Then(m, Rest(_)) == IF m.ok THEN Rest(m) ELSE m

(* Slip: MMR1 is told a step of two for byte operands too.                 *)
Step_RecordTwo(m, reg, by) ==
  [m EXCEPT !.r[reg] = Wrap(WordSize, @ + by),
            !.mmr1 = Append(@, <<IF by < 0 THEN -2 ELSE 2, reg>>)]

(* A register is stepped and calc_MMR1 notes it.                           *)
Step(m, reg, by) ==
  [m EXCEPT !.r[reg] = Wrap(WordSize, @ + by), !.mmr1 = Append(@, <<by, reg>>)]

CheckStack(m) ==
  IF m.r[StackReg] < StackLimit THEN [m EXCEPT !.traps = @ \cup {"yellow"}] ELSE m

StepDown(m, reg, by) ==
  IF reg = StackReg THEN CheckStack(Step(m, reg, -by)) ELSE Step(m, reg, -by)

(* Effective addresses: the state m and the address a.  size is the step   *)
(* of (R)+ and -(R).                                                       *)
At(m, a) == [m |-> m, a |-> a]
Load(m, a) == At(m, WordAt(m, a))
Indirect(e) == Load(Refer(e.m), e.a)
InRegister(m, reg) == At(m, m.r[reg])

IndexAfter(m, reg, word) ==
  LET t == [m EXCEPT !.r[PC] = Wrap(WordSize, @ + 2)]
  IN  IF m.ok THEN At(t, Wrap(WordSize, t.r[reg] + word)) ELSE At(m, 0)
Indexed(m, reg) == IndexAfter(Refer(m), reg, WordAt(m, m.r[PC]))

Getea(m, spec, size) ==
  LET reg == spec.reg
  IN  CASE spec.mode = 1 -> InRegister(m, reg)
        [] spec.mode = 2 -> At(Step(m, reg, size), m.r[reg])
        [] spec.mode = 3 -> Indirect(At(Step(m, reg, 2), m.r[reg]))
        [] spec.mode = 4 -> InRegister(StepDown(m, reg, size), reg)
        [] spec.mode = 5 -> Indirect(InRegister(StepDown(m, reg, 2), reg))
        [] spec.mode = 6 -> Indexed(m, reg)
        [] spec.mode = 7 -> Indirect(Indexed(m, reg))

GeteaW(m, spec) == Getea(m, spec, 2)
GeteaB(m, spec) == Getea(m, spec, IF spec.reg >= StackReg THEN 2 ELSE 1)

(* An operand that is read: the state m, its address a, its value x.  What *)
(* an instruction makes of it is the Rest of After.                        *)
After(o, Rest(_)) == IF o.m.ok THEN Rest(o) ELSE o.m

LoadOperand(m, a, byte) ==
  [m |-> m, a |-> a, x |-> IF byte THEN ByteAt(m, a) ELSE WordAt(m, a)]
ReferTo(e, byte) == LoadOperand(Refer(e.m), e.a, byte)

ReadOperandW(m, spec) ==
  IF spec.mode = 0 THEN [m |-> m, a |-> 0, x |-> m.r[spec.reg]]
  ELSE ReferTo(GeteaW(m, spec), FALSE)

ReadOperandB(m, spec) ==
  IF spec.mode = 0 THEN [m |-> m, a |-> 0, x |-> m.r[spec.reg] % ByteSize]
  ELSE ReferTo(GeteaB(m, spec), TRUE)

ReadOperand(m, spec, byte) ==
  IF byte THEN ReadOperandB(m, spec) ELSE ReadOperandW(m, spec)

(* The end of a read-modify-write: the reference has been made (last_pa).  *)
WriteBackW(m, spec, a, d) ==
  IF spec.mode = 0 THEN [m EXCEPT !.r[spec.reg] = d] ELSE PutWord(m, a, d)
WriteBackB(m, spec, a, d) ==
  IF spec.mode = 0
  THEN [m EXCEPT !.r[spec.reg] = @ - (@ % ByteSize) + d]
  ELSE PutByte(m, a, d)
WriteBack(m, spec, byte, a, d) ==
  IF byte THEN WriteBackB(m, spec, a, d) ELSE WriteBackW(m, spec, a, d)

(* A destination that is only written, as CLR, SXT and MOV do: its address *)
(* is computed, and may abort, after the codes have been set.              *)
StoreAt(e, byte, d) ==
  Then(Refer(e.m), LAMBDA t : IF byte THEN PutByte(t, e.a, d) ELSE PutWord(t, e.a, d))

WriteOperandW(m, spec, d) ==
  IF spec.mode = 0 THEN [m EXCEPT !.r[spec.reg] = d]
  ELSE StoreAt(GeteaW(m, spec), FALSE, d)

WriteOperandB(m, spec, d) == StoreAt(GeteaB(m, spec), TRUE, d)

(* MOVB and MFPS extend the sign into a register.                          *)
MoveOperandB(m, spec, d) ==
  IF spec.mode = 0
  THEN [m EXCEPT !.r[spec.reg] = Signed(ByteSize, d) % WordSize]
  ELSE WriteOperandB(m, spec, d)

WithCodes(m, cc) == [m EXCEPT !.f = cc]
SetTrap(m, t) == [m EXCEPT !.traps = @ \cup {t}]

-----------------------------------------------------------------------------
(* The single operand instructions that read and write back.               *)
Unary(op, s, x, cc) ==
  CASE op = "com" -> Com(s, x, cc)
    [] op = "inc" -> Inc(s, x, cc)
    [] op = "dec" -> Dec(s, x, cc)
    [] op = "neg" -> Neg(s, x, cc)
    [] op = "adc" -> Adc(s, x, cc)
    [] op = "sbc" -> Sbc(s, x, cc)
    [] op = "ror" -> Ror(s, x, cc)
    [] op = "rol" -> Rol(s, x, cc)
    [] op = "asr" -> Asr(s, x, cc)
    [] op = "asl" -> Asl(s, x, cc)
    [] op = "swab" -> Swab(x)
UnaryOps == {"com", "inc", "dec", "neg", "adc", "sbc", "ror", "rol", "asr", "asl", "swab"}

Dyadic(op, s, src, src2, cc) ==
  CASE op = "bit" -> Bit(s, src, src2, cc)
    [] op = "bic" -> Bic(s, src, src2, cc)
    [] op = "bis" -> Bis(s, src, src2, cc)
    [] op = "cmp" -> Cmp(s, src, src2, cc)
    [] op = "add" -> Add(s, src, src2, cc)
    [] op = "sub" -> Sub(s, src, src2, cc)
DyadicOps == {"bit", "bic", "bis", "cmp", "add", "sub"}
ReadOnly == {"bit", "cmp"}

Size(byte) == IF byte THEN ByteSize ELSE WordSize

Update(o, ins, res) ==
  WithCodes(WriteBack(o.m, ins.dst, ins.byte, o.a, res.d), res.f)

Modify(m, ins) ==
  After(ReadOperand(m, ins.dst, ins.byte), LAMBDA o :
    Update(o, ins, Unary(ins.op, Size(ins.byte), o.x, m.f)))

Test(m, ins) ==
  After(ReadOperand(m, ins.dst, ins.byte), LAMBDA o :
    WithCodes(o.m, Tst(Size(ins.byte), o.x, m.f).f))

Combine(m, ins) ==
  After(ReadOperand(m, ins.src, ins.byte), LAMBDA p :
    After(ReadOperand(p.m, ins.dst, ins.byte), LAMBDA o :
      LET res == Dyadic(ins.op, Size(ins.byte), p.x, o.x, m.f)
      IN  IF ins.op \in ReadOnly THEN WithCodes(o.m, res.f) ELSE Update(o, ins, res)))

Clear(m, ins) ==
  LET t == WithCodes(m, Flags(FALSE, TRUE, FALSE, FALSE))
  IN  IF ~ins.byte THEN WriteOperandW(t, ins.dst, 0)
      ELSE IF ins.dst.mode = 0 THEN WriteBackB(t, ins.dst, 0, 0)
      ELSE WriteOperandB(t, ins.dst, 0)

Put(m, ins, d) ==
  IF ins.byte THEN MoveOperandB(m, ins.dst, d) ELSE WriteOperandW(m, ins.dst, d)
Move(m, ins) ==
  After(ReadOperand(m, ins.src, ins.byte), LAMBDA p :
    Put(WithCodes(p.m, Mov(Size(ins.byte), p.x, m.f).f), ins, p.x))

SignExtend(m, ins) ==
  LET res == Sxt(m.f) IN WriteOperandW(WithCodes(m, res.f), ins.dst, res.d)

(* JSR, MFPI and MFPD push a word: SP moves, and MMR1 says so, before the  *)
(* write that may abort.                                                   *)
StackDown(m) == Step(m, StackReg, -2)
PushWord(m, d) == Then(Refer(m), LAMBDA t : CheckStack(PutWord(t, t.r[StackReg], d)))

MoveFromPrevious(m, ins) ==
  After(ReadOperandW(m, ins.dst), LAMBDA o :
    PushWord(StackDown(WithCodes(o.m, Mov(WordSize, o.x, m.f).f)), o.x))

MoveToPrevious(m, ins) ==
  LET x == WordAt(m, m.r[StackReg])
  IN  Then(Refer(m), LAMBDA t :
        WriteOperandW(WithCodes(Step(t, StackReg, 2), Mov(WordSize, x, m.f).f), ins.dst, x))

TestAndSet(m, ins) ==
  IF ins.dst.mode = 0 THEN SetTrap(m, "ill")
  ELSE After(ReadOperandW(m, ins.dst), LAMBDA o :
         LET t == PutWord(o.m, o.a, o.m.r[0] - (o.m.r[0] % 2) + 1)
         IN  WithCodes([t EXCEPT !.r[0] = o.x], Result(WordSize, o.x, FALSE, Odd(o.x)).f))

(* C does not say whether R0 is read before or after the destination has   *)
(* been computed: for one that steps R0 this is one of the two outcomes.   *)
WriteLocked(m, ins) ==
  IF ins.dst.mode = 0 THEN SetTrap(m, "ill")
  ELSE WriteOperandW(WithCodes(m, Mov(WordSize, m.r[0], m.f).f), ins.dst, m.r[0])

(* The low byte of the PSW, at priority 0 and without the trace bit.  The  *)
(* codes of the moved byte replace N, Z and V before the destination is    *)
(* reached.                                                                *)
MoveFromPsw(m, ins) ==
  LET d == (8 * OneIf(m.f.n) + 4 * OneIf(m.f.z) + 2 * OneIf(m.f.v) + OneIf(m.f.c)) % ByteSize
  IN  MoveOperandB(WithCodes(m, Mov(ByteSize, d, m.f).f), ins.dst, d)

CodesOf(x) ==
  LET on(i) == Odd(x \div TwoTo[i]) IN Flags(on(3), on(2), on(1), on(0))
MoveToPsw(m, ins) ==
  After(ReadOperandB(m, ins.dst), LAMBDA o : WithCodes(o.m, CodesOf(o.x)))

-----------------------------------------------------------------------------
(* The extended instructions: src is a register R, dst the operand.  With  *)
(* an odd R the pair is R and itself, and the low word is what stays.      *)
Partner(R) == R + 1 - (R % 2)
SetPair(m, R, p) == [m EXCEPT !.r[R] = p.hi, !.r[Partner(R)] = p.lo, !.f = p.f]
SetOne(m, R, res) == [m EXCEPT !.r[R] = res.d, !.f = res.f]
SetQuotient(m, R, p) == IF p.f.v THEN WithCodes(m, p.f) ELSE SetPair(m, R, p)

Extended(m, ins) ==
  After(ReadOperandW(m, ins.dst), LAMBDA o :
    LET R == ins.src.reg
        hi == o.m.r[R]
        lo == o.m.r[Partner(R)]
    IN  CASE ins.op = "mul" -> SetPair(o.m, R, Mul(hi, o.x))
          [] ins.op = "div" -> SetQuotient(o.m, R, Div(hi, lo, o.x, m.f))
          [] ins.op = "ash" -> SetOne(o.m, R, Ash(hi, o.x))
          [] ins.op = "ashc" -> SetPair(o.m, R, Ashc(hi, lo, o.x))
          [] ins.op = "xor" -> Update(o, ins, Xor(WordSize, hi, o.x, m.f)))

-----------------------------------------------------------------------------
(* Transfers of control.                                                   *)
JumpTo(m, a) == [m EXCEPT !.r[PC] = a]

Taken(op, cc) ==
  CASE op = "br" -> TRUE
    [] op = "bne" -> ~cc.z
    [] op = "beq" -> cc.z
    [] op = "bge" -> cc.n = cc.v
    [] op = "blt" -> cc.n # cc.v
    [] op = "bgt" -> ~(cc.z \/ cc.n # cc.v)
    [] op = "ble" -> cc.z \/ cc.n # cc.v
    [] op = "bpl" -> ~cc.n
    [] op = "bmi" -> cc.n
    [] op = "bhi" -> ~(cc.c \/ cc.z)
    [] op = "blos" -> cc.c \/ cc.z
    [] op = "bvc" -> ~cc.v
    [] op = "bvs" -> cc.v
    [] op = "bcc" -> ~cc.c
    [] op = "bcs" -> cc.c
BranchOps == {"br", "bne", "beq", "bge", "blt", "bgt", "ble", "bpl", "bmi", "bhi", "blos",
              "bvc", "bvs", "bcc", "bcs"}

(* BRANCH_F for an offset without its sign bit, BRANCH_B with it: the      *)
(* doubled offset keeps eight bits and the rest of the word is the sign.   *)
Branch(m, ins) ==
  LET twice == (2 * ins.off) % ByteSize
      by == IF Sign(ByteSize, ins.off) THEN twice + WordSize - ByteSize ELSE twice
  IN  IF Taken(ins.op, m.f) THEN JumpTo(m, Wrap(WordSize, m.r[PC] + by)) ELSE m

SubtractOneBranch(m, ins) ==
  LET R == ins.src.reg
      t == [m EXCEPT !.r[R] = Wrap(WordSize, @ - 1)]
  IN  IF t.r[R] = 0 THEN t ELSE JumpTo(t, Wrap(WordSize, t.r[PC] - 2 * ins.off))

Jump(m, ins) ==
  IF ins.dst.mode = 0 THEN SetTrap(m, "nxm")
  ELSE After(GeteaW(m, ins.dst), LAMBDA e : JumpTo(e.m, e.a))

Link(m, R, a) ==
  Then(PushWord(m, m.r[R]), LAMBDA t : JumpTo([t EXCEPT !.r[R] = t.r[PC]], a))
JumpToSubroutine(m, ins) ==
  IF ins.dst.mode = 0 THEN SetTrap(m, "ill")
  ELSE After(GeteaW(m, ins.dst), LAMBDA e : Link(StackDown(e.m), ins.src.reg, e.a))

ReturnFromSubroutine(m, ins) ==
  LET R == ins.dst.reg
  IN  Then(Refer(JumpTo(m, m.r[R])), LAMBDA t :
        [[t EXCEPT !.r[R] = WordAt(t, t.r[StackReg])] EXCEPT !.r[StackReg] = Wrap(WordSize, @ + 2)])

Mark(m, ins) ==
  LET i == (m.r[PC] + 2 * ins.off) % WordSize
  IN  Then(Refer(JumpTo(m, m.r[5])), LAMBDA t :
        [t EXCEPT !.r[5] = WordAt(t, i), !.r[StackReg] = Wrap(WordSize, i + 2)])

(* The clear and set instructions for the codes; off is IR<3:0>.           *)
SetCodes(m, ins) ==
  LET on == ins.op = "scc"
      pick(i, old) == IF Odd(ins.off \div TwoTo[i]) THEN on ELSE old
  IN  [m EXCEPT !.f = Flags(pick(3, @.n), pick(2, @.z), pick(1, @.v), pick(0, @.c))]

Exec(m, ins) ==
  CASE ins.op \in UnaryOps -> Modify(m, ins)
    [] ins.op \in DyadicOps -> Combine(m, ins)
    [] ins.op \in BranchOps -> Branch(m, ins)
    [] ins.op = "tst" -> Test(m, ins)
    [] ins.op = "clr" -> Clear(m, ins)
    [] ins.op = "mov" -> Move(m, ins)
    [] ins.op = "sxt" -> SignExtend(m, ins)
    [] ins.op \in {"mfpi", "mfpd"} -> MoveFromPrevious(m, ins)
    [] ins.op \in {"mtpi", "mtpd"} -> MoveToPrevious(m, ins)
    [] ins.op = "tstset" -> TestAndSet(m, ins)
    [] ins.op = "wrtlck" -> WriteLocked(m, ins)
    [] ins.op = "mfps" -> MoveFromPsw(m, ins)
    [] ins.op = "mtps" -> MoveToPsw(m, ins)
    [] ins.op \in {"mul", "div", "ash", "ashc", "xor"} -> Extended(m, ins)
    [] ins.op = "sob" -> SubtractOneBranch(m, ins)
    [] ins.op = "jmp" -> Jump(m, ins)
    [] ins.op = "jsr" -> JumpToSubroutine(m, ins)
    [] ins.op = "rts" -> ReturnFromSubroutine(m, ins)
    [] ins.op = "mark" -> Mark(m, ins)
    [] ins.op \in {"scc", "ccc"} -> SetCodes(m, ins)
    [] ins.op \in {"emt", "trap", "bpt", "iot", "ill"} -> SetTrap(m, ins.op)
    [] ins.op = "mfpt" -> [m EXCEPT !.r[0] = 5]

(* An instruction as it is decoded; not every one has a form for bytes.    *)
ByteOps == (UnaryOps \ {"swab"}) \cup {"bit", "bic", "bis", "cmp", "mov", "tst", "clr", "mfps", "mtps"}
WordOps ==
  UnaryOps \cup DyadicOps \cup BranchOps \cup
  {"tst", "clr", "mov", "sxt", "mfpi", "mfpd", "mtpi", "mtpd", "tstset", "wrtlck", "mul", "div",
   "ash", "ashc", "xor", "sob", "jmp", "jsr", "rts", "mark", "scc", "ccc", "emt", "trap", "bpt",
   "iot", "ill", "mfpt"}
Specifier == [mode : 0 .. 7, reg : 0 .. 7]
Decoded ==
  [op : WordOps, byte : {FALSE}, src : Specifier, dst : Specifier, off : 0 .. ByteSize - 1] \cup
  [op : ByteOps, byte : {TRUE}, src : Specifier, dst : Specifier, off : 0 .. ByteSize - 1]

ASSUME ProgramsAssumption ==
  \A p \in Programs :
    /\ p.code \in Seq(Decoded)
    /\ p.starts \subseteq [0 .. 7 -> Word]
    /\ \A w \in DOMAIN p.mem : p.mem[w] \in Word

(* The fetch is a reference as well; PC moves when it has been made.       *)
Fetch(m) ==
  Then(Refer(m), LAMBDA t : [t EXCEPT !.r[PC] = Wrap(WordSize, @ + 2)])

Begin(s, fuse) ==
  [r |-> s.r, f |-> s.f, mem |-> s.mem, mmr1 |-> <<>>, traps |-> {}, fuse |-> fuse, ok |-> TRUE]
Run(s, fuse, ins) == Then(Fetch(Begin(s, fuse)), LAMBDA t : Exec(t, ins))

-----------------------------------------------------------------------------
InstrInit ==
  /\ \E p \in Programs : \E g \in p.starts, cc \in p.codes :
       prog = [kind |-> p.kind, code |-> p.code, r |-> g, f |-> cc, mem |-> p.mem,
               faults |-> p.faults]
  /\ r = prog.r /\ f = prog.f /\ mem = prog.mem
  /\ ideal = [r |-> prog.r, f |-> prog.f, mem |-> prog.mem]
  /\ mmr1 = <<>> /\ mmr2 = 0
  /\ traps = {}
  /\ at = 0
  /\ phase = "ready"
  /\ faults = 0
  /\ askedCodes = FALSE

Now == [r |-> r, f |-> f, mem |-> mem]
Current == prog.code[at + 1]
Arch(m) == [r |-> m.r, f |-> m.f, mem |-> m.mem]

Take(m) ==
  /\ r' = m.r /\ f' = m.f /\ mem' = m.mem
  /\ mmr1' = m.mmr1 /\ mmr2' = r[PC]
  /\ traps' = m.traps

(* The instruction runs to its end.                                        *)
Complete ==
  /\ phase # "aborted" /\ at < Len(prog.code)
  /\ Take(Run(Now, NoFault, Current))
  /\ ideal' = Arch(Run(ideal, NoFault, Current))
  /\ at' = at + 1
  /\ phase' = "ready"
  /\ UNCHANGED <<prog, faults, askedCodes>>

(* One of its references aborts.                                           *)
Abort ==
  /\ phase # "aborted" /\ at < Len(prog.code)
  /\ faults < prog.faults
  /\ \E fuse \in 0 .. MaxReferences :
       \E m \in {Run(Now, fuse, Current)} : ~m.ok /\ Take(m)
  /\ phase' = "aborted"
  /\ faults' = faults + 1
  /\ askedCodes' = (askedCodes \/ Current.op = "mfps")
  /\ UNCHANGED <<prog, at, ideal>>

(* The guest's handler: the changes MMR1 tells of, for which it has two    *)
(* places, are taken back, PC is set to MMR2, the codes are those of the   *)
(* PSW that was pushed.                                                    *)
Undo(x, reg, change) == IF change[2] = reg THEN (x - change[1]) % WordSize ELSE x
Undone(x, reg, changes) ==
  LET second == IF Len(changes) > 1 THEN Undo(x, reg, changes[2]) ELSE x
  IN  IF Len(changes) > 0 THEN Undo(second, reg, changes[1]) ELSE second

Repair ==
  /\ phase = "aborted"
  /\ r' = [reg \in 0 .. 7 |-> IF reg = PC THEN mmr2 ELSE Undone(r[reg], reg, mmr1)]
  /\ traps' = {}
  /\ phase' = "again"
  /\ UNCHANGED <<f, mem, mmr1, mmr2, prog, at, faults, ideal, askedCodes>>

InstrNext == Complete \/ Abort \/ Repair

InstrSpec == InstrInit /\ [][InstrNext]_instrVars

-----------------------------------------------------------------------------
(* An instruction that a reference aborts can be started again: whatever   *)
(* the addressing modes, the handler finds the registers and memory the    *)
(* instruction began with, and however often it aborts, the registers, the *)
(* codes and memory end as if every page had been there from the start.    *)
(* The exception is MFPS to memory, which stores the codes it has already  *)
(* changed when it is started again.                                       *)
RestartExact ==
  phase # "aborted" /\ ~askedCodes =>
    /\ r = ideal.r
    /\ phase = "ready" => f = ideal.f
    /\ \A a \in DOMAIN mem \cup DOMAIN ideal.mem :
         WordAt(Now, 2 * a) = WordAt(ideal, 2 * a)
=============================================================================
