---------------------------- MODULE GuestPrograms ----------------------------
(***************************************************************************)
(* What the instructions of Instructions must add up to in short guest     *)
(* programs.  The programs are the idioms the instruction set was made     *)
(* for: a comparison and a branch, arithmetic on two words by way of the   *)
(* carry, shifts by a count, a product divided again.  They relate the     *)
(* condition codes one instruction sets to what the next one makes of      *)
(* them, against arithmetic on integers.                                   *)
(***************************************************************************)
EXTENDS Instructions

Reg(n) == [mode |-> 0, reg |-> n]
Op(op, src, dst) == [op |-> op, byte |-> FALSE, src |-> src, dst |-> dst, off |-> 0]
One(op, dst) == Op(op, Reg(0), dst)
BranchTo(op, off) == [One(op, Reg(0)) EXCEPT !.off = off]

Finished(kind) == prog.kind = kind /\ phase = "ready" /\ at = Len(prog.code)

Was(n) == prog.r[n]
Value(n) == Signed(WordSize, Was(n))
DoubleWas(hi, lo) == Was(hi) * WordSize + Was(lo)
DoubleIs(hi, lo) == r[hi] * WordSize + r[lo]
Fits(x) == x \in -Half(WordSize) .. Half(WordSize) - 1
FitsDouble(x) == x \in -Half(DoubleSize) .. Half(DoubleSize) - 1

-----------------------------------------------------------------------------
(* CMP R0,R1 or SUB R1,R0, and a branch.                                   *)
CompareBranch(op, off) == <<Op("cmp", Reg(0), Reg(1)), BranchTo(op, off)>>
SubtractBranch(op, off) == <<Op("sub", Reg(1), Reg(0)), BranchTo(op, off)>>

Relation(op) ==
  LET x == Value(0)
      y == Value(1)
      ux == Was(0)
      uy == Was(1)
  IN  CASE op = "br" -> TRUE
        [] op = "bne" -> ux # uy
        [] op = "beq" -> ux = uy
        [] op = "bge" -> x >= y
        [] op = "blt" -> x < y
        [] op = "bgt" -> x > y
        [] op = "ble" -> x <= y
        [] op = "bpl" -> Signed(WordSize, (ux - uy) % WordSize) >= 0
        [] op = "bmi" -> Signed(WordSize, (ux - uy) % WordSize) < 0
        [] op = "bhi" -> ux > uy
        [] op = "blos" -> ux <= uy
        [] op = "bvc" -> Fits(x - y)
        [] op = "bvs" -> ~Fits(x - y)
        [] op = "bcc" -> ux >= uy
        [] op = "bcs" -> ux < uy

(* After a comparison or a subtraction every conditional branch decides    *)
(* the relation of integers it is named for, signed or unsigned, also when *)
(* the difference overflows, and it lands at its signed offset from the    *)
(* next instruction.                                                       *)
BranchesDecide ==
  Finished("branch") =>
    LET ins == prog.code[2]
        next == Was(PC) + 4
    IN  r[PC] = (next + IF Relation(ins.op) THEN 2 * Signed(ByteSize, ins.off) ELSE 0)
                  % WordSize

-----------------------------------------------------------------------------
DoubleAdd == <<Op("add", Reg(1), Reg(3)), One("adc", Reg(2)), Op("add", Reg(0), Reg(2))>>
DoubleSubtract == <<Op("sub", Reg(1), Reg(3)), One("sbc", Reg(2)), Op("sub", Reg(0), Reg(2))>>
DoubleNegate == <<One("neg", Reg(2)), One("neg", Reg(3)), One("sbc", Reg(2))>>
DoubleTwice == <<One("asl", Reg(3)), One("rol", Reg(2))>>
DoubleHalve == <<One("asr", Reg(2)), One("ror", Reg(3))>>
DoubleExtend == <<One("tst", Reg(3)), One("sxt", Reg(2))>>

(* The carry makes two words one number: addition, subtraction, negation,  *)
(* doubling, halving and sign extension of the pair R2,R3 are exact modulo *)
(* its size, whatever passes between the halves; doubling and halving      *)
(* leave C the bit that falls out, and doubling V when the sign changed.   *)
DoubleWordExact ==
  LET d == DoubleIs(2, 3)
      was == DoubleWas(2, 3)
      value == Pair(Was(2), Was(3))
  IN  /\ Finished("add") => d = (was + DoubleWas(0, 1)) % DoubleSize
      /\ Finished("subtract") => d = (was - DoubleWas(0, 1)) % DoubleSize
      /\ Finished("negate") => d = (-was) % DoubleSize
      /\ Finished("twice") =>
           /\ d = (2 * was) % DoubleSize
           /\ f.c = (value < 0)
           /\ f.v = ~FitsDouble(2 * value)
      /\ Finished("halve") => Pair(r[2], r[3]) = value \div 2 /\ f.c = Odd(was)
      /\ Finished("extend") => Pair(r[2], r[3]) = Value(3)

-----------------------------------------------------------------------------
ShiftWord == <<Op("ash", Reg(0), Reg(2))>>
ShiftPair == <<Op("ashc", Reg(0), Reg(2))>>

(* One step of the shift of a number d of size s by the count n: [d, c, v] *)
(* with v telling whether the sign has ever changed.                       *)
ShiftOnce(s, left, t) ==
  IF left
  THEN LET d == (2 * t.d) % s
       IN  [d |-> d, c |-> Sign(s, t.d), v |-> t.v \/ Sign(s, d) # Sign(s, t.d)]
  ELSE [d |-> (Signed(s, t.d) \div 2) % s, c |-> Odd(t.d), v |-> FALSE]

ShiftBy(s, d, n) ==
  LET left == n < IntBits
      k == IF left THEN n ELSE 2 * IntBits - n
      steps[i \in 0 .. k] ==
        IF i = 0 THEN [d |-> d, c |-> FALSE, v |-> FALSE]
        ELSE ShiftOnce(s, left, steps[i - 1])
  IN  steps[k]

(* ASH and ASHC give what that many single shifts give: the number, the    *)
(* last bit out in C, and V when the sign changed on the way.  A shift to  *)
(* the right by the full width is left out: the code shifts a C int by its *)
(* width there, and a build may leave a positive number as it was.         *)
ShiftsExact ==
  LET n == Count(Was(2))
      word == ShiftBy(WordSize, Was(0), n)
      double == ShiftBy(DoubleSize, DoubleWas(0, 1), n)
  IN  n # IntBits =>
        /\ Finished("ash") =>
             r[0] = word.d /\ f = Flags(Sign(WordSize, word.d), word.d = 0, word.v, word.c)
        /\ Finished("ashc") =>
             /\ DoubleIs(0, 1) = double.d
             /\ f = Flags(Sign(DoubleSize, double.d), double.d = 0, double.v, double.c)

-----------------------------------------------------------------------------
DivideOnce == <<Op("div", Reg(0), Reg(2))>>
MultiplyDivide == <<Op("mul", Reg(0), Reg(2)), Op("div", Reg(0), Reg(2))>>

(* DIV reports an overflow or gives the one quotient and remainder of a    *)
(* truncating division, the remainder with the sign of the dividend; it    *)
(* reports one only when the quotient does not fit, or is the largest word *)
(* (the comparison dst >= 077777 also refuses that one).  A product        *)
(* divided by a factor is the other factor, with remainder 0.              *)
DivideExact ==
  LET y == Value(2)
      q == Signed(WordSize, r[0])
      rem == Signed(WordSize, r[1])
      dividend == Pair(Was(0), Was(1))
      largest == Half(WordSize) - 1
  IN  /\ Finished("divide") =>
           IF f.v
           THEN /\ r[0] = Was(0) /\ r[1] = Was(1)
                /\ y = 0 \/ Quotient(dividend, y) \notin -Half(WordSize) .. largest - 1
           ELSE /\ y # 0
                /\ q * y + rem = dividend
                /\ rem * rem < y * y
                /\ rem = 0 \/ (rem < 0) = (dividend < 0)
      /\ Finished("product") =>
           \/ y = 0 \/ Value(0) = largest
           \/ ~f.v /\ q = Value(0) /\ rem = 0

(* Carries, shifts and division together: whatever a program computes with *)
(* them is what the same arithmetic gives on integers.                     *)
ArithmeticExact == DoubleWordExact /\ ShiftsExact /\ DivideExact

-----------------------------------------------------------------------------
(* The programs of these kinds are the ones above.                         *)
CodeOf ==
  [branch |-> {CompareBranch(op, off) : op \in BranchOps, off \in 0 .. ByteSize - 1} \cup
              {SubtractBranch(op, off) : op \in BranchOps, off \in 0 .. ByteSize - 1},
   add |-> {DoubleAdd}, subtract |-> {DoubleSubtract}, negate |-> {DoubleNegate},
   twice |-> {DoubleTwice}, halve |-> {DoubleHalve}, extend |-> {DoubleExtend},
   ash |-> {ShiftWord}, ashc |-> {ShiftPair},
   divide |-> {DivideOnce}, product |-> {MultiplyDivide}]

ASSUME KindsAssumption ==
  \A p \in Programs : p.kind \in DOMAIN CodeOf => p.code \in CodeOf[p.kind]
=============================================================================
