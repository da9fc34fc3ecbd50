---------------------------- MODULE FloatingPoint ----------------------------
(***************************************************************************)
(* The floating-point instructions (fp11 of src/src/simh/pdp11_fp.c): the  *)
(* accumulators, the status FPS with its flags and condition codes, and    *)
(* the exceptions, which are signalled or, when their enable bit is clear, *)
(* masked.                                                                 *)
(*                                                                         *)
(* A number is a sign, an exponent and the fraction without its hidden     *)
(* bit; the widths are parameters.  An operand in memory is a cell as wide *)
(* as an accumulator, an integer operand the two words of a long integer,  *)
(* taken as signed; addresses are left to Instructions, whose modes are    *)
(* the same.  The 64-bit shifts and additions of the code are arithmetic   *)
(* on a fraction with Guard more bits.                                     *)
(***************************************************************************)
EXTENDS Integers

CONSTANTS ExpBits,       \* of the exponent: 8
          SingleBits,    \* fraction bits, the hidden one included: 24
          DoubleBits,    \* 56
          ImmediateBits, \* those of an immediate operand: 8
          IntegerBits,   \* of an integer word: 16
          Floats         \* what may be executed: records with sets of instructions
                         \* "code", accumulators "acs", floating and integer
                         \* operands "cells" and "wholes", status words "flags"

Guard == 3               \* FP_GUARD

ASSUME FloatAssumption ==
  /\ {ExpBits, SingleBits, DoubleBits, ImmediateBits, IntegerBits} \subseteq Nat \ {0}
  /\ ImmediateBits < SingleBits /\ SingleBits < DoubleBits
  /\ 2 * IntegerBits < DoubleBits
  /\ DoubleBits + Guard < 2 ^ (ExpBits - 1)

Bias == 2 ^ (ExpBits - 1)
Exps == 2 ^ ExpBits
Hidden == 2 ^ (DoubleBits - 1)
GuardedBits == DoubleBits + Guard
Numbers == [neg : BOOLEAN, exp : 0 .. Exps - 1, frac : 0 .. Hidden - 1]
ZeroFac == [neg |-> FALSE, exp |-> 0, frac |-> 0]

StatusFlags == {"er", "id", "iuv", "iu", "iv", "ic", "d", "l", "t", "n", "z", "v", "c"}
FloatCodes == {"n", "z", "v", "c"}

(* Operand specifiers: an accumulator by its number, 6 and 7 being none; a *)
(* cell of memory; an immediate operand; a general register for integers.  *)
VARIABLES
  fr,       \* FR: the six accumulators
  fps,      \* FPS: the set of its bits that are on
  fec,      \* FEC
  cell,     \* the floating operand in memory
  whole,    \* the integer operand, or the first word of it
  saved,    \* the status word in memory
  fcodes,   \* the codes an instruction copies to the PSW
  fpTraps,  \* "fpe" for setTRAP(TRAP_FPE), "int" for ABORT(TRAP_INT)
  before,   \* history: what there was before the instruction, and it
  done      \* history: it has been executed

fpVars == <<fr, fps, fec, cell, whole, saved, fcodes, fpTraps, before, done>>

-----------------------------------------------------------------------------
(* The machine within an instruction; ok is FALSE after an ABORT, src is   *)
(* the operand read, and fac, rest and newV are what a calculation has     *)
(* returned.                                                               *)
Machine == [fr |-> fr, fps |-> fps, fec |-> fec, cell |-> cell, whole |-> whole,
            saved |-> saved, codes |-> fcodes, traps |-> {}, ok |-> TRUE,
            src |-> ZeroFac, fac |-> ZeroFac, rest |-> ZeroFac, newV |-> FALSE]

(* Lengths: the weight of the last fraction bit an operand of that length  *)
(* holds.                                                                  *)
LastBit(len) ==
  CASE len = "quad" -> 1
    [] len = "long" -> 2 ^ (DoubleBits - SingleBits)
    [] len = "word" -> 2 ^ (DoubleBits - ImmediateBits)
Len0(m) == IF "d" \in m.fps THEN "quad" ELSE "long"
Len1(m) == IF "d" \in m.fps THEN "long" ELSE "quad"  \* 12 - lenf

(* F_LOAD drops the bits the length has not, F_STORE leaves them.          *)
Narrow(x, len) == [x EXCEPT !.frac = (@ \div LastBit(len)) * LastBit(len)]
Over(x, old, len) ==
  [x EXCEPT !.frac = Narrow(x, len).frac + (old.frac % LastBit(len))]

(* fpnotrap                                                                *)
EnableBit == [icvt |-> "ic", ovflo |-> "iv", unflo |-> "iu", undfv |-> "iuv"]
Masked(m, code) == code \in DOMAIN EnableBit /\ EnableBit[code] \notin m.fps
Signal(m, code) ==
  IF Masked(m, code) THEN m
  ELSE [m EXCEPT !.fps = @ \cup {"er"}, !.fec = code,
                 !.traps = IF "id" \in m.fps THEN @ ELSE @ \cup {"fpe"}]
Refuse(m, code) ==
  LET t == Signal(m, code) IN [t EXCEPT !.ok = FALSE, !.traps = @ \cup {"int"}]

setfcc(flags, x, v) ==
  (flags \ FloatCodes) \cup (IF v THEN {"v"} ELSE {}) \cup (IF x.neg THEN {"n"} ELSE {})
    \cup (IF x.exp = 0 THEN {"z"} ELSE {})

-----------------------------------------------------------------------------
Fraction(x) == Hidden + x.frac
Guarded(x) == Fraction(x) * 2 ^ Guard
Magnitude(x) == x.exp * Hidden + x.frac
Returned(m, x, v) == [m EXCEPT !.fac = x, !.newV = v]

(* A result that does not fit is replaced by zero when its exception is    *)
(* masked; otherwise it keeps the exponent's low bits.                     *)
InRange(m, x, code, v) ==
  Returned(Signal(m, code), IF Masked(m, code) THEN ZeroFac ELSE x, v)

HalfBit(m) == (LastBit(Len0(m)) * 2 ^ Guard) \div 2
Rounding(m, round) == IF round /\ "t" \notin m.fps THEN HalfBit(m) ELSE 0

Pack(m, neg, exp, frac) ==
  LET x == [neg |-> neg, exp |-> exp % Exps, frac |-> (frac \div 2 ^ Guard) % Hidden]
  IN  CASE exp >= Exps -> InRange(m, x, "ovflo", TRUE)
        [] exp <= 0 -> InRange(m, x, "unflo", FALSE)
        [] OTHER -> Returned(m, x, FALSE)

(* Slip: the carry out of the rounding is not passed to the exponent.      *)
RoundAndPack_NoCarry(m, neg, exp, frac, round) ==
  Pack(m, neg, exp, frac + Rounding(m, round))

RoundAndPack(m, neg, exp, frac, round) ==
  LET g == frac + Rounding(m, round)
  IN  IF g >= 2 ^ GuardedBits THEN Pack(m, neg, exp + 1, g \div 2) ELSE Pack(m, neg, exp, g)

(* A guarded fraction is shifted until its first bit is in place.          *)
Normalised(exp, frac) ==
  IF frac >= 2 ^ GuardedBits THEN [exp |-> exp + 1, frac |-> frac \div 2]
  ELSE LET k == CHOOSE n \in 0 .. GuardedBits : frac * 2 ^ n \in 2 ^ (GuardedBits - 1) .. 2 ^ GuardedBits - 1
       IN  [exp |-> exp - k, frac |-> frac * 2 ^ k]
Settle(m, neg, n, round) == RoundAndPack(m, neg, n.exp, n.frac, round)

addfp11(m, x, y) ==
  LET a == IF Magnitude(x) < Magnitude(y) THEN y ELSE x
      b == IF Magnitude(x) < Magnitude(y) THEN x ELSE y
      ediff == a.exp - b.exp
      aligned == Guarded(b) \div 2 ^ ediff
      total == Guarded(a) + (IF a.neg = b.neg THEN aligned ELSE -aligned)
  IN  CASE a.exp = 0 -> Returned(m, ZeroFac, FALSE)
        [] a.exp # 0 /\ (b.exp = 0 \/ ediff > GuardedBits) -> Returned(m, a, FALSE)
        [] OTHER ->
             IF total = 0 THEN Returned(m, ZeroFac, FALSE)
             ELSE Settle(m, a.neg, Normalised(a.exp, total), TRUE)

(* frac_mulfp11, and the exponent of the product.                          *)
TimesFrac(x, y) ==
  Normalised(x.exp + y.exp - Bias, (Fraction(x) * Guarded(y)) \div 2 ^ DoubleBits)
mulfp11(m, x, y) ==
  IF x.exp = 0 \/ y.exp = 0 THEN Returned(m, ZeroFac, FALSE)
  ELSE Settle(m, x.neg # y.neg, TimesFrac(x, y), TRUE)

(* As many quotient bits as the length has, and the guard bits.            *)
QuotientFrac(m, x, y) ==
  LET low == LastBit(Len0(m))
      quo == (Fraction(x) * (2 ^ (GuardedBits - 1) \div low)) \div Fraction(y)
  IN  Normalised(x.exp - y.exp + Bias + 1, quo * low)
divfp11(m, x, y) ==
  CASE y.exp = 0 -> Refuse(m, "dzro")
    [] y.exp # 0 /\ x.exp = 0 -> Returned(m, ZeroFac, FALSE)
    [] y.exp # 0 /\ x.exp # 0 ->
         Settle(m, x.neg # y.neg, QuotientFrac(m, x, y), TRUE)

(* The product's integer part goes to fac, its fraction to rest.           *)
modfp11(m, x, y) ==
  LET p == TimesFrac(x, y)
      neg == x.neg # y.neg
      unit == 2 ^ (GuardedBits - (p.exp - Bias))  \* the weight of one
      part == p.frac % unit
      whole0 == RoundAndPack(m, neg, p.exp, p.frac - part, FALSE)
      frac0 == Settle(m, neg, Normalised(Bias, part * 2 ^ (p.exp - Bias)), TRUE)
  IN  CASE x.exp = 0 \/ y.exp = 0 -> Returned(m, ZeroFac, FALSE)
        [] x.exp # 0 /\ y.exp # 0 /\ p.exp <= Bias ->
             LET t == RoundAndPack(m, neg, p.exp, p.frac, TRUE)
             IN  [t EXCEPT !.rest = t.fac, !.fac = ZeroFac]
        [] x.exp # 0 /\ y.exp # 0
           /\ p.exp > Bias + (IF "d" \in m.fps THEN DoubleBits ELSE SingleBits) ->
             RoundAndPack(m, neg, p.exp, p.frac, FALSE)
        [] OTHER -> [whole0 EXCEPT !.rest = IF part = 0 THEN ZeroFac ELSE frac0.fac]

(* In place, to single precision; the exponent may overflow into the sign. *)
roundfp11(m, x) ==
  LET g == Magnitude(x) + LastBit("long") \div 2
      out == [neg |-> x.neg, exp |-> (g \div Hidden) % Exps, frac |-> g % Hidden]
  IN  IF g >= Exps * Hidden THEN InRange(m, out, "ovflo", TRUE) ELSE Returned(m, out, FALSE)
-----------------------------------------------------------------------------
(* Operands: [kind |-> "ac", "mem" or "imm", n |-> the accumulator]; those *)
(* in memory that are minus zero are undefined variables.                  *)
GeteaFP(m, dst) == IF dst.kind = "ac" /\ dst.n >= 6 THEN Refuse(m, "op") ELSE m
LenOf(dst, len) == IF dst.kind = "imm" THEN "word" ELSE len

ReadFP(m, dst, len) ==
  LET t == GeteaFP(m, dst)
      x == Narrow(IF dst.kind = "ac" THEN t.fr[dst.n] ELSE t.cell, LenOf(dst, len))
      undefined == dst.kind # "ac" /\ x.neg /\ x.exp = 0
  IN  IF ~t.ok THEN t
      ELSE IF undefined /\ ~Masked(t, "undfv") THEN Refuse(t, "undfv")
      ELSE [t EXCEPT !.src = x]

WriteFP(m, dst, x, len) ==
  LET t == GeteaFP(m, dst)
  IN  IF ~t.ok THEN t
      ELSE IF dst.kind = "ac" THEN [t EXCEPT !.fr[dst.n] = Over(x, @, len)]
      ELSE [t EXCEPT !.cell = Over(x, @, LenOf(dst, len))]

WithFcc(m, x, v) == IF m.ok THEN [m EXCEPT !.fps = setfcc(@, x, v)] ELSE m
StoreAc(m, ac, x) == [m EXCEPT !.fr[ac] = Over(x, @, Len0(m))]
LoadAc(m, ac) == Narrow(m.fr[ac], Len0(m))
Cleaned(x) == IF x.exp = 0 THEN ZeroFac ELSE x
Negated(x) == [x EXCEPT !.neg = ~@]

(* ADDf, SUBf, MULf, DIVf and MODf, after their operand has been read.     *)
Calculated(m, op, fac) ==
  CASE op = "add" -> addfp11(m, fac, m.src)
    [] op = "sub" -> addfp11(m, fac, IF m.src.exp = 0 THEN m.src ELSE Negated(m.src))
    [] op = "mul" -> mulfp11(m, fac, m.src)
    [] op = "div" -> divfp11(m, fac, m.src)
    [] op = "mod" -> modfp11(m, fac, m.src)

NextAc(ac) == 2 * (ac \div 2) + 1  \* ac | 1
Calculate(m, i) ==
  LET t == Calculated(m, i.op, LoadAc(m, i.ac))
  IN  IF ~t.ok THEN t
      ELSE IF i.op = "mod"
           THEN WithFcc(StoreAc(StoreAc(t, NextAc(i.ac), t.fac), i.ac, t.rest), t.rest, t.newV)
      ELSE WithFcc(StoreAc(t, i.ac, t.fac), t.fac, t.newV)

Compare(m, i) ==
  LET x == Cleaned(m.src)
      y == Cleaned(LoadAc(m, i.ac))
      nearer == x.neg = y.neg /\ Magnitude(x) < Magnitude(y)
      codes == IF x = y THEN {"z"} ELSE IF x.neg # nearer THEN {"n"} ELSE {}
      t == [m EXCEPT !.fps = (@ \ FloatCodes) \cup codes]
  IN  IF x = y /\ x = ZeroFac THEN StoreAc(t, i.ac, ZeroFac) ELSE t

(* LDCff' and STCff' round when they convert to single precision.          *)
ToShorter(m, x) ==
  IF "d" \notin m.fps /\ "t" \notin m.fps THEN roundfp11(m, x) ELSE Returned(m, x, FALSE)
FromLonger(m, x) ==
  IF "d" \in m.fps /\ "t" \notin m.fps THEN roundfp11(m, x) ELSE Returned(m, x, FALSE)

LoadConverted(m, i) ==
  LET t == ToShorter(m, Cleaned(m.src))
  IN  WithFcc(StoreAc(t, i.ac, t.fac), t.fac, t.newV)
StoreConverted(m, i) ==
  LET t == FromLonger(m, Cleaned(LoadAc(m, i.ac)))
  IN  WithFcc(WriteFP(t, i.dst, t.fac, Len1(m)), t.fac, t.newV)

WithSource(m, i) ==
  CASE i.op = "tst" -> WithFcc(m, m.src, FALSE)
    [] i.op = "abs" ->
         LET x == [Cleaned(m.src) EXCEPT !.neg = FALSE]
         IN  WithFcc(WriteFP(m, i.dst, x, Len0(m)), x, FALSE)
    [] i.op = "neg" ->
         LET x == IF m.src.exp = 0 THEN ZeroFac ELSE Negated(m.src)
         IN  WithFcc(WriteFP(m, i.dst, x, Len0(m)), x, FALSE)
    [] i.op = "ld" -> WithFcc(StoreAc(m, i.ac, m.src), m.src, FALSE)
    [] i.op = "ldc" -> LoadConverted(m, i)
    [] i.op = "cmp" -> Compare(m, i)
    [] OTHER -> Calculate(m, i)

-----------------------------------------------------------------------------
(* Integer operands: a register holds one word, taken for the first of a   *)
(* long integer, and so does an immediate operand.                         *)
IntWords == 2 ^ IntegerBits
High(x) == x \div IntWords
LongOperand(m, dst) == "l" \in m.fps /\ dst.kind = "mem"

ReadI(m, dst) ==
  CASE LongOperand(m, dst) -> m.whole
    [] ~LongOperand(m, dst) /\ "l" \in m.fps -> High(m.whole) * IntWords
    [] ~LongOperand(m, dst) /\ "l" \notin m.fps -> High(m.whole)
WriteI(m, dst, x) ==
  IF LongOperand(m, dst) THEN [m EXCEPT !.whole = x]
  ELSE [m EXCEPT !.whole = (IF "l" \in m.fps THEN High(x) ELSE x) * IntWords + (@ % IntWords)]

FloatOf(x) ==
  LET size == IF x < 0 THEN -x ELSE x
      k == CHOOSE n \in 1 .. 2 * IntegerBits : size \in 2 ^ (n - 1) .. 2 ^ n - 1
  IN  IF x = 0 THEN ZeroFac
      ELSE [neg |-> x < 0, exp |-> Bias + k, frac |-> size * 2 ^ (DoubleBits - k) - Hidden]
LoadInteger(m, i) ==
  LET t == ToShorter(m, FloatOf(ReadI(m, i.dst)))
      x == IF ReadI(m, i.dst) = 0 THEN ZeroFac ELSE t.fac
  IN  WithFcc(StoreAc(t, i.ac, x), x, FALSE)

StoreInteger(m, i) ==
  LET x == LoadAc(m, i.ac)
      bits == IF "l" \in m.fps THEN 2 * IntegerBits ELSE IntegerBits
      size == (Fraction(x) * 2 ^ (x.exp - Bias)) \div 2 ^ DoubleBits
      tooBig == \/ x.exp > Bias + bits
                \/ x.exp > Bias /\ size >= 2 ^ (bits - 1) + (IF x.neg THEN 1 ELSE 0)
      value == IF x.exp <= Bias \/ tooBig THEN 0 ELSE IF x.neg THEN -size ELSE size
      codes == (IF value < 0 THEN {"n"} ELSE {}) \cup (IF value = 0 THEN {"z"} ELSE {})
               \cup (IF tooBig THEN {"c"} ELSE {})
      t == IF tooBig THEN Signal(m, "icvt") ELSE m
  IN  WriteI([t EXCEPT !.fps = (@ \ FloatCodes) \cup codes, !.codes = codes], i.dst, value)

LoadExponent(m, i) ==
  LET e == High(m.whole)
      x == [LoadAc(m, i.ac) EXCEPT !.exp = (e + Bias) % Exps]
      t == CASE e >= Bias -> InRange(m, x, "ovflo", TRUE)
             [] e <= -Bias -> InRange(m, x, "unflo", FALSE)
             [] OTHER -> Returned(m, x, FALSE)
  IN  WithFcc(StoreAc(t, i.ac, t.fac), t.fac, t.newV)
StoreExponent(m, i) ==
  LET e == m.fr[i.ac].exp - Bias
      codes == (IF e < 0 THEN {"n"} ELSE {}) \cup (IF e = 0 THEN {"z"} ELSE {})
  IN  [m EXCEPT !.fps = (@ \ FloatCodes) \cup codes, !.codes = codes,
                !.whole = e * IntWords + (@ % IntWords)]

-----------------------------------------------------------------------------
(* The instructions on the status, those that read no floating operand,    *)
(* and those that do.                                                      *)
StatusOps == {"cfcc", "setf", "seti", "setd", "setl", "ldfps", "stfps", "stst"}
SourceOps == {"tst", "abs", "neg", "ld", "ldc", "cmp", "add", "sub", "mul", "div", "mod"}

StatusOp(m, op) ==
  CASE op = "cfcc" -> [m EXCEPT !.codes = m.fps \cap FloatCodes]
    [] op = "setf" -> [m EXCEPT !.fps = @ \ {"d"}]
    [] op = "seti" -> [m EXCEPT !.fps = @ \ {"l"}]
    [] op = "setd" -> [m EXCEPT !.fps = @ \cup {"d"}]
    [] op = "setl" -> [m EXCEPT !.fps = @ \cup {"l"}]
    [] op = "ldfps" -> [m EXCEPT !.fps = m.saved \cap StatusFlags]
    [] op = "stfps" -> [m EXCEPT !.saved = m.fps]
    [] op = "stst" -> [m EXCEPT !.saved = {m.fec}]

fp11(m, i) ==
  CASE i.op \in StatusOps -> StatusOp(m, i.op)
    [] i.op \in SourceOps ->
         LET t == ReadFP(m, i.dst, IF i.op = "ldc" THEN Len1(m) ELSE Len0(m))
         IN  IF t.ok THEN WithSource(t, i) ELSE t
    [] i.op = "clr" -> WithFcc(WriteFP(m, i.dst, ZeroFac, Len0(m)), ZeroFac, FALSE)
    [] i.op = "st" -> WriteFP(m, i.dst, LoadAc(m, i.ac), Len0(m))
    [] i.op = "stc" -> StoreConverted(m, i)
    [] i.op = "ldexp" -> LoadExponent(m, i)
    [] i.op = "stexp" -> StoreExponent(m, i)
    [] i.op = "ldci" -> LoadInteger(m, i)
    [] i.op = "stci" -> StoreInteger(m, i)
    [] OTHER -> Signal(m, "op")

OtherAc == [neg |-> TRUE, exp |-> Bias, frac |-> Hidden - 1]
FloatRest ==
  /\ fr = [n \in 0 .. 5 |-> OtherAc]
  /\ fps = {} /\ fec = "none" /\ cell = ZeroFac /\ whole = 0 /\ saved = {}
  /\ fcodes = {} /\ fpTraps = {}
  /\ before = [op |-> "none"]
  /\ done = TRUE

FloatInit ==
  \E run \in Floats : \E i \in run.code, x \in run.acs, y \in run.cells, n \in run.wholes,
                        flags \in run.flags :
    /\ fr = [k \in 0 .. 5 |-> IF k = 0 THEN x ELSE IF k = 4 THEN y ELSE OtherAc]
    /\ fps = flags /\ fec = "none" /\ cell = y /\ whole = n /\ saved = flags \cup {"n"}
    /\ fcodes = {} /\ fpTraps = {}
    /\ before = [op |-> i.op, ac |-> i.ac, dst |-> i.dst, fr |-> fr, fps |-> fps, cell |-> cell,
                 whole |-> whole, saved |-> saved]
    /\ done = FALSE

Fp11 ==
  /\ ~done
  /\ \E m \in {fp11(Machine, before)} :
       /\ fr' = m.fr /\ fps' = m.fps /\ fec' = m.fec
       /\ cell' = m.cell /\ whole' = m.whole /\ saved' = m.saved
       /\ fcodes' = m.codes /\ fpTraps' = m.traps
  /\ done' = TRUE
  /\ UNCHANGED before

-----------------------------------------------------------------------------
(* What the results must be.  A true result is sign, n / d times 2^k; in p *)
(* bits it is the multiple of its last bit that the given quarters of that *)
(* bit, added, do not pass: none to truncate, two to round half up.        *)
Scaled(n, d, j) == IF j >= 0 THEN (n * 2 ^ j) \div d ELSE n \div (d * 2 ^ (-j))
LeadBit(n, d) == CHOOSE e \in -DoubleBits .. 4 * DoubleBits : Scaled(n, d, 1 - e) = 1

InBits(t, p, quarters) ==
  LET e == LeadBit(t.n, t.d)
      q == (Scaled(t.n, t.d, p - e + 2) + quarters) \div 4
  IN  IF q = 2 ^ p THEN [neg |-> t.neg, exp |-> Bias + e + t.k + 1, frac |-> 0]
      ELSE [neg |-> t.neg, exp |-> Bias + e + t.k, frac |-> q * 2 ^ (DoubleBits - p) - Hidden]

True(neg, n, d, k) == [neg |-> neg, n |-> n, d |-> d, k |-> k]
Had(flag) == flag \in before.fps
WasLen == IF Had("d") THEN "quad" ELSE "long"
WasBits == IF Had("d") THEN DoubleBits ELSE SingleBits
Quarters == IF Had("t") THEN 0 ELSE 2
WasAc == Narrow(before.fr[before.ac], WasLen)
Source(len) ==
  Narrow(IF before.dst.kind = "ac" THEN before.fr[before.dst.n] ELSE before.cell,
         LenOf(before.dst, len))
IsZero(x) == x.exp = 0
Order(x) == IF IsZero(x) THEN 0 ELSE IF x.neg THEN -Magnitude(x) ELSE Magnitude(x)
Low(a, b) == IF a < b THEN a ELSE b

(* An exception is signalled exactly when it is enabled.                   *)
SignalledIs(code) ==
  IF code = "none" \/ (code \in DOMAIN EnableBit /\ ~Had(EnableBit[code]))
  THEN fec = "none" /\ fpTraps = {}
  ELSE fec = code /\ "er" \in fps /\ ("fpe" \in fpTraps <=> ~Had("id"))

(* Where x, of an exponent without bounds, is left: out of range it is     *)
(* zero, or with the exception enabled the exponent wraps.                 *)
Missed(x) == IF x.exp >= Exps THEN "ovflo" ELSE IF x.exp <= 0 THEN "unflo" ELSE "none"
Kept(x) ==
  IF Missed(x) = "none" THEN x
  ELSE IF Had(EnableBit[Missed(x)]) THEN [x EXCEPT !.exp = @ % Exps] ELSE ZeroFac
CodesAre(x, v) == fps \cap FloatCodes = setfcc({}, x, v)
LeftIn(ac, x) == fr[ac] = Over(Kept(x), before.fr[ac], WasLen)
ResultIs(x) ==
  /\ LeftIn(before.ac, x)
  /\ CodesAre(Kept(x), x.exp >= Exps)
  /\ SignalledIs(Missed(x))

ZeroIs ==
  /\ fr[before.ac] = Over(ZeroFac, before.fr[before.ac], WasLen)
  /\ CodesAre(ZeroFac, FALSE)
  /\ SignalledIs("none")
NumberIs(x) == IF IsZero(x) THEN ZeroIs ELSE ResultIs(x)

(* The sum of two numbers that are not zero; a subtraction of fractions    *)
(* may take its result for a quarter of the last bit larger.               *)
SumIs(x, y) ==
  LET base == Low(x.exp, y.exp)
      signed(z) == (IF z.neg THEN -1 ELSE 1) * Fraction(z) * 2 ^ (z.exp - base)
      n == signed(x) + signed(y)
      t == True(n < 0, IF n < 0 THEN -n ELSE n, 1, base - Bias - DoubleBits)
      slack == IF x.neg = y.neg THEN {0} ELSE {0, 1}
  IN  CASE x.exp - y.exp > 2 * DoubleBits -> ResultIs(x)
        [] y.exp - x.exp > 2 * DoubleBits -> ResultIs(y)
        [] OTHER -> IF n = 0 THEN ZeroIs
                    ELSE \E more \in slack : ResultIs(InBits(t, WasBits, Quarters + more))

AddIs(x, y) ==
  CASE IsZero(x) -> NumberIs(y)
    [] ~IsZero(x) /\ IsZero(y) -> NumberIs(x)
    [] ~IsZero(x) /\ ~IsZero(y) -> SumIs(x, y)

ProductOf(x, y) ==
  True(x.neg # y.neg, Fraction(x) * Fraction(y), 1, x.exp + y.exp - 2 * (Bias + DoubleBits))
QuotientOf(x, y) == True(x.neg # y.neg, Fraction(x), Fraction(y), x.exp - y.exp)

(* The integer part of the product, toward zero, goes to ac | 1, and to ac *)
(* what is left of the product in the bits a double fraction and its guard *)
(* bits have; ac | 1 keeps the integer only when it is another one.        *)
ModIs(x, y) ==
  LET all == ProductOf(x, y)
      t == [all EXCEPT !.n = @ - (@ % 2 ^ (DoubleBits - Guard))]
      e == LeadBit(t.n, 1) + t.k
      unit == 2 ^ (-t.k)
      int == CASE e <= 0 -> ZeroFac
               [] e > WasBits -> InBits(t, WasBits, 0)
               [] OTHER -> InBits(True(t.neg, t.n \div unit, 1, 0), DoubleBits, 0)
      left == CASE e <= 0 -> InBits(t, WasBits, Quarters)
                [] e > WasBits -> ZeroFac
                [] OTHER -> IF t.n % unit = 0 THEN ZeroFac
                            ELSE InBits(True(t.neg, t.n % unit, unit, 0), WasBits, Quarters)
      missed == CASE e <= 0 -> Missed(left) [] e > WasBits -> Missed(int) [] OTHER -> "none"
      kept(z) == IF z = ZeroFac THEN z ELSE Kept(z)
      odd == NextAc(before.ac)
  IN  /\ odd # before.ac => fr[odd] = Over(kept(int), before.fr[odd], WasLen)
      /\ fr[before.ac] = Over(kept(left), before.fr[before.ac], WasLen)
      /\ CodesAre(kept(left), missed = "ovflo")
      /\ SignalledIs(missed)

ComparedIs(x, y) ==
  fps \cap FloatCodes = (IF Order(x) = Order(y) THEN {"z"} ELSE {})
                          \cup (IF Order(x) < Order(y) THEN {"n"} ELSE {})

(* An integer loaded is exact, or rounded when a single holds fewer bits;  *)
(* stored, it is truncated toward zero, or zero and C when it cannot hold  *)
(* the number.                                                             *)
IntegerIs(x) ==
  IF x = 0 THEN ZeroIs ELSE ResultIs(InBits(True(x < 0, IF x < 0 THEN -x ELSE x, 1, 0), WasBits, Quarters))

StoredIs(x) ==
  LET bits == IF Had("l") THEN 2 * IntegerBits ELSE IntegerBits
      k == x.exp - Bias
      size == IF k <= 0 THEN 0
              ELSE IF k > bits THEN 2 ^ bits
              ELSE (Fraction(x) * 2 ^ k) \div 2 ^ DoubleBits
      value == IF x.neg THEN -size ELSE size
      fits == value \in -(2 ^ (bits - 1)) .. 2 ^ (bits - 1) - 1
      wanted == IF fits THEN value ELSE 0
  IN  /\ IF bits = IntegerBits THEN High(whole) = wanted
         ELSE IF before.dst.kind = "mem" THEN whole = wanted
         ELSE High(whole) = High(wanted)
      /\ fps \cap FloatCodes = (IF wanted < 0 THEN {"n"} ELSE {})
           \cup (IF wanted = 0 THEN {"z"} ELSE {}) \cup (IF fits THEN {} ELSE {"c"})
      /\ fcodes = fps \cap FloatCodes
      /\ SignalledIs(IF fits THEN "none" ELSE "icvt")

Longer(x) == True(x.neg, Fraction(x), 1, x.exp - Bias - DoubleBits)
ConvertedTo(x, single) ==
  IF single THEN InBits(Longer(x), SingleBits, Quarters) ELSE x
LoadedIs(x) == IF IsZero(x) THEN ZeroIs ELSE ResultIs(ConvertedTo(x, ~Had("d")))
StoreConvertedIs(x) ==
  LET y == IF IsZero(x) THEN ZeroFac ELSE ConvertedTo(x, Had("d"))
      z == IF IsZero(x) THEN ZeroFac ELSE Kept(y)
      len == IF Had("d") THEN "long" ELSE "quad"
  IN  /\ IF before.dst.kind = "ac" THEN fr[before.dst.n] = Over(z, before.fr[before.dst.n], len)
         ELSE cell = Over(z, before.cell, LenOf(before.dst, len))
      /\ CodesAre(z, ~IsZero(x) /\ y.exp >= Exps)
      /\ SignalledIs(IF IsZero(x) THEN "none" ELSE Missed(y))

Refused ==
  "int" \in fpTraps =>
    /\ fr = before.fr /\ cell = before.cell /\ whole = before.whole
    /\ fps = before.fps \cup {"er"}
    /\ fec \in {"op", "dzro", "undfv"} /\ "er" \in fps

(* Floating-point instructions compute the numbers they should: sums,      *)
(* products, quotients, conversions and the two parts of MOD are the exact *)
(* result, truncated or rounded to the length in force, whichever way the  *)
(* fraction had to be shifted and wherever the rounding carries; a result  *)
(* out of range is zero, or wraps and is signalled, as its exception is    *)
(* masked or enabled; and an instruction that aborts has changed nothing   *)
(* but the error it reports.                                               *)
FloatExact ==
  done /\ before.op # "none" =>
    /\ Refused
    /\ "int" \notin fpTraps =>
         LET x == WasAc
             y == Source(WasLen)
         IN  CASE before.op = "add" -> AddIs(x, y)
               [] before.op = "sub" -> AddIs(x, IF IsZero(y) THEN y ELSE Negated(y))
               [] before.op = "mul" -> IF IsZero(x) \/ IsZero(y) THEN ZeroIs
                                       ELSE ResultIs(InBits(ProductOf(x, y), WasBits, Quarters))
               [] before.op = "div" -> IF IsZero(x) THEN ZeroIs
                                       ELSE ResultIs(InBits(QuotientOf(x, y), WasBits, Quarters))
               [] before.op = "mod" -> IsZero(x) \/ IsZero(y) \/ ModIs(x, y)
               [] before.op = "cmp" -> ComparedIs(y, x)
               [] before.op = "ldci" ->
                    IntegerIs(IF ~Had("l") THEN High(before.whole)
                              ELSE IF before.dst.kind = "mem" THEN before.whole
                              ELSE High(before.whole) * IntWords)
               [] before.op = "stci" -> StoredIs(x)
               [] before.op = "ldexp" -> ResultIs([x EXCEPT !.exp = Bias + High(before.whole)])
               [] before.op = "ldc" -> LoadedIs(Source(IF Had("d") THEN "long" ELSE "quad"))
               [] before.op = "stc" -> StoreConvertedIs(x)
               [] OTHER -> TRUE
=============================================================================
