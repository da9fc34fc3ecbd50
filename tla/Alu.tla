--------------------------------- MODULE Alu ---------------------------------
(***************************************************************************)
(* What the instructions compute: results and condition codes of the       *)
(* opcode cases of sim_instr (src/src/simh/pdp11_cpu.c).  The word and the *)
(* byte form of an instruction are the same computation at two sizes, so   *)
(* an operator takes the size: s is the number of values of the operand,   *)
(* 2^16 or 2^8 in the code.  A masked sum is Wrap, the sign bit is Sign,   *)
(* and a formula on sign bits, such as                                     *)
(*   V = GET_SIGN_W ((src ^ src2) & (~src2 ^ dst))                         *)
(* is the same formula on the signs.  f stands for the codes before the    *)
(* instruction.                                                            *)
(***************************************************************************)
EXTENDS Integers

CONSTANTS ByteBits,       \* 8 in the code
          FullShiftKeeps  \* what the build makes of a C shift by all 32 bits,
                          \* which C leaves undefined: TRUE, the operand is
                          \* left as it is (x86); FALSE, every bit goes

ASSUME ByteBitsAssumption == ByteBits \in Nat \ {0, 1}
ASSUME FullShiftAssumption == FullShiftKeeps \in BOOLEAN

WordBits == 2 * ByteBits
IntBits == 2 * WordBits  \* the width of C's int
TwoTo[n \in 0 .. IntBits] == IF n = 0 THEN 1 ELSE 2 * TwoTo[n - 1]
ByteSize == TwoTo[ByteBits]
WordSize == TwoTo[WordBits]
Word == 0 .. WordSize - 1

Wrap(s, x) == IF x < 0 THEN x + s ELSE IF x >= s THEN x - s ELSE x
Half(s) == s \div 2
Sign(s, x) == x >= Half(s)
Signed(s, x) == IF Sign(s, x) THEN x - s ELSE x
Odd(x) == x % 2 = 1
OneIf(b) == IF b THEN 1 ELSE 0

Flags(n, z, v, c) == [n |-> n, z |-> z, v |-> v, c |-> c]
Result(s, d, v, c) == [d |-> d, f |-> Flags(Sign(s, d), d = 0, v, c)]

-----------------------------------------------------------------------------
(* One operand.                                                            *)
Com(s, x, f) == Result(s, s - 1 - x, FALSE, TRUE)

Inc(s, x, f) ==
  LET d == Wrap(s, x + 1) IN Result(s, d, d = Half(s), f.c)

Dec(s, x, f) ==
  LET d == Wrap(s, x - 1) IN Result(s, d, d = Half(s) - 1, f.c)

Neg(s, x, f) ==
  LET d == Wrap(s, -x) IN Result(s, d, d = Half(s), d # 0)

Adc(s, x, f) ==
  LET d == Wrap(s, x + OneIf(f.c))
  IN  Result(s, d, f.c /\ d = Half(s), f.c /\ d = 0)

Sbc(s, x, f) ==
  LET d == Wrap(s, x - OneIf(f.c))
  IN  Result(s, d, f.c /\ d = Half(s) - 1, f.c /\ d = s - 1)

Tst(s, x, f) == Result(s, x, FALSE, FALSE)

(* The shifts by one set V when the sign of the result and the bit shifted *)
(* out differ.                                                             *)
Shifted(s, d, out) == Result(s, d, Sign(s, d) # out, out)

Ror(s, x, f) == Shifted(s, (x \div 2) + (IF f.c THEN Half(s) ELSE 0), Odd(x))
Asr(s, x, f) == Shifted(s, (x \div 2) + (IF Sign(s, x) THEN Half(s) ELSE 0), Odd(x))
Rol(s, x, f) == Shifted(s, Wrap(s, 2 * x + OneIf(f.c)), Sign(s, x))
Asl(s, x, f) == Shifted(s, Wrap(s, 2 * x), Sign(s, x))

(* The codes of SWAB are those of the new low byte.                        *)
Swab(x) ==
  LET d == (x % ByteSize) * ByteSize + (x \div ByteSize)
  IN  [Result(ByteSize, d % ByteSize, FALSE, FALSE) EXCEPT !.d = d]

Sxt(f) == [d |-> IF f.n THEN WordSize - 1 ELSE 0,
           f |-> Flags(f.n, ~f.n, FALSE, f.c)]

-----------------------------------------------------------------------------
(* Two operands; src2 is the destination.                                  *)
Bits(x) == {i \in 0 .. WordBits - 1 : Odd(x \div TwoTo[i])}
FromBits(S) ==
  LET below[n \in 0 .. WordBits] ==
        IF n = 0 THEN 0 ELSE below[n - 1] + IF n - 1 \in S THEN TwoTo[n - 1] ELSE 0
  IN  below[WordBits]

Logical(s, S, f) == Result(s, FromBits(S), FALSE, f.c)

Mov(s, src, f) == Result(s, src, FALSE, f.c)
Bit(s, src, src2, f) == Logical(s, Bits(src) \cap Bits(src2), f)
Bic(s, src, src2, f) == Logical(s, Bits(src2) \ Bits(src), f)
Bis(s, src, src2, f) == Logical(s, Bits(src) \cup Bits(src2), f)
Xor(s, src, src2, f) ==
  Logical(s, (Bits(src) \ Bits(src2)) \cup (Bits(src2) \ Bits(src)), f)

(* Slip: V as SUB computes it, with the operands the other way round.      *)
Cmp_SubOverflow(s, src, src2, f) ==
  LET d == Wrap(s, src - src2)
  IN  Result(s, d,
             Sign(s, src) # Sign(s, src2) /\ Sign(s, src) = Sign(s, d),
             src < src2)

Cmp(s, src, src2, f) ==
  LET d == Wrap(s, src - src2)
  IN  Result(s, d,
             Sign(s, src) # Sign(s, src2) /\ Sign(s, src2) = Sign(s, d),
             src < src2)

Add(s, src, src2, f) ==
  LET d == Wrap(s, src2 + src)
  IN  Result(s, d,
             Sign(s, src) = Sign(s, src2) /\ Sign(s, src) # Sign(s, d),
             d < src)

Sub(s, src, src2, f) ==
  LET d == Wrap(s, src2 - src)
  IN  Result(s, d,
             Sign(s, src) # Sign(s, src2) /\ Sign(s, src) = Sign(s, d),
             src2 < src)

-----------------------------------------------------------------------------
(* The extended instructions work on the signed value of a word or of a    *)
(* register pair.  C's >> of a negative number is arithmetic, as \div is   *)
(* here; C's / truncates.                                                  *)
DoubleSize == WordSize * WordSize
Pair(hi, lo) == Signed(DoubleSize, hi * WordSize + lo)
Quotient(a, b) ==
  LET magnitude(x) == IF x < 0 THEN -x ELSE x
      q == magnitude(a) \div magnitude(b)
  IN  IF (a < 0) = (b < 0) THEN q ELSE -q

(* hi and lo are the new contents of R and R|1.                            *)
InPair(d, f) ==
  [hi |-> (d \div WordSize) % WordSize, lo |-> d % WordSize, f |-> f]

Mul(x, y) ==
  LET d == Signed(WordSize, x) * Signed(WordSize, y)
  IN  InPair(d, Flags(d < 0, d = 0, FALSE,
                      d > Half(WordSize) - 1 \/ d < -Half(WordSize)))

(* The largest word is taken for an overflow too (dst >= 077777).          *)
DivOverflow(src, src2) ==
  \/ src = -Half(DoubleSize) /\ src2 = -1
  \/ Quotient(src, src2) >= Half(WordSize) - 1
  \/ Quotient(src, src2) < -Half(WordSize)

Div(hi, lo, y, f) ==
  LET src == Pair(hi, lo)
      src2 == Signed(WordSize, y)
      dst == Quotient(src, src2)
      same(c) == [hi |-> hi, lo |-> lo, f |-> Flags(f.n, f.z, TRUE, c)]
  IN  IF src2 = 0 THEN same(TRUE)
      ELSE IF DivOverflow(src, src2) THEN same(FALSE)
      ELSE [hi |-> dst % WordSize, lo |-> (src - src2 * dst) % WordSize,
            f |-> Flags(dst < 0, dst = 0, FALSE, FALSE)]

(* The shift count has six bits: up to 31 to the left, up to 32 to the     *)
(* right.                                                                  *)
Count(y) == y % (2 * IntBits)

(* A shift of the signed src to the right by k: the C expression and the   *)
(* sign bits it ors in, which only differ at the undefined full width.     *)
RightShift(src, k) ==
  IF k = IntBits /\ FullShiftKeeps /\ src >= 0 THEN src ELSE src \div TwoTo[k]

RightResult(src, k) == [d |-> RightShift(src, k), v |-> FALSE, c |-> Odd(src \div TwoTo[k - 1])]

(* Slip: V only looks at the last bit shifted out.                         *)
SignLost_LastBit(out, negative) == Odd(out) # negative

(* The bits shifted out, kept under the sign that was above them, must all *)
(* equal the sign of the result.                                           *)
SignLost(out, negative) == out # IF negative THEN -1 ELSE 0

Ash(x, y) ==
  LET n == Count(y)
      src == Signed(WordSize, x)
      out == src \div TwoTo[WordBits - n]
      left == (src * TwoTo[n]) % WordSize
      t == CASE n = 0 -> [d |-> src, v |-> FALSE, c |-> FALSE]
             [] n \in 1 .. WordBits - 1 ->
                  [d |-> left, c |-> Odd(out),
                   v |-> SignLost(out, Sign(WordSize, left))]
             [] n \in WordBits .. IntBits - 1 ->
                  [d |-> 0, v |-> src # 0, c |-> n = WordBits /\ Odd(src)]
             [] OTHER -> RightResult(src, 2 * IntBits - n)
  IN  Result(WordSize, t.d % WordSize, t.v, t.c)

Ashc(hi, lo, y) ==
  LET n == Count(y)
      src == Pair(hi, lo)
      out == src \div TwoTo[IntBits - n]
      left == Signed(DoubleSize, (src * TwoTo[n]) % DoubleSize)
      t == CASE n = 0 -> [d |-> src, v |-> FALSE, c |-> FALSE]
             [] n \in 1 .. IntBits - 1 ->
                  [d |-> left, c |-> Odd(out), v |-> SignLost(out, left < 0)]
             [] OTHER -> RightResult(src, 2 * IntBits - n)
      p == InPair(t.d, Flags(FALSE, FALSE, t.v, t.c))
  IN  [p EXCEPT !.f.n = Sign(WordSize, p.hi), !.f.z = p.hi = 0 /\ p.lo = 0]
=============================================================================
