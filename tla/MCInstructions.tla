---------------------------- MODULE MCInstructions ----------------------------
(* Instances for TLC: words of eight bits, memory of 128 words.  The       *)
(* programs that compute run on the values where signs and carries change; *)
(* the ones that may abort are single instructions, in every addressing    *)
(* mode with a general register, SP and PC.  Floating-point instructions   *)
(* run one at a time beside a processor that has nothing to do, and the    *)
(* other way round.                                                        *)
EXTENDS GuestPrograms, FloatingPoint, TLC

Samples == {0, 1, 2, 3, 85, 126, 127, 128, 129, 170, 254, 255}
Few == {0, 1, 127, 128, 255}
Offsets == {0, 1, 7, 8, 15}
Counts == 0 .. 2 * IntBits - 1

NoCodes == Flags(FALSE, FALSE, FALSE, FALSE)
Codes == {Flags(FALSE, FALSE, FALSE, TRUE), Flags(TRUE, TRUE, TRUE, FALSE)}

Start(a, b, c, d) == [n \in 0 .. 7 |-> <<a, b, c, d, 0, 0, 100, 250>>[n + 1]]
Program(kind, code, starts) ==
  [kind |-> kind, code |-> code, starts |-> starts, codes |-> {NoCodes}, mem |-> <<>>,
   faults |-> 0]

Branches ==
  {Program("branch", code, {Start(a, b, 0, 0) : a \in Samples, b \in Samples}) :
     code \in {CompareBranch(op, off) : op \in BranchOps, off \in Offsets}
              \cup {SubtractBranch(op, off) : op \in BranchOps, off \in {7, 8}}}

Doubles ==
  {Program(k[1], k[2],
           {Start(a, b, c, d) : a \in Few, b \in Few, c \in Few, d \in Few}) :
     k \in {<<"add", DoubleAdd>>, <<"subtract", DoubleSubtract>>}}
  \cup
  {Program(k[1], k[2], {Start(0, 0, c, d) : c \in Samples, d \in Samples}) :
     k \in {<<"negate", DoubleNegate>>, <<"twice", DoubleTwice>>,
            <<"halve", DoubleHalve>>, <<"extend", DoubleExtend>>}}

Shifts ==
  {Program("ash", ShiftWord, {Start(a, 0, n, 0) : a \in Samples, n \in Counts}),
   Program("ashc", ShiftPair,
           {Start(a, b, n, 0) : a \in Samples, b \in Few, n \in Counts})}

Divisions ==
  {Program("divide", DivideOnce,
           {Start(a, b, c, 0) : a \in Samples, b \in Samples, c \in Samples}),
   Program("product", MultiplyDivide, {Start(a, 0, c, 0) : a \in Samples, c \in Samples})}

-----------------------------------------------------------------------------
Specs == {[mode |-> m, reg |-> n] : m \in 0 .. 7, n \in {1, StackReg, PC}}
Bytes(ops) == {[op |-> op, byte |-> TRUE] : op \in ops}
Words(ops) == {[op |-> op, byte |-> FALSE] : op \in ops}
With(o, src, dst) == o @@ [src |-> src, dst |-> dst, off |-> 2]

TwoOperands == Words(DyadicOps \cup {"mov"}) \cup Bytes({"mov", "bis", "bit", "cmp"})
OneOperand ==
  Words((UnaryOps \cup {"tst", "clr", "sxt", "mfpi", "mfpd", "mtpi", "mtpd", "tstset", "wrtlck",
                        "mul", "div", "ash", "ashc", "xor", "jmp", "jsr", "rts", "sub"}))
  \cup Bytes((UnaryOps \ {"swab"}) \cup {"tst", "clr", "mfps", "mtps", "cmp", "bic"})
Others == Words({"sob", "mark", "scc", "ccc", "emt", "trap", "bpt", "iot", "ill", "mfpt"})

(* R1, SP and PC point to different words; the words there and the index   *)
(* words lead to others.                                                   *)
Memory == (8 :> 40) @@ (20 :> 52) @@ (26 :> 129) @@ (32 :> 24) @@ (33 :> 60)
          @@ (38 :> 46) @@ (44 :> 77) @@ (50 :> 84) @@ (42 :> 255)
Single(ins, codes) ==
  [kind |-> "any", code |-> <<ins>>,
   starts |-> {[n \in 0 .. 7 |-> <<7, 16, 0, 129, 0, 44, 100, 62>>[n + 1]]},
   codes |-> codes, mem |-> Memory, faults |-> 2]

Restarted ==
  {Single(With(o, s, d), {NoCodes}) : o \in TwoOperands, s \in Specs, d \in Specs}
  \cup {Single(With(o, Reg(3), d), Codes) : o \in OneOperand, d \in Specs}
  \cup {Single(With(o, Reg(3), Reg(1)), Codes) : o \in Others}

MCPrograms ==
  Branches \cup Doubles \cup Shifts \cup Divisions \cup Restarted
  \cup {Program("float", <<>>, {Start(0, 0, 0, 0)})}

-----------------------------------------------------------------------------
(* Fractions of seven bits, four of them in single precision, exponents of *)
(* five: pairs of numbers far and near each other, at both ends of the     *)
(* range and around one, with every exception masked or enabled.           *)
Fracs == {0, 1, 36, 63}
FarExps == {0, 1, 6, 15, 16, 17, 25, 31}
Floating(signs, exps, fracs) == [neg : signs, exp : exps, frac : fracs]
Positive == Floating({FALSE}, FarExps, Fracs)
Mixed == Floating(BOOLEAN, FarExps, Fracs)
Small == Floating(BOOLEAN, {0, 16}, {0, 33})
Integral == Floating(BOOLEAN, 14 .. 25, 0 .. 63)

AllEnabled == {"iuv", "iu", "iv", "ic"}
Statuses == {{}, {"d"}, {"t", "v"}, {"d", "t"}, AllEnabled, AllEnabled \cup {"d", "id"}}

InMem == [kind |-> "mem", n |-> 0]
InLine == [kind |-> "imm", n |-> 0]
Ac(n) == [kind |-> "ac", n |-> n]
Anywhere == {InMem, InLine} \cup {Ac(n) : n \in {0, 4, 5, 6, 7}}
Do(ops, acs, dsts) == [op : ops, ac : acs, dst : dsts]
Float(code, acs, cells, wholes, statuses) ==
  [code |-> code, acs |-> acs, cells |-> cells, wholes |-> wholes, flags |-> statuses]

TwoFloats == {"add", "sub", "mul", "div", "mod", "cmp"}
MCFloats ==
  {Float(Do(TwoFloats, {0}, {InMem}), Positive, Mixed, {0}, Statuses),
   Float(Do(TwoFloats, {1}, {InMem, Ac(4)}), Small, Small, {0}, Statuses),
   Float(Do(SourceOps \cup {"clr", "st", "stc"}, {0}, Anywhere), Small, Small, {0}, Statuses),
   Float(Do({"ldc", "stc"}, {0}, {InMem, InLine, Ac(4)}), Mixed, Small, {0}, Statuses),
   Float(Do({"ldc"}, {0}, {InMem, InLine}), {OtherAc}, Mixed, {0}, Statuses),
   Float(Do({"stci"}, {0}, {InMem, InLine, Ac(0)}), Integral, {ZeroFac}, {5},
         {{}, {"l"}, {"d", "l", "ic"}, {"d", "ic"}}),
   Float(Do({"ldci"}, {0}, {InMem, InLine, Ac(0)}), {OtherAc}, {ZeroFac},
         -Half(IntWords ^ 2) .. Half(IntWords ^ 2) - 1, {{}, {"l"}, {"d", "l"}, {"t", "l"}}),
   Float(Do({"ldexp", "stexp"}, {0}, {Ac(0)}), Small, {ZeroFac},
         {IntWords * n : n \in -Exps .. Exps - 1}, Statuses),
   Float(Do(StatusOps \cup {"ill"}, {0}, {Ac(0)}), {OtherAc}, {ZeroFac}, {0}, Statuses)}

MCInit == InstrInit /\ IF prog.kind = "float" THEN FloatInit ELSE FloatRest
MCNext ==
  \/ InstrNext /\ UNCHANGED fpVars
  \/ Fp11 /\ UNCHANGED instrVars
MCSpec == MCInit /\ [][MCNext]_<<instrVars, fpVars>>
=============================================================================
