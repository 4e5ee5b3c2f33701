------------------------------- MODULE SveFloat -------------------------------
(***************************************************************************)
(* The fourth group of source/disasm_sve.c: floating point arithmetic on   *)
(* scalable vectors.                                                       *)
(***************************************************************************)
EXTENDS SveInteger

\* Z registers under a predicate, destination first
Masked(w, sz, last) == <<Z(Zd(w), sz), P(Pg(w), sz)>> \o last

op03_op0_op20(w) ==
  LET sz == SzOf(w)
  IN RejectIf(Bits(w, 13, 15) # 4,
       Insn("FCADD", 5, Masked(w, sz, <<Z(Zn(w), sz), I(Bit(w, 16))>>)))

ConvertOdd == [x \in (0..3) \X (0..3) |->
  CASE x = <<0, 2>> -> "FCVTXNT" [] x = <<2, 0>> -> "FCVTNT"
    [] x = <<2, 1>> -> "FCVTLT"  [] x = <<2, 2>> -> "BFCVTNT"
    [] x = <<3, 2>> -> "FCVTNT"  [] x = <<3, 3>> -> "FCVTLT" [] OTHER -> None]
op03_op0_op21(w) ==
  RejectIf(Bits(w, 13, 15) # 5,
    Named(ConvertOdd[<<Size2(w), Bits(w, 16, 17)>>], 3,
          Masked(w, 64, <<Z(Zn(w), 64)>>)))

op03_op0_op22(w) ==
  LET sz == SzOf(w)
  IN RejectIf(Bits(w, 13, 15) # 4,
       Named(<<"FADDP", None, None, None, "FMAXNMP", "FMINNMP", "FMAXP", "FMINP">>
               [Bits(w, 16, 18) + 1], 4, Masked(w, sz, <<Z(Zn(w), sz)>>)))

(***************************************************************************)
(* Multiplication by an element                                            *)
(***************************************************************************)
FmlTable == <<"FMLALB", "FMLALT", "FMLSLB", "FMLSLT", "BFMLALB", "BFMLALT", None, None>>
fml_op(w) ==
  Named(FmlTable[4 * Bit(w, 22) + 2 * Bit(w, 13) + Bit(w, 10) + 1], 4,
        <<Z(Zd(w), 32), Z(Zn(w), 32), Z(Bits(w, 16, 18), 32),
          I(2 * Bits(w, 19, 20) + Bit(w, 11))>>)

\* The index of a doubleword stays in the number of its register, too
FloatIndexed(w, id) ==
  LET size == Size2(w)
      sz == SzOf(w)
      m == IF size = 3 THEN Zm(w) ELSE Bits(w, 16, 18)
      imm == CASE size < 2 -> 4 * Bit(w, 22) + Bits(w, 19, 20)
               [] size = 2 -> Bits(w, 19, 20)
               [] size = 3 -> Bit(w, 20)
  IN Insn(id, 4, <<Z(Zd(w), sz), Z(Zn(w), sz), Z(m, sz), I(imm)>>)

\* Whether to add or to subtract is read from the size
op03_op0_op14(w) ==
  LET op3 == Op3(w)
      opc == Size2(w)
      msz == IF opc = 3 THEN 64 ELSE 32
      long == op3 \in 16..31 /\ Bit(w, 12) = 0
  IN CASE op3 < 2 -> FloatIndexed(w, <<"FMLA", "FMLS", "FMLA", "FMLS">>[opc + 1])
       [] op3 \in 4..7 -> RejectIf(opc < 2, FloatIndexed(w, "FCMLA"))
       [] op3 = 8 -> FloatIndexed(w, "FMUL")
       [] long /\ Bit(w, 23) = 0 ->
            RejectIf(Bits(w, 10, 11) # 0 \/ Bit(w, 22) = 0,
              Insn("BFDOT", 4, <<Z(Zd(w), 32), Z(Zn(w), 32),
                                 Z(Bits(w, 16, 18), 32), I(Bits(w, 19, 20))>>))
       [] long /\ Bit(w, 23) = 1 -> fml_op(w)
       [] op3 \in 32..47 /\ Bits(w, 11, 12) = 0 -> fml_op(w)
       [] op3 = 57 -> Named(<<None, "BFMMLA", "FMMLA", "FMMLA">>[opc + 1], 3,
                            Three(w, msz))
       [] OTHER -> Reject

(***************************************************************************)
(* Comparisons and arithmetic                                              *)
(***************************************************************************)
FloatCompareTable == <<"FCMGE", "FCMGT", "FCMEQ", "FCMNE", "FCMUO", "FACGE", None,
                       "FACGT">>
FloatUnpredicated == <<"FADD", "FSUB", "FMUL", "FTSMUL", None, None, "FRECPS",
                       "FRSQRTS">>
FloatBinary == <<"FADD", "FSUB", "FMUL", "FSUBR", "FMAXNM", "FMINNM", "FMAX", "FMIN",
                 "FABD", "FSCALE", "FMULX", None, "FDIVR", "FDIV", None, None>>

\* The second source of a binary operation is read from the opcode; the
\* group that holds FTMAD never has the bits its test wants
FloatArithmetic(w) ==
  LET sz == SzOf(w)
      op0 == Bits(w, 19, 20)
      d == Z(Zd(w), sz)
  IN CASE op0 < 2 -> Named(FloatBinary[Bits(w, 16, 19) + 1], 4,
                           Masked(w, sz, <<d, Z(Zm(w), sz)>>))
       [] op0 = 2 -> RejectIf(Bits(w, 13, 15) # 0,
                       Insn("FTMAD", 4, <<d, d, Z(Zm(w), sz), I(Bits(w, 16, 18))>>))
       [] op0 = 3 -> RejectIf(Bits(w, 6, 9) # 0,
                       Insn(FloatBinary[Bits(w, 16, 18) + 1], 4,
                            Masked(w, sz, <<d, I(Bit(w, 5))>>)))

\* The table of precisions is indexed by half of its index
FloatRound == <<"FRINTN", "FRINTP", "FRINTM", "FRINTZ", "FRINTA", None, "FRINTX",
                "FRINTI">>
Convertible == {10, 12, 14, 20, 24, 28, 30}
FloatUnary(w) ==
  LET op0 == Bits(w, 18, 20)
      opc == Size2(w)
      sz == SzOf(w)
      ops == Masked(w, sz, <<Z(Zn(w), sz)>>)
      U == Bit(w, 16) + 1
      idx == 8 * opc + 2 * Bits(w, 17, 18)
  IN CASE op0 < 2 -> Named(FloatRound[Bits(w, 16, 18) + 1], 4, ops)
       [] op0 = 2 -> Named(<<None, None, "FCVTX", None>>[opc + 1], 4, ops)
       [] op0 = 3 -> RejectIf(Bit(w, 17) = 1, Insn(<<"FRECPX", "FSQRT">>[U], 4, ops))
       [] op0 > 3 -> RejectIf(idx \notin Convertible,
            Insn((IF op0 < 6 THEN <<"SCVTF", "UCVTF">> ELSE <<"FCVTZS", "FCVTZU">>)[U],
                 5, ops))

op03_op1_op40(w) ==
  LET sz == SzOf(w)
      hi == Bits(w, 13, 15)
      relation == 4 * Bit(w, 15) + 2 * Bit(w, 13) + Bit(w, 4)
  IN CASE Bit(w, 14) = 1 ->
            Named(FloatCompareTable[relation + 1], 5,
                  <<P(Bits(w, 0, 3), sz), P(Pg(w), sz), Z(Zn(w), sz), Z(Zm(w), sz)>>)
       [] Bit(w, 14) = 0 /\ hi = 0 ->
            Named(FloatUnpredicated[Pg(w) + 1], 4, Three(w, sz))
       [] Bit(w, 14) = 0 /\ hi = 4 -> FloatArithmetic(w)
       [] Bit(w, 14) = 0 /\ hi = 5 -> FloatUnary(w)
       [] OTHER -> Reject

(***************************************************************************)
(* Reductions, estimates, comparisons with zero and an ordered sum, behind *)
(* op03_op1_op40, which takes all their words                              *)
(***************************************************************************)
Behind(w) == Bits(w, 13, 15) # 1

op03_op1_op20(w) ==
  LET sz == SzOf(w)
  IN RejectIf(Behind(w),
       Named(<<"FADD", None, None, None, "FMAXNMV", "FMINNMV", "FMAXV", "FMINV">>
               [Bits(w, 16, 18) + 1], 4,
             <<F(sz, Zd(w)), P(Pg(w), sz), Z(Zn(w), sz)>>))

op03_op1_op21(w) ==
  LET sz == SzOf(w)
      opc == Bits(w, 16, 18)
  IN RejectIf(Bits(w, 10, 15) # 12 \/ opc < 6,
       Insn(IF opc = 6 THEN "FRECPE" ELSE "FRSQRTE", 3,
            <<Z(Zd(w), sz), Z(Zn(w), sz)>>))

op03_op1_op22(w) ==
  LET sz == SzOf(w)
      idx == 4 * Bit(w, 17) + 2 * Bit(w, 16) + Bit(w, 4)
  IN RejectIf(Behind(w) \/ Bit(w, 18) = 1,
       Named(FloatCompareTable[idx + 1], 4,
             <<P(Bits(w, 0, 3), sz), P(Pg(w), sz), Z(Zn(w), sz)>>))

op03_op1_op23(w) ==
  LET sz == SzOf(w)
      dn == F(sz, Zd(w))
  IN RejectIf(Behind(w) \/ Bits(w, 16, 18) # 0,
       Insn("FADDA", 4, <<dn, P(Pg(w), sz), dn, Z(Zn(w), sz)>>))

op03_op1_op14(w) ==
  LET sz == SzOf(w)
      tab == << <<"FMLA", "FMLS", "FNMLA", "FNMLS">>,
                <<"FMAD", "FMSB", "FNMAD", "FNMSB">> >>
  IN Insn(tab[Bit(w, 15) + 1][Bits(w, 13, 14) + 1], 5,
          Masked(w, sz, <<Z(Zn(w), sz), Z(Zm(w), sz)>>))
=============================================================================
