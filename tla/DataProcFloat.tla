---------------------------- MODULE DataProcFloat ----------------------------
(***************************************************************************)
(* The scalar half of source/DataProcessingFloatingPoint.c and the choice  *)
(* between all its groups.  Register sizes follow the type of the float,   *)
(* bits 22 and 23: word, double word, (quad word), half word.              *)
(***************************************************************************)
EXTENDS AdvancedSIMD

FloatType(w) == <<32, 64, 128, 16>>[Size(w) + 1]
Flt(w, n) == F(FloatType(w), n)
Gen(w, n) == G(Bit(w, 31), n)

\* What most groups reject before anything else
Reserved(w) == Bit(w, 31) = 1 \/ Bit(w, 29) = 1 \/ Size(w) = 2

(***************************************************************************)
(* Conversions between floats, fixed points and integers                   *)
(***************************************************************************)
ConversionBetweenFloatingPointAndFixedPoint(w) ==
  LET opcode == Bits(w, 16, 18)
      fbits == I(64 - Bits(w, 10, 15))
      id == Guarded(<<"FCVTZS", "FCVTZU", "SCVTF", "UCVTF">>, opcode)
  IN RejectIf(Size(w) = 2,
       Named(id, 8, IF opcode < 2 THEN <<Gen(w, Rd(w)), Flt(w, Rn(w)), fbits>>
                                  ELSE <<Flt(w, Rd(w)), Gen(w, Rn(w)), fbits>>))

\* Operation 13 moves the upper half of a vector
ConversionBetweenFloatingPointAndInteger(w) ==
  LET u == Bit(w, 16)
      operation == 4 * Bits(w, 17, 18) + Bits(w, 19, 20)
      signed == IF u = 0 THEN "S" ELSE "U"
      id == CASE operation < 4 -> "FCVT" \o <<"N", "P", "M", "Z">>[operation + 1]
                                         \o signed
              [] operation = 4 -> signed \o "CVTF"
              [] operation = 8 -> "FCVTA" \o signed
              [] operation \in {12, 13} -> "FMOV"
              [] operation = 15 -> "FJCVTZS"
              [] OTHER -> None
      toInt == operation \in {0, 1, 2, 3, 8, 15} \/ (operation \in {12, 13} /\ u = 0)
      part == Opt(operation = 13, I(1))
  IN RejectIf(Size(w) = 2 /\ operation # 13,
       Named(id, 7, IF toInt THEN <<Gen(w, Rd(w)), Flt(w, Rn(w))>> \o part
                    ELSE <<Flt(w, Rd(w))>> \o part \o <<Gen(w, Rn(w))>>))

(***************************************************************************)
(* Registers of one type                                                   *)
(***************************************************************************)
OneSourceFloat ==
  <<"FMOV", "FABS", "FNEG", "FSQRT", None, "FCVT", None, "FCVT", "FRINTN",
    "FRINTP", "FRINTM", "FRINTZ", "FRINTA", None, "FRINTX", "FRINTI",
    "FRINT32Z", "FRINT32X", "FRINT64Z", "FRINT64X">>
OneSourceDouble == [OneSourceFloat EXCEPT ![5] = "FCVT", ![6] = None]
OneSourceHalf == SubSeq([OneSourceDouble EXCEPT ![6] = "FCVT", ![8] = None], 1, 16)

FloatingPointDataProcessingOneSource(w) ==
  LET opcode == Bits(w, 15, 20)
      opc == Bits(w, 15, 16)
      id == Guarded(CASE Size(w) = 0 -> OneSourceFloat
                      [] Size(w) = 1 -> OneSourceDouble
                      [] OTHER -> OneSourceHalf, opcode)
      to == IF id = "FCVT" THEN <<32, 64, 16, 16>>[opc + 1] ELSE FloatType(w)
  IN RejectIf(Reserved(w) \/ (id = "FCVT" /\ opc = Size(w)),
       Named(id, 6, <<F(to, Rd(w)), Flt(w, Rn(w))>>))

FloatingPointCompare(w) ==
  RejectIf(Size(w) = 2,
    Insn(IF Bit(w, 4) = 1 THEN "FCMPE" ELSE "FCMP", 7,
         <<Flt(w, Rn(w)), IF Bit(w, 3) = 1 THEN Op("float", 0, 0)
                                           ELSE Flt(w, Rm(w))>>))

FloatingPointImmediate(w) ==
  RejectIf(Reserved(w) \/ Bits(w, 5, 9) # 0,
    Insn("FMOV", 6, <<Flt(w, Rd(w)), Op("float", Bits(w, 13, 20), 0)>>))

FloatingPointConditionalCompare(w) ==
  RejectIf(Reserved(w),
    [Insn(IF Bit(w, 4) = 1 THEN "FCCMPE" ELSE "FCCMP", 8,
          <<Flt(w, Rn(w)), Flt(w, Rm(w)), I(Bits(w, 0, 3))>>)
     EXCEPT !.cc = Bits(w, 12, 15)])

FloatingPointDataProcessingTwoSource(w) ==
  RejectIf(Reserved(w),
    Named(Guarded(<<"FMUL", "FDIV", "FADD", "FSUB", "FMAX", "FMIN", "FMAXNM",
                    "FMINNM", "FNMUL">>, Bits(w, 12, 15)), 7,
          Same3(w, FloatType(w))))

FloatingPointConditionalSelect(w) ==
  RejectIf(Reserved(w),
    [Insn("FCSEL", 7, Same3(w, FloatType(w))) EXCEPT !.cc = Bits(w, 12, 15)])

FloatingPointDataProcessingThreeSource(w) ==
  RejectIf(Reserved(w),
    Insn(<<"FMADD", "FMSUB", "FNMADD", "FNMSUB">>[2 * Bit(w, 21) + Bit(w, 15) + 1],
         9, Same3(w, FloatType(w)) \o <<Flt(w, Bits(w, 10, 14))>>))

(***************************************************************************)
(* The groups.  The first one whose pattern fits takes the word.           *)
(***************************************************************************)
Simd(w, op0) ==
  LET scalar == op0 % 2 = 1
      op1 == Bits(w, 23, 24)
      op2 == Bits(w, 19, 22)
      low == Bit(w, 24) = 0
      TwoReg == low /\ Bits(w, 10, 11) = 2 /\ Bits(w, 17, 18) = 0
      Table == low /\ Bit(w, 21) = 0 /\ Bit(w, 15) = 0
      fp16 == Bits(w, 21, 22) = 2 /\ Bits(w, 14, 15) = 0
      extra == Bit(w, 21) = 0 /\ Bit(w, 15) = 1
  IN IF op0 = 4 /\ TwoReg /\ op2 % 8 = 5 THEN CryptographicAES(w)
     ELSE IF op0 = 5 /\ Table /\ Bits(w, 10, 11) = 0
     THEN CryptographicThreeRegisterSHA(w)
     ELSE IF op0 = 5 /\ TwoReg /\ op2 % 8 = 5 THEN CryptographicTwoRegisterSHA(w)
     ELSE IF op1 = 0 /\ op2 < 4 /\ Bit(w, 10) = 1 /\ Bit(w, 15) = 0
     THEN Copy(w, scalar)
     ELSE IF low /\ Bit(w, 10) = 1 THEN ThreeSame(w, scalar, fp16, extra)
     ELSE IF TwoReg /\ (op2 = 15 \/ op2 % 8 = 4)
     THEN TwoRegisterMiscellaneous(w, scalar, op2 = 15)
     ELSE IF TwoReg /\ scalar /\ op2 % 8 = 6 THEN ScalarPairwise(w)
     ELSE IF low /\ Bit(w, 21) = 1 /\ Bits(w, 10, 11) = 0
     THEN ThreeDifferent(w, scalar)
     ELSE IF op1 = 2 /\ Bit(w, 10) = 1
     THEN IF op2 = 0 THEN ModifiedImmediate(w) ELSE ShiftByImmediate(w, scalar)
     ELSE IF ~low /\ Bit(w, 10) = 0 THEN XIndexedElement(w, scalar)
     ELSE IF op0 \in {0, 4} /\ Table /\ Bits(w, 10, 11) = 0 THEN TableLookup(w)
     ELSE IF op0 \in {0, 4} /\ Table /\ Bits(w, 10, 11) = 2 THEN Permute(w)
     ELSE IF op0 \in {2, 6} /\ Table /\ Bit(w, 10) = 0 THEN SIMDExtract(w)
     ELSE RejectIf(scalar \/ ~TwoReg \/ op2 % 8 # 6, AcrossLanes(w))

Hash(w) ==
  LET op1 == Bits(w, 23, 24)
      imm2 == Bits(w, 21, 22) = 2 /\ Bits(w, 14, 15) = 2
      sha3 == Bits(w, 21, 22) = 3 /\ Bits(w, 12, 13) = 0 /\ Bit(w, 15) = 1
  IN CASE op1 = 0 /\ imm2 -> CryptographicThreeRegisterImm2(w)
       [] op1 = 0 /\ sha3 -> CryptographicThreeRegisterSHA512(w)
       [] op1 = 0 /\ Bit(w, 15) = 0 -> CryptographicFourRegister(w)
       [] op1 = 1 /\ Bits(w, 21, 22) = 0 -> XAR(w)
       [] op1 = 1 /\ Bits(w, 19, 22) = 8 /\ Bits(w, 12, 18) = 8 ->
            CryptographicTwoRegisterSHA512(w)
       [] OTHER -> Reject

FloatingPoint(w) ==
  LET long == Bit(w, 24) = 1
      fixed == ~long /\ Bit(w, 21) = 0
      float == ~long /\ Bit(w, 21) = 1
  IN CASE long -> FloatingPointDataProcessingThreeSource(w)
       [] fixed -> ConversionBetweenFloatingPointAndFixedPoint(w)
       [] float /\ Bits(w, 10, 15) = 0 -> ConversionBetweenFloatingPointAndInteger(w)
       [] float /\ Bits(w, 10, 14) = 16 -> FloatingPointDataProcessingOneSource(w)
       [] float /\ Bits(w, 10, 13) = 8 -> FloatingPointCompare(w)
       [] float /\ Bits(w, 10, 12) = 4 -> FloatingPointImmediate(w)
       [] float /\ Bits(w, 10, 11) = 1 -> FloatingPointConditionalCompare(w)
       [] float /\ Bits(w, 10, 11) = 2 -> FloatingPointDataProcessingTwoSource(w)
       [] float /\ Bits(w, 10, 11) = 3 -> FloatingPointConditionalSelect(w)
       [] OTHER -> Reject

DataProcessingFloatingPointDisassemble(w) ==
  LET op0 == Bits(w, 28, 31)
  IN CASE op0 \in {0, 2, 4, 5, 6, 7} -> Simd(w, op0)
       [] op0 = 12 -> Hash(w)
       [] op0 \in {1, 3, 9, 11} -> FloatingPoint(w)
       [] OTHER -> Reject
=============================================================================
