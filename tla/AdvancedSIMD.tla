----------------------------- MODULE AdvancedSIMD -----------------------------
(***************************************************************************)
(* The vector half of source/DataProcessingFloatingPoint.c: cryptographic  *)
(* and advanced SIMD instructions.  The arrangement of a vector is in the  *)
(* text only; what is kept of it is that some sizes have none and are      *)
(* rejected.                                                               *)
(***************************************************************************)
EXTENDS Arm64Word

Two(cond) == IF cond THEN "2" ELSE ""
U2(w, s, u) == IF Bit(w, 29) = 0 THEN s ELSE u

Rd(w) == Bits(w, 0, 4)
Rn(w) == Bits(w, 5, 9)
Rm(w) == Bits(w, 16, 20)
Q(w) == Bit(w, 30)
Size(w) == Bits(w, 22, 23)

\* The arrangements: by size, all of them, or up to words; and of floats,
\* where the low bit of the size counts
Full(w) == Size(w) < 3 \/ Q(w) = 1
Small(w) == Size(w) < 3
FullFloat(w) == Size(w) % 2 = 0 \/ Q(w) = 1
FloatSize(w) == 32 * 2^(Size(w) % 2)

\* The registers of the operands, all with one size
Same2(w, sz) == <<F(sz, Rd(w)), F(sz, Rn(w))>>
Same3(w, sz) == Same2(w, sz) \o <<F(sz, Rm(w))>>

\* A field less in the scalar forms, which do not name Q
Fields(scalar, n) == IF scalar THEN n ELSE n + 1

(***************************************************************************)
(* Cryptographic instructions                                              *)
(***************************************************************************)
CryptographicAES(w) ==
  LET opcode == Bits(w, 12, 16)
  IN RejectIf(Size(w) # 0 \/ opcode < 4,
       Named(Guarded(<<"AESE", "AESD", "AESMC", "AESIMC">>, opcode - 4), 4,
             Same2(w, 128)))

CryptographicThreeRegisterSHA(w) ==
  LET id == Guarded(<<"SHA1C", "SHA1P", "SHA1M", "SHA1SU0", "SHA256H",
                      "SHA256H2", "SHA256SU1">>, Bits(w, 12, 14))
      middle == IF id \in {"SHA1C", "SHA1P", "SHA1M"} THEN 32 ELSE 128
  IN RejectIf(Size(w) # 0,
       Named(id, 5, <<V(Rd(w)), F(middle, Rn(w)), V(Rm(w))>>))

CryptographicTwoRegisterSHA(w) ==
  LET id == Guarded(<<"SHA1H", "SHA1SU1", "SHA256SU0">>, Bits(w, 12, 16))
  IN RejectIf(Size(w) # 0, Named(id, 4, Same2(w, IF id = "SHA1H" THEN 32 ELSE 128)))

CryptographicThreeRegisterImm2(w) ==
  Insn(<<"SM3TT1A", "SM3TT1B", "SM3TT2A", "SM3TT2B">>[Bits(w, 10, 11) + 1], 5,
       Same3(w, 128) \o <<I(Bits(w, 12, 13))>>)

CryptographicThreeRegisterSHA512(w) ==
  Named(Guarded(<<"SHA512H", "SHA512H2", "SHA512SU1", "RAX1", "SM3PARTW1",
                  "SM3PARTW2", "SM4EKEY">>, 4 * Bit(w, 14) + Bits(w, 10, 11)), 5,
        Same3(w, 128))

CryptographicFourRegister(w) ==
  Named(Guarded(<<"EOR3", "BCAX", "SM3SS1">>, Bits(w, 21, 22)), 5,
        Same3(w, 128) \o <<V(Bits(w, 10, 14))>>)

XAR(w) == Insn("XAR", 4, Same3(w, 128) \o <<I(Bits(w, 10, 15))>>)

CryptographicTwoRegisterSHA512(w) ==
  Named(Guarded(<<"SHA512SU0", "SM4E">>, Bits(w, 10, 11)), 3, Same2(w, 128))

(***************************************************************************)
(* Copies between lanes and registers.  The general form of dup has no     *)
(* index, ins names two lanes when both sides are vectors.                 *)
(***************************************************************************)
Copy(w, scalar) ==
  LET op == Bit(w, 29)
      imm5 == Bits(w, 16, 20)
      imm4 == Bits(w, 11, 14)
      size == LowestSetBit(imm5, 5)
      esize == 8 * 2^size
      index == I(imm5 \div 2^(size + 1))
      FromGeneral == G(size \div 3, Rn(w))
      nf == Fields(scalar, 5)
      Dup == RejectIf(~scalar /\ size = 3 /\ Q(w) = 0,
               Insn(IF scalar THEN "MOV" ELSE "DUP", nf,
                    <<IF scalar THEN F(esize, Rd(w)) ELSE V(Rd(w))>> \o
                    (IF imm4 = 1 THEN <<FromGeneral>> ELSE <<V(Rn(w)), index>>)))
      ToGeneral(id) == Insn(id, nf, <<G(Q(w), Rd(w)), V(Rn(w)), index>>)
  IN CASE imm5 \in {0, 16} -> Reject
       [] imm5 \notin {0, 16} /\ op = 0 /\ imm4 \in {0, 1} -> Dup
       [] imm5 \notin {0, 16} /\ op = 0 /\ imm4 = 5 ->
            RejectIf(size > 1 + Q(w), ToGeneral("SMOV"))
       [] imm5 \notin {0, 16} /\ op = 0 /\ imm4 = 7 ->
            RejectIf((size = 3) # (Q(w) = 1),
                     ToGeneral(IF size >= 2 THEN "MOV" ELSE "UMOV"))
       [] imm5 \notin {0, 16} /\ Q(w) = 1 /\ op = 0 /\ imm4 = 3 ->
            Insn("MOV", nf, <<V(Rd(w)), FromGeneral, index>>)
       [] imm5 \notin {0, 16} /\ Q(w) = 1 /\ op = 1 ->
            Insn("MOV", nf, <<V(Rd(w)), V(Rn(w)), index, I(imm4 \div 2^size)>>)
       [] OTHER -> Reject

(***************************************************************************)
(* Three registers of one kind                                             *)
(***************************************************************************)
ThreeSameScalarHalf ==
  <<None, None, None, "FMULX", "FCMEQ", None, None, "FRECPS",
    None, None, None, None, None, None, None, "FRSQRTS",
    None, None, None, None, "FCMGE", "FACGE", None, None,
    None, None, "FABD", None, "FCMGT", "FACGT">>
ThreeSameVectorHalf ==
  <<"FMAXNM", "FMLA", "FADD", "FMULX", "FCMEQ", None, "FMAX", "FRECPS",
    "FMINNM", "FMLS", "FSUB", None, None, None, "FMIN", "FRSQRTS",
    "FMAXNMP", None, "FADDP", "FMUL", "FCMGE", "FACGE", "FMAXP", "FDIV",
    "FMINNMP", None, "FABD", None, "FCMGT", "FMINP">>

ThreeSameHalf(w, scalar) ==
  LET idx == 16 * Bit(w, 29) + 8 * Bit(w, 23) + Bits(w, 11, 13)
  IN IF scalar
     THEN Named(Guarded(ThreeSameScalarHalf, idx), 6, Same3(w, 16))
     ELSE Named(Guarded(ThreeSameVectorHalf, idx), 7, Same3(w, 128))

\* A dot product has any size; rot is not among the fields
ThreeSameExtra(w, scalar) ==
  LET opcode == Bits(w, 11, 14)
      rot == Bits(w, 11, 12)
      size == Size(w)
      Multiply == IF opcode = 0 THEN "SQRDMLAH" ELSE "SQRDMLSH"
      Vector(id, last) == Insn(id, 7, Same3(w, 128) \o last)
  IN CASE scalar -> RejectIf(Bit(w, 29) # 1 \/ size \in {0, 3},
                             Insn(Multiply, 6, Same3(w, 8 * 2^size)))
       [] ~scalar /\ opcode = 2 -> Vector(U2(w, "SDOT", "UDOT"), <<>>)
       [] ~scalar /\ opcode < 2 ->
            RejectIf(size \in {0, 3}, Vector(Multiply, <<>>))
       [] ~scalar /\ opcode \in 8..11 ->
            RejectIf(size = 0 \/ ~Full(w), Vector("FCMLA", <<I(90 * rot)>>))
       [] ~scalar /\ opcode \in {12, 14} ->
            RejectIf(size = 0 \/ ~Full(w),
                     Vector("FCADD", <<I(IF rot = 0 THEN 90 ELSE 270)>>))
       [] OTHER -> Reject

\* For each opcode the ids without and with U, and the form: vectors up to
\* words; any size; any vector but doubleword scalars; halves and words;
\* vectors of any arrangement; bits, whatever the size
ThreeSameInt ==
  << <<"SHADD", "SHADD", "small">>, <<"SQADD", "UQADD", "any">>,
     <<"SRHADD", "URHADD", "small">>, <<None, None, "bits">>,
     <<"SHSUB", "UHSUB", "small">>, <<"SQSUB", "UQSUB", "any">>,
     <<"CMGT", "CMHI", "double">>, <<"CMGE", "CMHS", "double">>,
     <<"SSHL", "USHL", "double">>, <<"SQSHL", "UQSHL", "any">>,
     <<"SRSHL", "URSHL", "double">>, <<"SQRSHL", "UQRSHL", "any">>,
     <<"SMAX", "UMAX", "small">>, <<"SMIN", "UMIN", "small">>,
     <<"SABD", "UABD", "small">>, <<"SABA", "UABA", "small">>,
     <<"ADD", "SUB", "double">>, <<"CMTST", "CMEQ", "double">>,
     <<"MLA", "MLS", "small">>, <<"MUL", "PMUL", "multiply">>,
     <<"SMAXP", "UMAXP", "small">>, <<"SMINP", "UMINP", "small">>,
     <<"SQDMULH", "SQRDMULH", "halves">>, <<"ADDP", None, "vector">> >>

ThreeSameLogic == <<"AND", "BIC", "ORR", "ORN", "EOR", "BSL", "BIT", "BIF">>

ThreeSameInteger(w, scalar, opcode) ==
  LET U == Bit(w, 29)
      row == ThreeSameInt[opcode + 1]
      id == IF row[3] = "bits" THEN ThreeSameLogic[4 * U + Size(w) + 1]
                               ELSE row[U + 1]
      ok == CASE row[3] = "small" -> ~scalar /\ Small(w)
              [] row[3] = "any" -> scalar \/ Full(w)
              [] row[3] = "double" -> IF scalar THEN Size(w) = 3 ELSE Full(w)
              [] row[3] = "halves" -> Size(w) \in {1, 2}
              [] row[3] = "multiply" -> ~scalar /\ (U = 0 => Small(w))
              [] row[3] = "vector" -> ~scalar /\ Full(w)
              [] row[3] = "bits" -> ~scalar
  IN RejectIf(~ok, Named(id, Fields(scalar, 6),
                         Same3(w, IF scalar THEN 8 * 2^Size(w) ELSE 128)))

\* By U and the high bit of the size; the last rows have scalar forms
ThreeSameFp ==
  << <<"FMAXNM", "FMINNM", "FMAXNMP", "FMINNMP">>,
     <<"FMLA", "FMLS", "FMLAL2", "FMLSL2">>,
     <<"FADD", "FSUB", "FADDP", "FABD">>, <<"FMULX", None, "FMUL", None>>,
     <<"FCMEQ", None, "FCMGE", "FCMGT">>, <<"FMLAL", "FMLSL", "FACGE", "FACGT">>,
     <<"FMAX", "FMIN", "FMAXP", "FMINP">>, <<"FRECPS", "FRSQRTS", "FDIV", None>> >>

ThreeSameFloat(w, scalar, opcode) ==
  LET U == Bit(w, 29)
      s == Size(w) \div 2
      id == IF scalar /\ opcode = 26 THEN "FABD"
            ELSE ThreeSameFp[opcode - 23][2 * U + s + 1]
      long == id \in {"FMLAL", "FMLSL", "FMLAL2", "FMLSL2"}
      ok == IF scalar
            THEN \/ opcode = 26 /\ ~(U = 0 /\ s = 0)
                 \/ opcode \in {27, 31} /\ U = 0
                 \/ opcode = 28
                 \/ opcode = 29 /\ U = 1
            ELSE FullFloat(w) /\ (long => Size(w) % 2 = 0)
  IN RejectIf(~ok, Named(id, Fields(scalar, 6),
                         Same3(w, IF scalar THEN FloatSize(w) ELSE 128)))

ThreeSame(w, scalar, fp16, extra) ==
  CASE fp16 -> ThreeSameHalf(w, scalar)
    [] ~fp16 /\ extra -> ThreeSameExtra(w, scalar)
    [] ~fp16 /\ ~extra -> IF Bits(w, 11, 15) < 24
                          THEN ThreeSameInteger(w, scalar, Bits(w, 11, 15))
                          ELSE ThreeSameFloat(w, scalar, Bits(w, 11, 15))

(***************************************************************************)
(* Advanced SIMD on two registers.  The comparisons with zero take the low *)
(* bit of the opcode only, so less-than decodes as greater-than.           *)
(***************************************************************************)
CompareZero == <<"GT", "GE", "EQ", "LE">>
Round == << <<"FRINTN", "FRINTM", "FRINT32Z", "FRINT64Z">>,
            <<"FRINTP", "FRINTZ", None, None>>,
            <<"FRINTA", "FRINTX", "FRINT32X", "FRINT64X">>,
            <<None, "FRINTI", None, "FSQRT">> >>
Convert == << <<"FCVTNS", "FCVTMS", "FCVTAS", "SCVTF">>,
              <<"FCVTPS", "FCVTZS", "URECPE", "FRECPE">>,
              <<"FCVTNU", "FCVTMU", "FCVTAU", "UCVTF">>,
              <<"FCVTPU", "FCVTZU", "URSQRTE", "FRSQRTE">> >>

TwoRegisterInteger(w, scalar, opcode) ==
  LET U == Bit(w, 29)
      size == Size(w)
      nf == Fields(scalar, 5)
      Vec(ok, id) == RejectIf(scalar \/ ~ok, Named(id, nf, Same2(w, 128)))
      Any(ok, id, last) ==
        RejectIf(~ok, Insn(id, nf, Same2(w, IF scalar THEN 8 * 2^size ELSE 128)
                                   \o last))
      ByDouble == IF scalar THEN size = 3 ELSE Full(w)
  IN CASE opcode < 2 -> Vec(Small(w), <<"REV64", "REV32", "REV16", None>>
                                        [2 * opcode + U + 1])
       [] opcode = 2 -> Vec(Small(w), U2(w, "SADDLP", "UADDLP"))
       [] opcode = 6 -> Vec(Small(w), U2(w, "SADALP", "UADALP"))
       [] opcode = 3 -> Any(scalar \/ Full(w), U2(w, "SUQADD", "USQADD"), <<>>)
       [] opcode = 7 -> Any(scalar \/ Full(w), U2(w, "SQABS", "SQNEG"), <<>>)
       [] opcode = 4 -> Vec(Full(w), U2(w, "CLS", "CLZ"))
       [] opcode = 5 -> Vec(size = 0 \/ (U = 1 /\ size = 1),
                            IF U = 0 THEN "CNT"
                            ELSE IF size = 0 THEN "NOT" ELSE "RBIT")
       [] opcode \in 8..10 ->
            Any(ByDouble /\ ~(opcode = 10 /\ U = 1),
                "CM" \o CompareZero[2 * (opcode % 2) + U + 1], <<I(0)>>)
       [] opcode = 11 -> Any(ByDouble, U2(w, "ABS", "NEG"), <<>>)

\* Narrowing and widening, for scalars from the next larger register
TwoRegisterWidths(w, scalar, opcode) ==
  LET U == Bit(w, 29)
      size == Size(w)
      nf == Fields(scalar, 5)
      upper == Two(Q(w) = 1)
      upperVec == Two(~scalar /\ Q(w) = 1)
      Narrow(id) ==
        RejectIf(size = 3,
          Insn(id, nf, IF scalar THEN <<F(8 * 2^size, Rd(w)), F(16 * 2^size, Rn(w))>>
                                 ELSE Same2(w, 128)))
      NarrowFloat(id, odd) ==
        RejectIf((scalar \/ odd) /\ size % 2 = 0,
          Insn(id, nf, IF scalar THEN <<F(32, Rd(w)), F(64, Rn(w))>>
                                 ELSE Same2(w, 128)))
  IN CASE opcode = 18 /\ U = 0 -> Narrow("XTN" \o upper)
       [] opcode = 18 /\ U = 1 -> Narrow("SQXTUN" \o upperVec)
       [] opcode = 20 -> Narrow(U2(w, "SQXTN", "UQXTN") \o upperVec)
       [] opcode = 19 -> RejectIf(scalar \/ U = 0 \/ size = 3,
                           Insn("SHLL" \o upper, nf,
                                Same2(w, 128) \o <<I(8 * 2^size)>>))
       [] opcode = 22 /\ U = 0 -> NarrowFloat("FCVTN" \o upper, FALSE)
       [] opcode = 22 /\ U = 1 -> NarrowFloat("FCVTXN" \o upperVec, TRUE)
       [] opcode = 23 -> RejectIf(scalar, Insn("FCVTL" \o upper, nf, Same2(w, 128)))

TwoRegisterFloat(w, scalar, fp16, opcode) ==
  LET U == Bit(w, 29)
      row == 2 * U + Size(w) \div 2 + 1
      nf == Fields(scalar, 5)
      sz == CASE ~scalar -> 128 [] scalar /\ fp16 -> 16 [] OTHER -> FloatSize(w)
      arranged == scalar \/ fp16 \/ FullFloat(w)
      Any(id, last) == RejectIf(~arranged, Named(id, nf, Same2(w, sz) \o last))
      rint == CASE opcode = 24 -> 1 [] opcode = 25 -> 2
                [] opcode = 30 -> 3 [] OTHER -> 4
      cvt == Convert[row][opcode - 25]
  IN CASE opcode \in 12..14 ->
            RejectIf(opcode = 14 /\ U = 1,
                     Any("FCM" \o CompareZero[2 * (opcode % 2) + U + 1],
                         <<Op("float", 0, 0)>>))
       [] opcode = 15 -> RejectIf(scalar, Any(U2(w, "FABS", "FNEG"), <<>>))
       [] opcode \in {24, 25, 30, 31} ->
            RejectIf(scalar, Any(Round[row][rint], <<>>))
       [] opcode \in 26..29 ->
            RejectIf(/\ ~scalar /\ ~fp16 /\ cvt \in {"URECPE", "URSQRTE"}
                     /\ Size(w) % 2 = 1, Any(cvt, <<>>))

TwoRegisterMiscellaneous(w, scalar, fp16) ==
  LET opcode == Bits(w, 12, 16)
  IN CASE opcode \in (12..15) \union (24..31) ->
            TwoRegisterFloat(w, scalar, fp16, opcode)
       [] opcode < 12 /\ ~fp16 -> TwoRegisterInteger(w, scalar, opcode)
       [] opcode \in {18, 19, 20, 22, 23} /\ ~fp16 ->
            TwoRegisterWidths(w, scalar, opcode)
       [] OTHER -> Reject

ScalarPairwise(w) ==
  LET U == Bit(w, 29)
      opcode == Bits(w, 12, 16)
      s == Size(w) \div 2
      id == IF s = 0 THEN Guarded(<<"FMAXNMP", "FADDP", None, "FMAXP">>, opcode - 12)
                     ELSE Guarded(<<"FMINNMP", None, None, "FMINP">>, opcode - 12)
  IN CASE opcode = 27 -> RejectIf(U = 1 /\ Size(w) # 3,
                                  Insn("ADDP", 5, <<F(64, Rd(w)), V(Rn(w))>>))
       [] opcode < 12 -> Reject
       [] OTHER -> RejectIf(U = 0 /\ Size(w) % 2 = 1,
                     Named(id, 5, <<F(IF U = 0 THEN 16 ELSE FloatSize(w), Rd(w)),
                                    V(Rn(w))>>))

(***************************************************************************)
(* Three registers of different widths                                     *)
(***************************************************************************)
ThreeDifferentU0 ==
  <<"SADDL", "SADDW", "SSUBL", "SSUBW", "ADDHN", "SABAL", "SUBHN", "SABDL",
    "SMLAL", "SQDMLAL", "SMLSL", "SQDMLSL", "SMULL", "SQDMULL", "PMULL">>
ThreeDifferentU1 ==
  <<"UADDL", "UADDW", "USUBL", "USUBW", "RADDHN", "UABAL", "RSUBHN", "UABDL",
    "UMLAL", None, "UMLSL", None, "UMULL">>

ThreeDifferent(w, scalar) ==
  LET U == Bit(w, 29)
      opcode == Bits(w, 12, 15)
      size == Size(w)
      id == Guarded(IF U = 0 THEN ThreeDifferentU0 ELSE ThreeDifferentU1, opcode)
      saturating == id \in {"SQDMLAL", "SQDMLSL", "SQDMULL"}
      odd == CASE id = "PMULL" -> size \in {1, 2}
               [] saturating -> size \in {0, 3}
               [] OTHER -> size = 3
  IN IF scalar
     THEN RejectIf(~saturating \/ odd,
            Insn(id, 6, <<F(16 * 2^size, Rd(w)), F(8 * 2^size, Rn(w)),
                          F(8 * 2^size, Rm(w))>>))
     ELSE RejectIf(odd \/ id = None,
            Insn(id \o Two(Q(w) = 1), 7, Same3(w, 128)))

(***************************************************************************)
(* Immediates.  Those of fmov and of the 64-bit movi are named by the 8    *)
(* bits they are spread from                                               *)
(***************************************************************************)
ModifiedImmediate(w) ==
  LET op == Bit(w, 29)
      cmode == Bits(w, 12, 15)
      o2 == Bit(w, 11)
      imm8 == 32 * Bits(w, 16, 18) + Bits(w, 5, 9)
      id == CASE cmode = 14 \/ (op = 0 /\ (cmode % 2 = 0 \/ cmode >= 12)) -> "MOVI"
              [] cmode # 14 /\ op = 1 /\ (cmode % 2 = 0 \/ cmode >= 12) -> "MVNI"
              [] cmode % 2 = 1 /\ cmode < 12 -> IF op = 0 THEN "ORR" ELSE "BIC"
      amount == CASE cmode < 8 -> 8 * (cmode \div 2)
                  [] cmode \in 8..11 -> 8 * ((cmode \div 2) % 2)
                  [] OTHER -> 8 * 2^(cmode % 2)
      Shift == Opt(cmode # 14 /\ amount > 0,
                   Op("shift", amount, IF cmode < 12 THEN 0 ELSE 4))
      all64 == op = 1 /\ cmode = 14
  IN CASE cmode = 15 -> RejectIf(Q(w) = 0 /\ op = 1,
                          Insn("FMOV", 13, <<V(Rd(w)), Op("float", imm8, 0)>>))
       [] cmode # 15 /\ all64 ->
            Insn("MOVI", 13, <<IF Q(w) = 0 THEN F(64, Rd(w)) ELSE V(Rd(w)),
                               Op("bytes", imm8, 0)>>)
       [] OTHER -> Insn(id, 13, <<V(Rd(w)), I(imm8)>> \o Shift)

\* By opcode, without and with U
ShiftSame ==
  << <<"SSHR", None, "SSRA", None, "SRSHR", None, "SRSRA", None, None, None,
       "SHL", None, None, None, "SQSHL">>,
     <<"USHR", None, "USRA", None, "URSHR", None, "URSRA", None, "SRI", None,
       "SLI", None, "SQSHLU", None, "UQSHL">> >>
ShiftNarrow ==
  << <<"SHRN", "RSHRN", "SQSHRN", "SQRSHRN", "SSHLL">>,
     <<"SQSHRUN", "SQRSHRUN", "UQSHRN", "UQRSHRN", "USHLL">> >>

ShiftByImmediate(w, scalar) ==
  LET U == Bit(w, 29)
      opcode == Bits(w, 11, 15)
      immh == Bits(w, 19, 22)
      amount == Bits(w, 16, 22)
      hsb == HighestSetBit(immh, 4)
      esize == 8 * 2^hsb
      nf == Fields(scalar, 6)
      arranged == hsb < 3 \/ Q(w) = 1
      Amount(n) == Opt(n # 0, I(n))
      \* shifts whose sides have one width
      same == ShiftSame[U + 1][opcode + 1]
      free == same \in {"SQSHL", "SQSHLU", "UQSHL"}
      width == IF scalar /\ ~free THEN 64 ELSE esize
      Same == RejectIf(IF scalar THEN ~free /\ hsb # 3 ELSE ~arranged,
                Named(same, nf, Same2(w, IF scalar THEN width ELSE 128) \o
                      Amount(IF opcode <= 8 THEN 2 * width - amount
                                            ELSE amount - width)))
      \* narrowing and lengthening shifts
      narrow == ShiftNarrow[U + 1][opcode - 15]
      long == opcode = 20
      alias == long /\ amount = esize
      Vector == IF alias THEN U2(w, "SXTL", "UXTL") ELSE narrow
      Narrow ==
        IF scalar
        THEN RejectIf(long \/ (U = 0 /\ opcode < 18) \/ hsb = 3,
               Insn(narrow, nf, <<F(esize, Rd(w)), F(2 * esize, Rn(w))>> \o
                                Amount(2 * esize - amount)))
        ELSE RejectIf(hsb = 3,
               Insn(Vector \o Two(Q(w) = 1), nf, Same2(w, 128) \o
                    Amount(IF long THEN amount - esize ELSE 2 * esize - amount)))
      ToFixed == IF opcode = 28 THEN U2(w, "SCVTF", "UCVTF")
                                ELSE U2(w, "FCVTZS", "FCVTZU")
  IN CASE opcode <= 14 -> Same
       [] opcode \in 16..20 -> Narrow
       [] opcode \in {28, 31} ->
            RejectIf(hsb <= 0 \/ ~(scalar \/ arranged),
              Insn(ToFixed, nf, Same2(w, IF scalar THEN esize ELSE 128) \o
                                Amount(2 * esize - amount)))
       [] OTHER -> Reject

(***************************************************************************)
(* By indexed element.  By opcode, the ids without and with U, and whether *)
(* they lengthen, which has a second form for the upper half.  The long    *)
(* multiplications of floats all but one get the name of the upper half.   *)
(***************************************************************************)
ByElement ==
  << <<None, "MLA", FALSE>>, <<None, None, FALSE>>, <<"SMLAL", "UMLAL", TRUE>>,
     <<"SQDMLAL", None, TRUE>>, <<None, "MLS", FALSE>>, <<None, None, FALSE>>,
     <<"SMLSL", "UMLSL", TRUE>>, <<"SQDMLSL", None, TRUE>>,
     <<"MUL", None, FALSE>>, <<None, None, FALSE>>, <<"SMULL", "UMULL", TRUE>>,
     <<"SQDMULL", None, TRUE>>, <<"SQDMULH", None, FALSE>>,
     <<"SQRDMULH", "SQRDMLAH", FALSE>>, <<"SDOT", "UDOT", FALSE>>,
     <<None, "SQRDMLSH", FALSE>> >>

XIndexedElement(w, scalar) ==
  LET U == Bit(w, 29)
      size == Size(w)
      s == size \div 2
      opcode == Bits(w, 12, 15)
      L == Bit(w, 21)
      M == Bit(w, 20)
      H == Bit(w, 11)
      row == ByElement[opcode + 1]
      id == row[U + 1]
      small == Bits(w, 16, 19)
      HLM == I(4 * H + 2 * L + M)
      HL == I(2 * H + L)
      Form(name, dsz, nsz, m, last) ==
        Insn(name, Fields(scalar, 9),
             (IF scalar THEN <<F(dsz, Rd(w)), F(nsz, Rn(w))>> ELSE Same2(w, 128))
             \o <<V(m)>> \o last)
      half == 8 * 2^size
      saturating == scalar /\ id \in {"SQDMLAL", "SQDMLSL", "SQDMULL"}
      float == CASE opcode = 1 -> "FMLA" [] opcode = 5 -> "FMLS"
                 [] OTHER -> U2(w, "FMUL", "FMULX")
      fsz == IF s = 0 THEN 16 ELSE FloatSize(w)
  IN CASE id # None ->
            RejectIf(\/ size \in {0, 3}
                     \/ scalar /\ opcode \in {0, 2, 6, 10, 14}
                     \/ opcode = 14 /\ size # 2,
              Form(id \o Two(row[3] /\ ~scalar /\ Q(w) = 1),
                   IF saturating THEN 2 * half ELSE half, half,
                   IF size = 1 THEN small ELSE Rm(w),
                   <<IF size = 1 THEN HLM ELSE HL>>))
       [] id = None /\ size = 2 /\ opcode \in {0, 4, 8, 12} ->
            Form(CASE opcode = 0 -> "FMLAL" [] opcode = 8 -> "FMLAL2"
                   [] OTHER -> "FMLSL2", 32, 32, small, <<HLM>>)
       [] id = None /\ (opcode = 9 \/ (U = 0 /\ opcode \in {1, 5})) ->
            RejectIf(s = 1 /\ size = 3 /\ (L = 1 \/ Q(w) = 0),
              Form(float, fsz, fsz, IF s = 0 THEN small ELSE Rm(w),
                   <<CASE s = 0 -> HLM [] s = 1 /\ size = 2 -> HL
                       [] size = 3 -> I(H)>>))
       [] id = None /\ U = 1 /\ size \in {1, 2} /\ opcode \in {1, 3, 5, 7} ->
            Form("FCMLA", half, half, Rm(w),
                 <<IF size = 1 THEN HL ELSE I(H), I(90 * Bits(w, 13, 14))>>)
       [] OTHER -> Reject

(***************************************************************************)
(* Tables, permutations, extraction and reductions                         *)
(***************************************************************************)
TableLookup(w) ==
  RejectIf(Size(w) # 0,
    Insn(IF Bit(w, 12) = 0 THEN "TBL" ELSE "TBX", 7,
         <<V(Rd(w))>> \o
         [j \in 1..(Bits(w, 13, 14) + 1) |-> V((Rn(w) + j - 1) % 32)] \o
         <<V(Rm(w))>>))

Permute(w) ==
  RejectIf(~Full(w),
    Named(Lookup(<<None, "UZP1", "TRN1", "ZIP1", None, "UZP2", "TRN2", "ZIP2">>,
                 Bits(w, 12, 14)), 6, Same3(w, 128)))

SIMDExtract(w) ==
  RejectIf(Size(w) # 0 \/ (Q(w) = 0 /\ Bit(w, 14) = 1),
    Insn("EXT", 6, Same3(w, 128) \o <<I(SignExtend(Bits(w, 11, 14), 4))>>))

\* The size of a reduction of words of floats is stored in the wrong variable
AcrossLanes(w) ==
  LET U == Bit(w, 29)
      size == Size(w)
      opcode == Bits(w, 12, 16)
      Into(id, sz) == Insn(id, 6, <<F(sz, Rd(w)), V(Rn(w))>>)
      least == size \div 2 = 1
  IN CASE opcode \in {3, 10, 26, 27} ->
            RejectIf(size = 3 \/ (size = 2 /\ Q(w) = 0) \/ (opcode = 27 /\ U = 1),
              Into(CASE opcode = 3 -> U2(w, "SADDLV", "UADDLV")
                     [] opcode = 10 -> U2(w, "SMAXV", "UMAXV")
                     [] opcode = 26 -> U2(w, "SMINV", "UMINV")
                     [] opcode = 27 -> "ADDV",
                   IF opcode = 3 THEN 16 * 2^size ELSE 8 * 2^size))
       [] opcode \in {12, 15} ->
            RejectIf(size % 2 = 1 \/ (U = 1 /\ Q(w) = 0),
              Into(IF opcode = 12 THEN IF least THEN "FMINNMV" ELSE "FMAXNMV"
                                  ELSE IF least THEN "FMINV" ELSE "FMAXV",
                   IF U = 0 THEN 16 ELSE 0))
       [] OTHER -> Reject
=============================================================================
