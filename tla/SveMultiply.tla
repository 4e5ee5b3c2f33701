----------------------------- MODULE SveMultiply -----------------------------
(***************************************************************************)
(* The third group of source/disasm_sve.c: multiplication with             *)
(* accumulation, widening and narrowing arithmetic, histograms and         *)
(* cryptography.                                                           *)
(***************************************************************************)
EXTENDS SveInteger

SignedDot == <<"SDOT", "UDOT">>
MlaTable == <<"MLA", "MLS">>
Sqrdml == <<"SQRDMLAH", "SQRDMLSH">>
Sqdml == <<"SQDMLALB", "SQDMLALT", "SQDMLSLB", "SQDMLSLT">>
Sml == <<"SMLALB", "SMLALT", "UMLALB", "UMLALT", "SMLSLB", "SMLSLT", "UMLSLB",
         "UMLSLT">>
Smul == <<"SMULLB", "SMULLT", "UMULLB", "UMULLT">>

(***************************************************************************)
(* By indexed element                                                      *)
(***************************************************************************)
\* The second register is one of 8, or of 16 for doublewords
ElementRegister(w) == IF Size2(w) = 3 THEN Bits(w, 16, 19) ELSE Bits(w, 16, 18)
IndexedOps(w, last) ==
  LET sz == SzOf(w)
  IN <<Z(Zd(w), sz), Z(Zn(w), sz), Z(ElementRegister(w), sz)>> \o last

\* The index of a long multiplication and of a plain one
LongIndex(w) ==
  I(2 * (IF Size2(w) = 2 THEN Bits(w, 19, 20) ELSE Bit(w, 20)) + Bit(w, 11))
PlainIndex(w) ==
  I(CASE Size2(w) < 2 -> 4 * Bit(w, 22) + Bits(w, 19, 20)
      [] Size2(w) = 2 -> Bits(w, 19, 20)
      [] OTHER -> Bit(w, 20))

DotAndAccumulate(w, op0) ==
  LET size == Size2(w)
      odd == (op0 % 2) + 1
      rot == I(Bits(w, 10, 11))
      Wide(insn) == RejectIf(size < 2, insn)
  IN CASE op0 < 2 -> Wide(Insn(SignedDot[odd], 4, IndexedOps(w, <<>>)))
       [] op0 \in 2..3 -> Insn(MlaTable[odd], 4, IndexedOps(w, <<>>))
       [] op0 \in 4..5 -> Insn(Sqrdml[odd], 4, IndexedOps(w, <<>>))
       [] op0 \in 6..7 -> RejectIf(size # 2,
            Insn(<<"USDOT", "SUDOT">>[odd], 5, IndexedOps(w, <<I(Bits(w, 19, 20))>>)))
       \* a test for size 4 stands where 3 is meant, and 3 where 2 is
       [] op0 \in 8..15 -> RejectIf(size # 3,
            Insn(Sqdml[2 * Bit(w, 12) + Bit(w, 10) + 1], 5,
                 IndexedOps(w, <<I(2 * Bits(w, 19, 20) + Bit(w, 11))>>)))
       [] op0 \in 16..19 -> Wide(Insn("CDOT", 5, IndexedOps(w, <<rot>>)))
       [] op0 \in 24..27 -> Wide(Insn("CMLA", 5, IndexedOps(w, <<rot>>)))
       [] op0 \in 28..31 -> Wide(Insn("SQRDCMLAH", 5, IndexedOps(w, <<rot>>)))
       [] OTHER -> Reject

IndexedLong(w, op0) ==
  LET S == Bit(w, 13)
      UT == 2 * Bit(w, 12) + Bit(w, 10)
      id == CASE op0 \in 32..47 -> Sml[4 * S + UT + 1]
              [] op0 \in 48..55 -> Smul[UT + 1]
              [] OTHER -> <<"SQDMULLB", "SQDMULLT">>[Bit(w, 10) + 1]
  IN RejectIf(Size2(w) < 2, Insn(id, 5, IndexedOps(w, <<LongIndex(w)>>)))

op02_op0_op21(w) ==
  LET op0 == Op3(w)
      id == <<"SQDMULH", "SQRDMULH", "MUL">>
  IN CASE op0 < 32 -> DotAndAccumulate(w, op0)
       [] op0 \in 32..59 -> IndexedLong(w, op0)
       [] op0 \in 60..62 -> Insn(id[op0 - 59], 5, IndexedOps(w, <<PlainIndex(w)>>))
       [] op0 = 63 -> Reject

(***************************************************************************)
(* Without and under a predicate                                           *)
(***************************************************************************)
MultiplyAddLong(w) ==
  LET op0 == Bits(w, 10, 14)
      low == Bits(w, 10, 12)
      odd == (op0 % 2) + 1
      three == Three(w, SzOf(w))
      rotated == three \o <<I(Bits(w, 10, 11))>>
  IN CASE op0 < 2 -> Insn(SignedDot[odd], 4, three)
       [] op0 \in 2..3 -> Insn(<<"SQDMLALBT", "SQDMLSLBT">>[odd], 4, three)
       [] op0 \in 4..7 -> Insn("CDOT", 5, rotated)
       [] op0 \in 8..11 -> Insn("CMLA", 5, rotated)
       [] op0 \in 12..15 -> Insn("SQRDCMLAH", 5, rotated)
       [] op0 \in 16..23 -> Insn(Sml[low + 1], 4, three)
       [] op0 \in 24..27 -> Insn(Sqdml[op0 - 23], 4, three)
       [] op0 = 30 -> RejectIf(Size2(w) # 2, Insn("USDOT", 3, three))
       [] OTHER -> Reject

RoundingShift ==
  <<None, None, "SRSHL", "URSHL", None, None, "SRSHLR", "URSHLR",
    None, None, "SQRSHL", "UQRSHL", "SQSHLR", "UQSHLR", "SQRSHLR", "UQRSHLR">>
Halving == <<"SHADD", "UHADD", "SHSUB", "UHSUB", "SRHADD", "URHADD", "SHSUBR",
             "UHSUBR">>
Pairwise == <<None, "ADDP", None, None, "SMAXP", "UMAXP", "SMINP", "UMINP">>
Saturating == <<"SQADD", "UQADD", "SQSUB", "UQSUB", "SUQADD", "USQADD", "SQSUBR",
                "UQSUBR">>
ArithmeticPredicated(w) ==
  LET sz == SzOf(w)
      op0 == Bits(w, 17, 20)
      op1 == Bit(w, 13)
      row == Bits(w, 16, 18) + 1
      As(id) == Named(id, 4, <<Z(Zd(w), sz), P(Pg(w), sz), Z(Zn(w), sz)>>)
  IN CASE op0 = 2 /\ op1 = 1 -> As(<<"SADALP", "UADALP">>[Bit(w, 16) + 1])
       [] op0 \in {0, 1, 4, 5} /\ op1 = 1 ->
            RejectIf(Bit(w, 17) = 1,
              As(<<"URECPE", "URSQRTE", "SQABS", "SQNEG">>
                   [2 * Bit(w, 19) + Bit(w, 16) + 1]))
       [] op0 < 8 /\ op1 = 0 -> As(RoundingShift[Bits(w, 16, 19) + 1])
       [] op0 \in 8..11 /\ op1 = 0 -> As(Halving[row])
       [] op0 \in 8..11 /\ op1 = 1 -> As(Pairwise[row])
       [] op0 \in 12..15 /\ op1 = 0 -> As(Saturating[row])
       [] OTHER -> Reject

op02_op0_op20(w) ==
  CASE Bit(w, 15) = 0 -> MultiplyAddLong(w)
    [] Bits(w, 14, 15) = 2 -> ArithmeticPredicated(w)
    [] Bits(w, 14, 15) = 3 -> Reject

(***************************************************************************)
(* Widening                                                                *)
(***************************************************************************)
AddLong ==
  <<"SADDLB", "SADDLT", "UADDLB", "UADDLT", "SSUBLB", "SSUBLT", "USUBLB", "USUBLT",
    None, None, None, None, "SABDLB", "SABDLT", "UABDLB", "UABDLT",
    "SADDWB", "SADDWT", "UADDWB", "UADDWT", "SSUBWB", "SSUBWT", "USUBWB", "USUBWT",
    "SQDMULLB", "SQDMULLT", "PMULLB", "PMULLT", "SMULLB", "SMULLT", "UMULLB",
    "UMULLT">>

Miscellaneous(w) ==
  LET op1 == Bits(w, 10, 13)
      low == Bits(w, 10, 11) + 1
      sz == SzOf(w)
      tsz == GetTsz(4 * Bit(w, 22) + Bits(w, 19, 20))
  IN CASE op1 < 4 -> Named(<<"SADDLBT", None, "SSUBLBT", "SSUBLTB">>[low], 4, Three(w, sz))
       [] op1 \in 4..5 -> Insn(<<"EORBT", "EORTB">>[op1 - 3], 4, Three(w, sz))
       [] op1 = 6 -> Named(<<"SMMLA", None, "USMMLA", "UMMLA">>[Size2(w) + 1], 3,
                           Three(w, 64))
       [] op1 \in 8..11 -> RejectIf(Bit(w, 23) = 1,
            Insn(<<"SSHLLB", "SSHLLT", "USHLLB", "USHLLT">>[low], 4,
                 <<Z(Zd(w), tsz), Z(Zn(w), tsz), I(Bits(w, 16, 18))>>))
       [] op1 > 11 -> Named(<<"BEXT", "BDEP", "BGRP", None>>[low], 4, Three(w, sz))
       [] OTHER -> Reject

\* The row of the additions with carry is shifted once too often
Accumulate(w) ==
  LET op1 == Bits(w, 11, 13)
      low == Bits(w, 10, 11) + 1
      T == Bit(w, 10) + 1
      sz == SzOf(w)
      tsz == GetTsz(4 * Size2(w) + Bits(w, 19, 20))
      imm3 == I(Bits(w, 16, 18))
      Adc == <<"ADCLB", "ADCLT", "SBCLB", "SBCLT">>
  IN CASE op1 < 2 -> Insn(<<"SABALB", "SABALT", "UABALB", "UABALT">>[low], 4,
                          Three(w, sz))
       [] op1 = 2 -> Insn(Lookup(Adc, 4 * Bit(w, 23) + Bit(w, 10)), 4, Three(w, sz))
       [] op1 = 3 -> RejectIf(Bits(w, 17, 20) # 0,
            Insn(IF Bit(w, 16) = 0 THEN "CADD" ELSE "SQCADD", 4,
                 <<Z(Zd(w), sz), Z(Zn(w), sz), I(Bit(w, 10))>>))
       [] op1 \in 4..5 -> Insn(<<"SSRA", "USRA", "SRSRA", "URSRA">>[low], 4,
                               <<Z(Zd(w), tsz), Z(Zn(w), tsz), imm3>>)
       [] op1 = 6 -> Insn(<<"SRI", "SLI">>[T], 4, <<Z(Zd(w), sz), Z(Zn(w), sz), imm3>>)
       [] op1 = 7 -> Insn(<<"SABA", "UABA">>[T], 4, Three(w, sz))

op02_op1_op20(w) ==
  CASE Bit(w, 15) = 0 -> Named(AddLong[Bits(w, 10, 14) + 1], 4, Three(w, SzOf(w)))
    [] Bits(w, 14, 15) = 2 -> Miscellaneous(w)
    [] Bits(w, 14, 15) = 3 -> Accumulate(w)

(***************************************************************************)
(* Narrowing, histograms and cryptography                                  *)
(***************************************************************************)
HighNarrow == <<"ADDHNB", "ADDHNT", "RADDHNB", "RADDHNT", "SUBHNB", "SUBHNT",
                "RSUBHNB", "RSUBHNT">>
ExtractNarrow == <<"SQXTNB", "SQXTNT", "UQXTNB", "UQXTNT", "SQXTUNB", "SQXTUNT">>
ShiftNarrow ==
  <<"SQSHRUNB", "SQSHRUNT", "SQRSHRUNB", "SQRSHRUNT", "SHRNB", "SHRNT", "RSHRNB",
    "RSHRNT", "SQSHRNB", "SQSHRNT", "SQRSHRNB", "SQRSHRNT", "UQSHRNB", "UQSHRNT",
    "UQRSHRNB", "UQRSHRNT">>
Narrowing(w) ==
  LET op2 == Bits(w, 13, 14)
      tsz == GetTsz(4 * Bit(w, 22) + Bits(w, 19, 20))
      two == <<Z(Zd(w), tsz), Z(Zn(w), tsz)>>
      imm3 == Bits(w, 16, 18)
  IN CASE op2 = 3 -> Insn(HighNarrow[Pg(w) + 1], 4, Three(w, SzOf(w)))
       [] op2 = 2 -> RejectIf(Bit(w, 23) = 1 \/ imm3 # 0,
                       Named(Guarded(ExtractNarrow, Pg(w)), 3, two))
       [] op2 < 2 -> RejectIf(Bit(w, 23) = 1,
                       Insn(ShiftNarrow[Bits(w, 10, 13) + 1], 4, two \o <<I(imm3)>>))

CryptographicExtensions(w) ==
  LET sz == SzOf(w)
      op2 == Bits(w, 11, 12)
      T == Bit(w, 10) + 1
      dn == Z(Zd(w), sz)
  IN RejectIf(Size2(w) # 0,
       CASE Zm(w) = 0 /\ op2 = 0 /\ Zn(w) = 0 ->
              Insn(<<"AESMC", "AESIMC">>[T], 2, <<dn, dn>>)
         [] op2 = 2 -> Insn(<<"SM4EKEY", "RAX1">>[T], 4, Three(w, sz))
         [] op2 = 0 /\ Zm(w) \in {2, 3} ->
              Named(<<"AESE", "AESD", "SM4E", None>>[2 * Bit(w, 16) + T], 3,
                    <<dn, dn, Z(Zn(w), sz)>>)
         [] OTHER -> Reject)

op02_op1_op21(w) ==
  LET sz == SzOf(w)
      hi == Bits(w, 13, 15)
      masked(d) == <<d, P(Pg(w), sz), Z(Zn(w), sz), Z(Zm(w), sz)>>
  IN CASE hi < 4 -> Narrowing(w)
       [] hi = 4 -> Insn(IF Bit(w, 4) = 0 THEN "MATCH" ELSE "NMATCH", 5,
                         masked(P(Bits(w, 0, 3), sz)))
       [] hi = 5 -> RejectIf(Pg(w) # 0, Insn("HISTSEG", 4, Three(w, sz)))
       [] hi = 6 -> Insn("HISTCNT", 5, masked(Z(Zd(w), sz)))
       [] hi = 7 -> CryptographicExtensions(w)
=============================================================================
