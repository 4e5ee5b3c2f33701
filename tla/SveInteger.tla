------------------------------ MODULE SveInteger ------------------------------
(***************************************************************************)
(* The first group of source/disasm_sve.c: integer arithmetic on scalable  *)
(* vectors and permutations.                                               *)
(*                                                                         *)
(* The size of a register is that of its elements, also of a general one.  *)
(* Each operator is a page of the architecture's encoding index.           *)
(***************************************************************************)
EXTENDS Arm64Word

Z(n, sz) == Op("z", n, sz)
P(n, sz) == Op("p", n, sz)
R(n, sz) == Op("x", n, sz)

Zd(w) == Bits(w, 0, 4)
Zn(w) == Bits(w, 5, 9)
Zm(w) == Bits(w, 16, 20)
Pg(w) == Bits(w, 10, 12)
Op3(w) == Bits(w, 10, 15)

\* The width of the elements, and the one encoded by its lowest bit
GetSz(size) == IF size < 4 THEN 8 * 2^size ELSE 0
GetTsz(size) == IF size % 32 = 0 THEN 0 ELSE 8 * 2^LowestSetBit(size, 5)
Size2(w) == Bits(w, 22, 23)
SzOf(w) == GetSz(Size2(w))

\* The common operands: under a predicate, and three vectors
Predicated(w, sz) == <<P(Pg(w), sz), Z(Zn(w), sz), Z(Zd(w), sz)>>
Three(w, sz) == <<Z(Zd(w), sz), Z(Zn(w), sz), Z(Zm(w), sz)>>

(***************************************************************************)
(* Under a predicate                                                       *)
(***************************************************************************)
MultiplyAdd(w) ==
  LET sz == SzOf(w)
  IN Insn(<< <<"MLA", "MLS">>, <<"MAD", "MSB">> >>[Bit(w, 15) + 1][Bit(w, 13) + 1],
          5, <<Z(Zm(w), sz), P(Pg(w), sz), Z(Zn(w), sz), Z(Zd(w), sz)>>)

BinaryTable ==
  <<"ADD", "SUB", None, "SUBR", None, None, None, None,
    "SMAX", "UMAX", "SMIN", "UMIN", "SABD", "UABD", None, None,
    "MUL", None, "SMULH", "UMULH", "SDIV", "UDIV", "SDIVR", "UDIVR",
    "ORR", "EOR", "AND", "BIC", None, None, None, None>>
BinaryPredicated(w) ==
  Named(BinaryTable[Bits(w, 16, 20) + 1], 4, Predicated(w, SzOf(w)))

ReductionTable ==
  <<"SADDV", "UADDV", None, None, None, None, None, None,
    "SMAXV", "UMAXV", "SMINV", "UMINV", None, None, None, None,
    "MOVPRFX", "MOVPRFX", None, None, None, None, None, None,
    "ORV", "EORV", "ANDV", None, None, None, None, None>>
Reduction(w) ==
  LET sz == SzOf(w)
      into == IF Bits(w, 19, 20) = 2 THEN Z(Zd(w), sz) ELSE F(sz, Zd(w))
  IN Named(ReductionTable[Bits(w, 16, 20) + 1], 4,
           <<P(Pg(w), sz), Z(Zn(w), sz), into>>)

BShift == <<"ASR", "LSR", None, "LSL", "ASRD", None, "SQSHL", "UQSHL",
            None, None, None, None, "SRSHR", "URSHR", None, "SQSHLU">>
BShift2 == <<"ASR", "LSR", None, "LSL", "ASRR", "LSRR", None, "LSLR">>
\* The width of an immediate shift is asked from the wrong function
BitwiseShift(w) ==
  LET op0 == Bits(w, 19, 20)
      opc == Bits(w, 16, 18)
      tsz == GetSz(4 * Size2(w) + Bits(w, 8, 9))
      byVector == Named(BShift2[opc + 1], 4, Predicated(w, SzOf(w)))
  IN CASE op0 < 2 -> Named(BShift[Bits(w, 16, 19) + 1], 4,
                           <<Z(Zd(w), tsz), P(Pg(w), tsz), Z(Zd(w), tsz),
                             I(Bits(w, 5, 7))>>)
       [] op0 = 2 -> byVector
       [] op0 = 3 -> RejectIf(opc > 3, byVector)

UnaryTable == << <<"SXTB", "UXTB", "SXTH", "UXTH", "SXTW", "UXTW", "ABS", "NEG">>,
                 <<"CLS", "CLZ", "CNT", "CNOT", "FABS", "FNEG", "NOT", None>> >>
Unary(w) ==
  IF Bit(w, 20) = 0 THEN Reject
  ELSE Named(UnaryTable[Bit(w, 19) + 1][Bits(w, 16, 18) + 1], 4,
             Predicated(w, SzOf(w)))

op00_op10_op20(w) ==
  CASE Bit(w, 14) = 1 -> MultiplyAdd(w)
    [] Bit(w, 14) = 0 /\ Bits(w, 13, 15) = 0 -> BinaryPredicated(w)
    [] Bit(w, 14) = 0 /\ Bits(w, 13, 15) = 1 -> Reduction(w)
    [] Bit(w, 14) = 0 /\ Bits(w, 13, 15) = 4 -> BitwiseShift(w)
    [] Bit(w, 14) = 0 /\ Bits(w, 13, 15) = 5 -> Unary(w)

(***************************************************************************)
(* Without a predicate                                                     *)
(***************************************************************************)
AddSub == <<"ADD", "SUB", None, None, "SQADD", "UQADD", "SQSUB", "UQSUB">>
\* The second source is recorded first
AddSubtractVectors(w) ==
  Named(AddSub[Pg(w) + 1], 4,
        <<Z(Zm(w), SzOf(w)), Z(Zn(w), SzOf(w)), Z(Zd(w), SzOf(w))>>)

Ternary == <<"EOR3", "BSL", "BCAX", "BSL1N", None, "BSL2N", None, "NBSL">>
BitwiseLogical(w) ==
  LET opc == Pg(w)
      tsz == GetSz(4 * Size2(w) + Bits(w, 19, 20))
  IN CASE opc < 4 -> Reject
       [] opc = 4 -> Insn(<<"AND", "ORR", "EOR", "BIC">>[Size2(w) + 1], 3,
                          <<Z(Zm(w), 32), Z(Zn(w), 32), Z(Zd(w), 32)>>)
       [] opc = 5 -> Insn("XAR", 4, <<Z(Zd(w), tsz), Z(Zd(w), tsz), Z(Zn(w), tsz),
                                      I(Bits(w, 16, 18))>>)
       [] opc > 5 -> Named(Ternary[2 * Size2(w) + Bit(w, 10) + 1], 3,
                           <<Z(Zd(w), 32), Z(Zd(w), 32), Z(Zm(w), 32), Z(Zn(w), 32)>>)

\* INDEX has the id of another instruction
IndexGeneration(w) ==
  LET sz == SzOf(w)
      op0 == Bits(w, 10, 11)
      first == IF op0 % 2 = 0 THEN I(Zn(w)) ELSE R(Zn(w), sz)
      second == IF op0 < 2 THEN I(Zm(w)) ELSE R(Zm(w), sz)
  IN Misnamed("INDEX", Insn("SMAX", IF op0 = 0 THEN 4 ELSE 3,
                            <<Z(Zd(w), sz), first, second>>))

StackAllocation(w) ==
  LET imm6 == I(Bits(w, 5, 10))
  IN CASE Bit(w, 11) = 1 -> Reject
       [] Bit(w, 11) = 0 /\ Bit(w, 23) = 0 ->
            Insn(IF Bit(w, 22) = 0 THEN "ADDVL" ELSE "ADDPL", 3,
                 <<X(Zd(w)), X(Zm(w)), imm6>>)
       [] Bit(w, 11) = 0 /\ Bit(w, 23) = 1 ->
            RejectIf(Zm(w) # 7, Insn("RDVL", 2, <<X(Zd(w)), imm6>>))

MultiplyVectors(w) ==
  LET opc == Pg(w)
  IN RejectIf(opc > 5 \/ (opc = 1 /\ Size2(w) # 0),
       Insn(<<"MUL", "PMUL", "SMULH", "UMULH", "SQDMULH", "SQRDMULH">>
              [IF opc > 5 THEN 1 ELSE opc + 1], 4, Three(w, SzOf(w))))

ShiftVectors(w) ==
  LET tsz == GetSz(4 * Size2(w) + Bits(w, 19, 20))
      id == <<"ASR", "LSR", None, "LSL">>[Bits(w, 10, 11) + 1]
  IN IF Bit(w, 12) = 0 THEN Named(id, 4, Three(w, SzOf(w)))
     ELSE Named(id, 4, <<Z(Zd(w), tsz), Z(Zn(w), tsz), I(Bits(w, 16, 18))>>)

FloatHelpers(w) ==
  LET sz == SzOf(w)
      op0 == Bits(w, 10, 11)
  IN CASE op0 = 3 -> RejectIf(Size2(w) # 0 \/ Zm(w) # 0,
                              Insn("MOVPRFX", 2, <<Z(Zd(w), 64), Z(Zn(w), 64)>>))
       [] op0 = 2 -> RejectIf(Zm(w) # 0,
                              Insn("FEXPA", 3, <<Z(Zd(w), sz), Z(Zn(w), sz)>>))
       [] op0 < 2 -> RejectIf(op0 = 1, Insn("FTSSEL", 4, Three(w, sz)))

SaturateTable ==
  LET Of(e) == [j \in 1..4 |-> <<"SQINC", "UQINC", "SQDEC", "UQDEC">>[j] \o e]
  IN << Of("B"), Of("H"), Of("W"), Of("D") >>
Elements == <<"B", "H", "W", "D">>
\* CNTW and CNTD expect sizes that do not exist
ElementCount(w) ==
  LET sz == SzOf(w)
      size == Size2(w)
      op1 == Bits(w, 11, 13)
      vector == Bit(w, 20) = 0
      tail == <<I(Zn(w)), I(Bits(w, 16, 19))>>
      IncDec == (IF Bit(w, 10) = 0 THEN "INC" ELSE "DEC") \o Elements[size + 1]
      saturate == SaturateTable[size + 1][2 * Bit(w, 11) + Bit(w, 10) + 1]
      count == <<"CNTB", "CNTH", None, "CNTW">>[size + 1]
  IN CASE op1 >= 6 -> Insn(saturate, 4, <<R(Zd(w), sz)>> \o tail)
       [] vector /\ op1 < 2 ->
            RejectIf(size = 0, Insn(saturate, 4, <<Z(Zd(w), sz)>> \o tail))
       [] vector /\ op1 = 4 ->
            RejectIf(Bit(w, 10) = 1, Named(count, 4, <<R(Zd(w), sz)>> \o tail))
       [] ~vector /\ op1 = 0 ->
            RejectIf(size = 0, Insn(IncDec, 4, <<Z(Zd(w), sz)>> \o tail))
       [] ~vector /\ op1 = 4 -> Insn(IncDec, 4, <<R(Zd(w), sz)>> \o tail)
       [] OTHER -> Reject

op00_op10_op21(w) ==
  LET hi == Bits(w, 13, 15)
  IN CASE hi = 0 -> AddSubtractVectors(w)
       [] hi = 1 -> BitwiseLogical(w)
       [] hi = 2 -> IF Bit(w, 12) = 0 THEN IndexGeneration(w) ELSE StackAllocation(w)
       [] hi = 3 -> MultiplyVectors(w)
       [] hi = 4 -> ShiftVectors(w)
       [] hi = 5 -> IF Bit(w, 12) = 0
                    THEN Insn("ADR", 4, Three(w, 64)) ELSE FloatHelpers(w)
       [] hi > 5 -> ElementCount(w)

(***************************************************************************)
(* Immediates and permutations                                             *)
(***************************************************************************)
op00_op11_op20(w) ==
  RejectIf(Bits(w, 18, 19) # 0,
    Insn(<<"ORR", "EOR", "AND", "DUPM">>[Size2(w) + 1], 2,
         <<Z(Zd(w), 64), I(Bits(w, 5, 17))>>))

op00_op11_op21(w) ==
  LET sz == SzOf(w)
      ops == <<Z(Zd(w), sz), P(Bits(w, 16, 19), sz), I(Bits(w, 5, 12))>>
  IN CASE Bits(w, 13, 15) = 6 -> Insn("FCPY", 4, ops)
       [] Bit(w, 15) = 0 -> Insn("CPY", 6, ops \o <<I(Bit(w, 13))>>)
       [] OTHER -> Reject

\* op0 to op2 are bits 19 and 20, 17 and 18, and 16
PermuteVector(w) ==
  LET sz == SzOf(w)
      tsz == GetTsz(Zm(w))
      bottom == Bits(w, 16, 18)
      op0 == Bits(w, 19, 20)
      TwoZ == <<Z(Zd(w), sz), Z(Zn(w), sz)>>
      FromReg == <<Z(Zd(w), sz), R(Zn(w), sz)>>
      Moves == CASE op0 = 0 /\ bottom = 0 -> Insn("DUP", 3, FromReg)
                 [] op0 = 0 /\ bottom = 4 -> Insn("INSR", 3, FromReg)
                 [] op0 = 2 /\ bottom < 4 ->
                      Insn(<<"SUNPKLO", "SUNPKHI", "UUNPKLO", "UUNPKHI">>[bottom + 1],
                           3, TwoZ)
                 [] op0 = 2 /\ bottom = 4 ->
                      Insn("INSR", 3, <<Z(Zd(w), sz), F(sz, Zn(w))>>)
                 [] op0 = 3 /\ bottom = 0 -> Insn("REV", 3, TwoZ)
                 [] OTHER -> Reject
  IN CASE Pg(w) = 0 -> Insn("DUP", 4, <<Z(Zd(w), tsz), Z(Zn(w), tsz), I(Size2(w))>>)
       [] Pg(w) \in {2, 4} -> Insn("TBL", 4, Three(w, sz))
       [] Pg(w) = 3 -> Insn("TBX", 4, Three(w, sz))
       [] Pg(w) = 6 -> Moves
       [] OTHER -> Reject

Zip == <<"ZIP1", "ZIP2", "UZP1", "UZP2", "TRN1", "TRN2">>
PermutePredicate(w) ==
  LET sz == SzOf(w)
      Pd == Bits(w, 0, 3)
      Pn == Bits(w, 5, 8)
      op1 == Zm(w)
      op2 == Bits(w, 9, 12)
      two == op2 % 2 = 0 /\ op1 < 16
  IN CASE Bit(w, 4) = 1 -> Reject
       [] Bit(w, 4) = 0 /\ two /\ op2 < 12 ->
            Insn(Zip[2 * Bits(w, 11, 12) + Bit(w, 10) + 1], 4,
                 <<P(Pd, sz), P(Pn, sz), P(Bits(w, 16, 19), sz)>>)
       [] Bit(w, 4) = 0 /\ Size2(w) = 0 /\ op1 \in {16, 17} /\ op2 = 0 ->
            Insn(IF op1 = 16 THEN "PUNPKLO" ELSE "PUNPKHI", 2,
                 <<P(Pd, 64), P(Pn, 64)>>)
       [] Bit(w, 4) = 0 /\ op1 = 20 /\ op2 = 0 ->
            Insn("REV", 3, <<P(Pd, sz), P(Pn, sz)>>)
       [] OTHER -> Reject

\* The conditional extractions have the ids of the plain ones
Extract(w) == IF Bit(w, 16) = 0 THEN "LASTA" ELSE "LASTB"
ConditionalExtract(w, ops) ==
  Misnamed(IF Bit(w, 16) = 0 THEN "CLASTA" ELSE "CLASTB", Insn(Extract(w), 4, ops))
PermutePredicated(w) ==
  LET sz == SzOf(w)
      low == GetSz(Bit(w, 22))
      op3 == Bit(w, 16)
      form == <<Bit(w, 20), Bits(w, 17, 19), Bit(w, 13)>>
      pg(size) == P(Pg(w), size)
      Into(dst) == <<dst, pg(sz), Z(Zn(w), sz)>>
  IN CASE form = <<0, 0, 0>> /\ op3 = 1 ->
            RejectIf(Bit(w, 23) = 0,
              Insn("COMPACT", 4, <<Z(Zd(w), low), pg(low), Z(Zn(w), low)>>))
       [] form = <<0, 0, 0>> /\ op3 = 0 ->
            Insn("CPY", 4, <<Z(Zd(w), sz), pg(sz), F(sz, Zn(w))>>)
       [] form = <<0, 0, 1>> -> Insn(Extract(w), 4, Into(R(Zd(w), sz)))
       [] form = <<0, 1, 0>> -> Insn(Extract(w), 4, Into(F(sz, Zd(w))))
       [] form \in {<<0, 2, 0>>, <<0, 3, 0>>} ->
            Insn(<<"REVB", "REVH", "REVW", "RBIT">>[Bits(w, 16, 17) + 1], 4,
                 Into(Z(Zd(w), sz)))
       [] form = <<0, 4, 1>> ->
            RejectIf(op3 = 1, Insn("CPY", 4, <<Z(Zd(w), sz), pg(sz), R(Zn(w), sz)>>))
       [] form = <<0, 4, 0>> -> ConditionalExtract(w, Into(Z(Zd(w), sz)))
       [] form = <<0, 5, 0>> ->
            ConditionalExtract(w, <<Z(Zn(w), sz), pg(sz), F(sz, Zd(w))>>)
       [] form = <<0, 6, 0>> -> Insn("SPLICE", 4, Into(Z(Zd(w), sz)))
       [] form = <<1, 0, 1>> ->
            ConditionalExtract(w, <<Z(Zn(w), sz), pg(sz), R(Zd(w), sz)>>)
       [] OTHER -> Reject

op00_op11_op25(w) ==
  LET hi == Bits(w, 13, 15)
      sz == SzOf(w)
  IN CASE hi = 0 -> Reject
       [] hi = 1 -> PermuteVector(w)
       [] hi = 2 -> PermutePredicate(w)
       [] hi = 3 -> RejectIf(Pg(w) > 5,
                      Insn(Zip[IF Pg(w) > 5 THEN 1 ELSE Pg(w) + 1], 4, Three(w, sz)))
       [] hi \in {4, 5} -> PermutePredicated(w)
       [] hi > 5 -> Insn("SEL", 5, <<Z(Zd(w), sz), P(Bits(w, 10, 13), sz),
                                     Z(Zn(w), sz), Z(Zm(w), sz)>>)

\* Two handlers that are asked only after all words have been answered
op00_op12_op25(w) ==
  RejectIf(Bits(w, 13, 15) # 0,
    Insn("EXT", 4, <<Z(Zd(w), 64), Z(Zn(w), 64), I(8 * Zm(w) + Pg(w))>>))

Zip2 == <<"ZIP1", "ZIP2", "UZP1", "UZP2", None, None, "TRN1", "TRN2">>
op00_op13_op25(w) ==
  RejectIf(Bits(w, 13, 15) # 0 \/ Bit(w, 22) = 1,
           Insn(Zip2[Pg(w) + 1], 3, Three(w, 128)))
=============================================================================
