---------------------------- MODULE BranchExcSys ----------------------------
(***************************************************************************)
(* source/BranchExcSys.c: branches, exception generation and the system    *)
(* instructions.  Each operator is one Disassemble...Instr function.       *)
(***************************************************************************)
EXTENDS Arm64Word

\* The address of the instruction plus a signed number of words
Target_Unsigned(n, width) == Op("pc", 4 * n, 0)
Target(n, width) == Op("pc", 4 * SignExtend(n, width), 0)

ConditionalImmediateBranch(w) ==
  RejectIf(Bit(w, 24) # 0 /\ Bit(w, 4) # 0,
    [Insn("B", 4, <<Target(Bits(w, 5, 23), 19)>>) EXCEPT !.cc = Bits(w, 0, 3)])

ExcGen(w) ==
  LET opc == Bits(w, 21, 23)
      LL == Bits(w, 0, 1)
      imm == <<I(Bits(w, 5, 20))>>
      id == CASE opc = 0 -> <<None, "SVC", "HVC", "SMC">>[LL + 1]
              [] opc \in {1, 2} /\ LL = 0 -> <<"BRK", "HLT">>[opc]
              [] opc = 5 -> <<None, "DCPS1", "DCPS2", "DCPS3">>[LL + 1]
              [] OTHER -> None
  IN IF Bits(w, 2, 4) # 0 THEN Reject
     ELSE IF opc = 3 /\ LL = 0 THEN Insn("TCANCEL", 1, imm)
     ELSE Named(id, 4, imm)

Hints ==
  << <<"NOP", "YIELD", "WFE", "WFI", "SEV", "SEVL", None, "XPACLRI">>,
     <<"PACIA1716", None, "PACIB1716", None, "AUTIA1716", None, "AUTIB1716">>,
     <<"ESB", "PSB_CSYNC", "TSB_CSYNC", "CSDB">>,
     <<"PACIAZ", "PACIASP", "PACIBZ", "PACIBSP",
       "AUTIAZ", "AUTIASP", "AUTIBZ", "AUTIBSP">> >>

Hint(w) ==
  LET CRm == Bits(w, 8, 11)
      op2 == Bits(w, 5, 7)
  IN IF CRm = 4 /\ op2 % 2 = 0
     THEN Insn("BTI", 2, <<>>)
     ELSE Named(IF CRm > 3 THEN None ELSE Guarded(Hints[CRm + 1], op2), 2, <<>>)

Tme(w) ==
  Named(Guarded(<<"TSTART", "TTEST">>, Bits(w, 8, 11)), 1, <<X(Bits(w, 0, 4))>>)

\* A three bit op2 is never 15: sb is not recognised
Barrier(w) ==
  LET CRm == Bits(w, 8, 11)
      op2 == Bits(w, 5, 7)
  IN RejectIf(Bits(w, 0, 4) # 31,
       CASE op2 = 5 -> Insn("DMB", 3, <<I(CRm)>>)
         [] op2 = 4 -> IF CRm \in {0, 4}
                       THEN Insn(IF CRm = 0 THEN "SSBB" ELSE "PSSBB", 3, <<>>)
                       ELSE Insn("DSB", 3, <<I(CRm)>>)
         [] op2 = 2 -> Insn("CLREX", 3, <<I(CRm)>>)
         [] op2 = 6 -> Insn("ISB", 3, <<I(CRm)>>)
         [] op2 = 3 -> Insn("TCOMMIT", 3, <<>>)
         [] OTHER -> Reject)

PState(w) ==
  LET op1 == Bits(w, 16, 18)
      op2 == Bits(w, 5, 7)
      Known == IF op1 = 0 THEN {3, 4, 5} ELSE {1, 2, 4, 6, 7}
  IN RejectIf(Bits(w, 0, 4) # 31,
       IF op1 = 0 /\ op2 <= 2
       THEN Insn(<<"CFINV", "XAFLAG", "AXFLAG">>[op2 + 1], 4, <<>>)
       ELSE RejectIf(op2 \notin Known,
              Insn("MSR", 4, <<I(8 * op1 + op2), I(Bits(w, 8, 11))>>)))

\* The aliases of sys, each as <<op1, CRm, op2>>
AtOps == {<<0, 8, 0>>, <<4, 8, 0>>, <<6, 8, 0>>, <<0, 8, 1>>, <<4, 8, 1>>,
          <<6, 8, 1>>, <<0, 8, 2>>, <<0, 8, 3>>} \union {<<4, 8, n>> : n \in 4..7}
DcOps == {<<3, 4, 1>>, <<0, 6, 1>>, <<0, 6, 2>>, <<3, 10, 1>>, <<0, 10, 2>>,
          <<3, 11, 1>>, <<3, 14, 1>>, <<0, 14, 2>>, <<3, 13, 1>>}
IcOps == {<<0, 1, 0>>, <<0, 5, 0>>, <<3, 5, 1>>}
TlbiOps ==
  {<<4, CRm, op2>> : CRm \in {0, 4}, op2 \in {1, 5}} \union
  {<<0, CRm, op2>> : CRm \in {3, 7}, op2 \in {0, 1, 2, 3, 5, 7}} \union
  {<<4, CRm, op2>> : CRm \in {3, 7}, op2 \in {0, 1, 4, 5, 6}} \union
  {<<6, CRm, op2>> : CRm \in {3, 7}, op2 \in {0, 1, 5}}

System(w) ==
  LET op1 == Bits(w, 16, 18)
      CRn == Bits(w, 12, 15)
      CRm == Bits(w, 8, 11)
      op2 == Bits(w, 5, 7)
      Rt == X(Bits(w, 0, 4))
      SysOp == <<op1, CRm, op2>>
      All == <<I(op1), I(CRn), I(CRm), I(op2)>>
      Alias(id, n) == Insn(id, 6, <<I(n), Rt>>)
      Encoding == op1 * 128 + CRm * 8 + op2
  IN IF Bit(w, 21) = 1 THEN Insn("SYSL", 6, <<Rt>> \o All)
     ELSE IF CRn = 7 /\ SysOp \in AtOps
     THEN Alias("AT", op1 * 16 + (CRm % 2) * 8 + op2)
     ELSE IF op1 = 3 /\ CRn = 7 /\ CRm = 3
     THEN Named(CASE op2 = 2 -> "CFP" [] op2 = 5 -> "DVP" [] op2 = 7 -> "CPP"
                  [] OTHER -> None, 6, <<Rt>>)
     ELSE IF CRn = 7 /\ SysOp \in DcOps THEN Alias("DC", Encoding)
     ELSE IF CRn = 7 /\ SysOp \in IcOps THEN Alias("IC", Encoding)
     ELSE IF CRn = 8 /\ SysOp \in TlbiOps THEN Alias("TLBI", Encoding)
     ELSE Insn("SYS", 6, All \o Opt(Rt.n # 31, Rt))

SystemRegisterMove(w) ==
  LET Rt == X(Bits(w, 0, 4))
      sreg == (2 + Bit(w, 19)) * 2^14 + Bits(w, 5, 18)
      Sys == Op("sys", sreg, 64)
  IN IF Bit(w, 21) = 1 THEN Insn("MRS", 7, <<Rt, Sys>>)
                       ELSE Insn("MSR", 7, <<Sys, Rt>>)

UnconditionalBranchRegister(w) ==
  LET opc == Bits(w, 21, 24)
      op3 == Bits(w, 10, 15)
      op4 == Bits(w, 0, 4)
      Rn == X(Bits(w, 5, 9))
      Plain == op3 = 0 /\ op4 = 0
      Key(a, b) == IF op3 = 2 THEN a ELSE b
      Jump(id) == Insn(id, 5, <<Rn>>)
      Leave(id) == Insn(id, 5, <<>>)
  IN RejectIf(Bits(w, 16, 20) # 31,
       CASE opc = 0 -> IF Plain THEN Jump("BR")
                       ELSE RejectIf(op4 # 31, Jump(Key("BRAAZ", "BRABZ")))
         [] opc = 1 -> IF Plain THEN Jump("BLR")
                       ELSE RejectIf(op4 # 31, Jump(Key("BLRAAZ", "BLRABZ")))
         [] opc = 8 -> Insn(Key("BRAA", "BRAB"), 5, <<Rn, X(op4)>>)
         [] opc = 9 -> Insn(Key("BLRAA", "BLRAB"), 5, <<Rn, X(op4)>>)
         [] opc = 2 -> IF Plain THEN Insn("RET", 5, Opt(Rn.n # 30, Rn))
                       ELSE RejectIf(op4 # 31, Leave(Key("RETAA", "RETAB")))
         [] opc = 4 -> IF Plain THEN Leave("ERET")
                       ELSE RejectIf(op4 # 31, Leave(Key("ERETAA", "ERETAB")))
         [] opc = 5 -> Leave("DRPS")
         [] OTHER -> Reject)

UnconditionalBranchImm(w) ==
  Insn(IF Bit(w, 31) = 0 THEN "B" ELSE "BL", 2, <<Target(Bits(w, 0, 25), 26)>>)

CompareAndBranchImmediate(w) ==
  Insn(IF Bit(w, 24) = 0 THEN "CBZ" ELSE "CBNZ", 4,
       <<G(Bit(w, 31), Bits(w, 0, 4)), Target(Bits(w, 5, 23), 19)>>)

\* The high bit of the tested position is shifted one place too far
TestAndBranchImmediate(w) ==
  Insn(IF Bit(w, 24) = 0 THEN "TBZ" ELSE "TBNZ", 5,
       <<G(Bit(w, 31), Bits(w, 0, 4)), I(64 * Bit(w, 31) + Bits(w, 19, 23)),
         Target(Bits(w, 5, 18), 14)>>)

BranchExcSysDisassemble(w) ==
  LET op0 == Bits(w, 29, 31)
      op1 == Bits(w, 12, 25)
      SystemClass ==
        IF op1 \div 2^12 = 0 THEN ExcGen(w)
        ELSE IF op1 = 4146 /\ Bits(w, 0, 4) = 31 THEN Hint(w)
        ELSE IF op1 = 4147 THEN Barrier(w)
        ELSE IF op1 = 4659 THEN Tme(w)
        ELSE IF op1 - 16 * ((op1 \div 16) % 8) = 4100 THEN PState(w)
        ELSE IF op1 \div 128 \in {33, 37} THEN System(w)
        ELSE IF op1 \div 256 \in {17, 19} THEN SystemRegisterMove(w)
        ELSE IF op1 \div 2^13 = 1 THEN UnconditionalBranchRegister(w)
        ELSE Reject
  IN CASE op0 = 2 -> ConditionalImmediateBranch(w)
       [] op0 = 6 -> SystemClass
       [] op0 \in {0, 4} -> UnconditionalBranchImm(w)
       [] op0 \in {1, 5} -> IF op1 \div 2^13 = 0 THEN CompareAndBranchImmediate(w)
                            ELSE TestAndBranchImmediate(w)
       [] OTHER -> Reject
=============================================================================
