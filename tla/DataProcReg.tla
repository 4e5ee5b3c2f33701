----------------------------- MODULE DataProcReg -----------------------------
(***************************************************************************)
(* source/DataProcessingRegister.c: the instructions on registers.         *)
(***************************************************************************)
EXTENDS Arm64Word

TwoSource ==
  <<"SUBP", None, "UDIV", "SDIV", "IRG", "GMI", None, None, "LSLV", "LSRV",
    "ASRV", "RORV", "PACGA", None, None, None, "CRC32B", "CRC32H", "CRC32W",
    "CRC32X", "CRC32CB", "CRC32CH", "CRC32CW", "CRC32CX">>

DataProcessingTwoSource(w) ==
  LET sf == Bit(w, 31)
      opcode == Bits(w, 10, 15)
      Rm == Bits(w, 16, 20)
      Rn == Bits(w, 5, 9)
      Rd == Bits(w, 0, 4)
      Pair == opcode = 0 /\ sf = 1 /\ Bit(w, 29) = 1
      id == IF Pair THEN (IF Rd = 31 THEN "CMPP" ELSE "SUBPS")
                    ELSE Guarded(TwoSource, opcode)
      ops == CASE opcode >= 16 -> <<W(Rd), W(Rn), G(sf, Rm)>>
               [] opcode \in {2, 3} \union 8..11 ->
                    <<G(sf, Rd), G(sf, Rn), G(sf, Rm)>>
               [] OTHER -> Opt(id # "CMPP", X(Rd)) \o <<X(Rn)>> \o
                           Opt(~(id = "IRG" /\ Rm = 31), X(Rm))
  IN Named(id, 6, ops)

OneSource == <<"RBIT", "REV16", "REV", "REV32", "CLZ", "CLS">>
Authenticate == <<"PACIA", "PACIB", "PACDA", "PACDB",
                  "AUTIA", "AUTIB", "AUTDA", "AUTDB">>
AuthenticateZero == <<"PACIZA", "PACIZB", "PACDZA", "PACDZB", "AUTIZA",
                      "AUTIZB", "AUTDZA", "AUTDZB", "XPACI", "XPACD">>

DataProcessingOneSource(w) ==
  LET sf == Bit(w, 31)
      opcode == Bits(w, 10, 15)
      Rn == Bits(w, 5, 9)
      Rd == Bits(w, 0, 4)
      Reverse == CASE sf = 1 /\ opcode = 2 -> "REV32"
                   [] sf = 1 /\ opcode = 3 -> "REV"
                   [] OTHER -> Guarded(OneSource, opcode)
  IN CASE Bits(w, 16, 20) = 0 ->
            RejectIf(sf = 0 /\ Bit(w, 29) = 0 /\ opcode = 3,
                     Named(Reverse, 6, <<G(sf, Rd), G(sf, Rn)>>))
       [] Bits(w, 16, 20) = 1 /\ opcode < 8 ->
            Insn(Authenticate[opcode + 1], 6, <<X(Rd), X(Rn)>>)
       [] Bits(w, 16, 20) = 1 /\ opcode >= 8 /\ Rn = 31 ->
            Named(Guarded(AuthenticateZero, opcode - 8), 6, <<X(Rd)>>)
       [] OTHER -> Reject

Logical == <<"AND", "BIC", "ORR", "ORN", "EOR", "EON", "ANDS", "BICS">>

LogicalShiftedRegister(w) ==
  LET sf == Bit(w, 31)
      shift == Bits(w, 22, 23)
      imm6 == Bits(w, 10, 15)
      Rm == G(sf, Bits(w, 16, 20))
      Rn == G(sf, Bits(w, 5, 9))
      Rd == G(sf, Bits(w, 0, 4))
      id == Logical[2 * Bits(w, 29, 30) + Bit(w, 21) + 1]
      By == Opt(imm6 # 0, Op("shift", imm6, shift))
  IN RejectIf(sf = 0 /\ imm6 >= 32,
       CASE id = "ORR" /\ shift = 0 /\ imm6 = 0 /\ Rn.n = 31 ->
              Insn("MOV", 8, <<Rd, Rm>>)
         [] id = "ORN" /\ Rn.n = 31 -> Insn("MVN", 8, <<Rd, Rm>> \o By)
         [] id = "ANDS" /\ Rd.n = 31 -> Insn("TST", 8, <<Rn, Rm>> \o By)
         [] OTHER -> Insn(id, 8, <<Rd, Rn, Rm>> \o By))

\* The form of both kinds: the aliases without Rd, and without Rn
AddSubtract(w, nf, Rm, By, extended) ==
  LET sf == Bit(w, 31)
      Rn == G(sf, Bits(w, 5, 9))
      Rd == G(sf, Bits(w, 0, 4))
      id == <<"ADD", "ADDS", "SUB", "SUBS">>[2 * Bit(w, 30) + Bit(w, 29) + 1]
  IN CASE id = "ADDS" /\ Rd.n = 31 -> Insn("CMN", nf, <<Rn, Rm>> \o By)
       [] id = "SUBS" /\ Rd.n = 31 -> Insn("CMP", nf, <<Rn, Rm>> \o By)
       [] id = "SUB" /\ Rn.n = 31 /\ ~extended ->
            Insn("NEG", nf, <<Rd, Rm>> \o By)
       [] id = "SUBS" /\ Rd.n # 31 /\ Rn.n = 31 /\ ~extended ->
            Insn("NEGS", nf, <<Rd, Rm>> \o By)
       [] OTHER -> Insn(id, nf, <<Rd, Rn, Rm>> \o By)

AddSubtractShifted(w) ==
  LET shift == Bits(w, 22, 23)
      imm6 == Bits(w, 10, 15)
  IN RejectIf(shift = 3,
       AddSubtract(w, 8, G(Bit(w, 31), Bits(w, 16, 20)),
                   Opt(imm6 # 0, Op("shift", imm6, shift)), FALSE))

\* The kind of the extension is in the text only
AddSubtractExtended(w) ==
  LET imm3 == Bits(w, 10, 12)
      wide == Bit(w, 31) = 1 /\ Bits(w, 13, 14) = 3
      Rm == Bits(w, 16, 20)
  IN AddSubtract(w, 9, IF wide THEN X(Rm) ELSE W(Rm), Opt(imm3 # 0, Shl(imm3)),
                 TRUE)

\* The table is indexed with sf where it lists S
AddSubtractCarry(w) ==
  LET sf == Bit(w, 31)
      Rn == G(sf, Bits(w, 5, 9))
      id == <<"ADC", "ADCS", "SBC", "SBCS">>[2 * Bit(w, 30) + sf + 1]
      Negate == id \in {"SBC", "SBCS"} /\ Rn.n = 31
  IN Insn(IF ~Negate THEN id ELSE IF id = "SBC" THEN "NGC" ELSE "NGCS", 6,
          <<G(sf, Bits(w, 0, 4))>> \o Opt(~Negate, Rn) \o
          <<G(sf, Bits(w, 16, 20))>>)

RotateRightIntoFlags(w) ==
  RejectIf(Bit(w, 31) # 1 /\ Bit(w, 30) # 0 /\ Bit(w, 29) # 1 /\ Bit(w, 4) # 0,
    Insn("RMIF", 7, <<X(Bits(w, 5, 9)), I(Bits(w, 15, 20)), I(Bits(w, 0, 3))>>))

EvaluateIntoFlags(w) ==
  RejectIf(/\ Bit(w, 31) # 0 /\ Bit(w, 30) # 0 /\ Bit(w, 29) # 1
           /\ Bits(w, 15, 20) # 0 /\ Bit(w, 4) # 0 /\ Bits(w, 0, 3) # 13,
    Insn(IF Bit(w, 14) = 0 THEN "SETF8" ELSE "SETF16", 8, <<W(Bits(w, 5, 9))>>))

ConditionalCompare(w) ==
  LET sf == Bit(w, 31)
      Second == IF Bit(w, 11) = 0 THEN G(sf, Bits(w, 16, 20))
                                  ELSE I(Bits(w, 16, 20))
  IN [Insn(IF Bit(w, 30) = 0 THEN "CCMN" ELSE "CCMP", 9,
           <<G(sf, Bits(w, 5, 9)), Second, I(Bits(w, 0, 3))>>)
        EXCEPT !.cc = Bits(w, 12, 15)]

\* The aliases clear the low bit of the condition
ConditionalSelect(w) ==
  LET sf == Bit(w, 31)
      Rm == G(sf, Bits(w, 16, 20))
      Rn == G(sf, Bits(w, 5, 9))
      Rd == G(sf, Bits(w, 0, 4))
      cond == Bits(w, 12, 15)
      idx == 2 * Bit(w, 30) + Bit(w, 10)
      Alias == cond < 14 /\ Rn = Rm /\ idx # 0
      Zero == Alias /\ Rm.n = 31 /\ idx # 3
      id == CASE Zero -> <<"CSET", "CSETM">>[idx]
              [] Alias /\ ~Zero -> <<"CINC", "CINV", "CNEG">>[idx]
              [] OTHER -> <<"CSEL", "CSINC", "CSINV", "CSNEG">>[idx + 1]
  IN RejectIf(Bit(w, 29) = 1,
       [Insn(id, 8, <<Rd>> \o Opt(~Zero, Rn) \o Opt(~Alias, Rm))
          EXCEPT !.cc = IF Alias THEN cond - (cond % 2) ELSE cond])

\* madd and msub record Rd once more where the text has Ra
DataProcessingThreeSource(w) ==
  LET sf == Bit(w, 31)
      op31 == Bits(w, 21, 23)
      o0 == Bit(w, 15)
      Ra == Bits(w, 10, 14)
      Rd == Bits(w, 0, 4)
      Short == Ra = 31
      All(size) == <<G(size, Bits(w, 5, 9)), G(size, Bits(w, 16, 20))>>
      Long(ids, alias) ==
        Insn(IF Short THEN alias[o0 + 1] ELSE ids[o0 + 1], 8,
             <<X(Rd)>> \o All(0) \o Opt(~Short, X(Ra)))
  IN CASE op31 = 0 ->
            Insn(IF Short THEN <<"MUL", "MNEG">>[o0 + 1]
                          ELSE <<"MADD", "MSUB">>[o0 + 1], 8,
                 <<G(sf, Rd)>> \o All(sf) \o Opt(~Short, G(sf, Rd)))
       [] op31 \in {2, 6} -> Insn(IF op31 = 2 THEN "SMULH" ELSE "UMULH", 8,
                                  <<G(sf, Rd)>> \o All(sf))
       [] op31 = 1 -> Long(<<"SMADDL", "SMSUBL">>, <<"SMULL", "SMNEGL">>)
       [] op31 = 5 -> Long(<<"UMADDL", "UMSUBL">>, <<"UMULL", "UMNEGL">>)
       [] OTHER -> Reject

DataProcessingRegisterDisassemble(w) ==
  LET op1 == Bit(w, 28)
      op2 == Bits(w, 21, 24)
      op3 == Bits(w, 10, 15)
  IN CASE op1 = 1 /\ op2 = 6 -> IF Bit(w, 30) = 0 THEN DataProcessingTwoSource(w)
                                ELSE DataProcessingOneSource(w)
       [] op1 = 0 /\ op2 < 8 -> LogicalShiftedRegister(w)
       [] op1 = 0 /\ op2 >= 8 -> IF op2 % 2 = 0 THEN AddSubtractShifted(w)
                                 ELSE AddSubtractExtended(w)
       [] op1 = 1 /\ op2 = 0 ->
            CASE op3 = 0 -> AddSubtractCarry(w)
              [] op3 \in {1, 33} -> RotateRightIntoFlags(w)
              [] op3 \in {2, 18, 34, 50} -> EvaluateIntoFlags(w)
              [] OTHER -> Reject
       [] op1 = 1 /\ op2 = 2 -> ConditionalCompare(w)
       [] op1 = 1 /\ op2 = 4 -> ConditionalSelect(w)
       [] op1 = 1 /\ op2 >= 8 -> DataProcessingThreeSource(w)
       [] OTHER -> Reject
=============================================================================
