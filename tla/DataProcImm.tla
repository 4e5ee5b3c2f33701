----------------------------- MODULE DataProcImm -----------------------------
(***************************************************************************)
(* source/DataProcessingImmediate.c: the instructions with an immediate.   *)
(* Each operator is one Disassemble...Instr function: the word in, the     *)
(* outcome out.                                                            *)
(***************************************************************************)
EXTENDS Arm64Word

\* adr adds an offset that was sign extended to 32 bits only; adrp forms its
\* byte offset in 32 bits, which leaves 20 bits of pages, and extends those
PCRelativeAddressing_Unsigned(w) ==
  Insn(IF Bit(w, 31) = 0 THEN "ADR" ELSE "ADRP", 4,
       <<X(Bits(w, 0, 4)), Op(IF Bit(w, 31) = 0 THEN "pc" ELSE "page",
                              Bits(w, 5, 23) * 4 + Bits(w, 29, 30), 0)>>)
PCRelativeAddressing(w) ==
  LET imm == Bits(w, 5, 23) * 4 + Bits(w, 29, 30)
      off == SignExtend(imm, 21)
      Rd == X(Bits(w, 0, 4))
  IN IF Bit(w, 31) = 0
     THEN Insn("ADR", 4, <<Rd, Op(IF off < 0 THEN "pc32" ELSE "pc", off, 0)>>)
     ELSE Insn("ADRP", 4, <<Rd, Op("page", SignExtend(imm % 2^20, 20), 0)>>)

AddSubtractImmediate(w) ==
  LET sf == Bit(w, 31)
      op == Bit(w, 30)
      S == Bit(w, 29)
      sh == Bit(w, 22)
      imm12 == Bits(w, 10, 21)
      Rn == Bits(w, 5, 9)
      Rd == Bits(w, 0, 4)
      Rest == <<I(imm12)>> \o Opt(sh = 1, Shl(12))
      Three == <<G(sf, Rd), G(sf, Rn)>> \o Rest
  IN CASE S = 0 /\ op = 0 ->
            IF sh = 0 /\ imm12 = 0 /\ 31 \in {Rd, Rn}
            THEN Insn("MOV", 7, <<G(sf, Rd), G(sf, Rn)>>)
            ELSE Insn("ADD", 7, Three)
       [] S = 1 /\ op = 0 -> Insn(IF Rd = 31 THEN "CMN" ELSE "ADDS", 7, Three)
       [] S = 0 /\ op = 1 -> Insn("SUB", 7, Three)
       [] S = 1 /\ op = 1 ->
            IF Rd = 31 THEN Insn("CMP", 7, <<G(sf, Rn)>> \o Rest)
                       ELSE Insn("SUBS", 7, Three)

AddSubtractImmediateWithTags(w) ==
  RejectIf(Bit(w, 31) = 0 \/ Bit(w, 29) = 1,
    Insn(IF Bit(w, 30) = 0 THEN "ADDG" ELSE "SUBG", 9,
         <<X(Bits(w, 0, 4)), X(Bits(w, 5, 9)),
           I(Bits(w, 16, 21) * 16), I(Bits(w, 10, 13))>>))

\* MoveWidePreferred is called with its last two arguments exchanged
LogicalImmediate(w) ==
  LET sf == Bit(w, 31)
      opc == Bits(w, 29, 30)
      N == Bit(w, 22)
      immr == Bits(w, 16, 21)
      imms == Bits(w, 10, 15)
      Rd == G(sf, Bits(w, 0, 4))
      Rn == G(sf, Bits(w, 5, 9))
      imm == DecodeBitMasks(N, imms, immr)
      Alias == \/ opc = 1 /\ Rn.n = 31 /\ ~MoveWidePreferred(sf, N, imms, immr)
               \/ opc = 3 /\ Rd.n = 31
  IN RejectIf(sf = 0 /\ N = 1,
       CASE opc = 1 /\ Alias -> Insn("MOV", 7, <<Rd, imm>>)
         [] opc = 3 /\ Alias -> Insn("TST", 7, <<Rn, imm>>)
         [] OTHER -> Insn(<<"AND", "ORR", "EOR", "ANDS">>[opc + 1], 7,
                          <<Rd, Rn, imm>>))

\* The value of a 32-bit mov is a signed number of 32 bits
MoveWideImmediate(w) ==
  LET sf == Bit(w, 31)
      opc == Bits(w, 29, 30)
      hw == Bits(w, 21, 22)
      imm16 == Bits(w, 5, 20)
      Rd == G(sf, Bits(w, 0, 4))
      Whole == ~(imm16 = 0 /\ hw # 0)
      value == IF sf = 0 /\ hw = 1 THEN SignExtend(imm16, 16) ELSE imm16
      Plain == <<Rd, I(imm16)>> \o Opt(hw # 0, Shl(16 * hw))
  IN RejectIf(opc = 1 \/ (sf = 0 /\ hw >= 2),
       CASE opc = 0 ->
              IF Whole /\ (sf = 0 => imm16 # 65535)
              THEN Insn("MOV", 5, <<Rd, Op("inv", value, 16 * hw)>>)
              ELSE Insn("MOVN", 5, Plain)
         [] opc = 2 ->
              IF Whole THEN Insn("MOV", 5, <<Rd, Op("imm", value, 16 * hw)>>)
                       ELSE Insn("MOVZ", 5, Plain)
         [] opc = 3 -> Insn("MOVK", 5, Plain))

Bitfield(w) ==
  LET sf == Bit(w, 31)
      opc == Bits(w, 29, 30)
      immr == Bits(w, 16, 21)
      imms == Bits(w, 10, 15)
      sz == Width(sf)
      Rd == G(sf, Bits(w, 0, 4))
      Rn == G(sf, Bits(w, 5, 9))
      Field(id, a, b) == Insn(id, 7, <<Rd, Rn, I(a), I(b)>>)
      Insert(id) == Field(id, (sz - immr) % sz, imms + 1)
      Extract(id) == Field(id, immr, imms + 1 - immr)
      Shift(id, a) == Insn(id, 7, <<Rd, Rn, I(a)>>)
      Extend(id) == Insn(id, 7, <<Rd, Rn>>)
      Prefer == BFXPreferred(sf, opc \div 2, imms, immr)
      Signed ==
        CASE imms = sz - 1 -> Shift("ASR", immr)
          [] imms # sz - 1 /\ imms < immr -> Insert("SBFIZ")
          [] imms # sz - 1 /\ imms >= immr /\ Prefer -> Extract("SBFX")
          [] OTHER -> IF immr = 0
                      THEN Extend(CASE imms = 15 -> "SXTH"
                                    [] imms = 31 -> "SXTW"
                                    [] OTHER -> "SXTB")
                      ELSE Field("SBFM", immr, imms)
      Copied ==
        IF imms >= immr THEN Extract("BFXIL")
        ELSE IF Rn.n = 31
        THEN Insn("BFC", 7, <<Rd, I((sz - immr) % sz), I(imms + 1)>>)
        ELSE Insert("BFI")
      Unsigned ==
        CASE imms + 1 = immr ->
               RejectIf(imms = sz - 1,
                        Insn("LSL", 7, <<Rd, Rn, Op("imm32", sz - 1 - imms, 0)>>))
          [] imms + 1 # immr /\ imms = sz - 1 -> Shift("LSR", immr)
          [] imms + 1 < immr /\ imms # sz - 1 -> Insert("UBFIZ")
          [] imms >= immr /\ imms # sz - 1 /\ Prefer -> Extract("UBFX")
          [] OTHER -> IF immr = 0
                      THEN Extend(IF imms = 15 THEN "UXTH" ELSE "UXTB")
                      ELSE Field("UBFM", immr, imms)
  IN RejectIf(opc = 3 \/ sf # Bit(w, 22),
       CASE opc = 0 -> Signed [] opc = 1 -> Copied [] OTHER -> Unsigned)

\* The third register is left out when the first one has its number, also
\* of an extr, whose text still names all three
Extract(w) ==
  LET sf == Bit(w, 31)
      op21 == Bits(w, 29, 30)
      N == Bit(w, 22)
      Rm == Bits(w, 16, 20)
      imms == Bits(w, 10, 15)
      Rn == Bits(w, 5, 9)
      Rd == Bits(w, 0, 4)
  IN RejectIf(\/ op21 >= 2
              \/ op21 = 0 /\ Bit(w, 21) = 1
              \/ sf = 0 /\ (imms >= 32 \/ N = 1)
              \/ sf = 1 /\ N = 0,
       Insn(IF Rn = Rm THEN "ROR" ELSE "EXTR", 8,
            <<G(sf, Rd), G(sf, Rn)>> \o Opt(Rd # Rm, G(sf, Rm)) \o <<I(imms)>>))

DataProcessingImmediateDisassemble(w) ==
  CASE Bits(w, 23, 25) \in {0, 1} -> PCRelativeAddressing(w)
    [] Bits(w, 23, 25) = 2 -> AddSubtractImmediate(w)
    [] Bits(w, 23, 25) = 3 -> AddSubtractImmediateWithTags(w)
    [] Bits(w, 23, 25) = 4 -> LogicalImmediate(w)
    [] Bits(w, 23, 25) = 5 -> MoveWideImmediate(w)
    [] Bits(w, 23, 25) = 6 -> Bitfield(w)
    [] Bits(w, 23, 25) = 7 -> Extract(w)
=============================================================================
