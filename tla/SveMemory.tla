------------------------------ MODULE SveMemory ------------------------------
(***************************************************************************)
(* The last groups of source/disasm_sve.c, loads and stores of scalable    *)
(* vectors, and the dispatch over all groups.                              *)
(*                                                                         *)
(* A gather or scatter addresses memory through a vector: the base is a    *)
(* vector with an immediate, or a general register with a vector of        *)
(* offsets and the bit xs, that tells how they are extended.               *)
(***************************************************************************)
EXTENDS SvePredicate, SveMultiply, SveFloat

Zt(w) == Bits(w, 0, 4)
Rn(w) == Bits(w, 5, 9)
Rm(w) == Bits(w, 16, 20)
Xs(w) == Bit(w, 22)
Msz(w) == Bits(w, 23, 24)
Imm4(w) == I(Bits(w, 16, 19))
Imm5(w) == I(Bits(w, 16, 20))
Imm9(w) == I(8 * Bits(w, 16, 21) + Bits(w, 10, 12))

\* The operands: zt, pg, then the base and what is added to it
Moved(w, sz, base, offset) == <<Z(Zt(w), sz), P(Pg(w), sz), base>> \o offset
ViaVector(w, sz, offset) == Moved(w, sz, Z(Rn(w), sz), <<offset>>)
ViaRegister(w, sz, offset) == Moved(w, sz, R(Rn(w), sz), <<offset>>)
\* xs is recorded as an operand of its own
Offsets(w, sz) == Moved(w, sz, R(Rn(w), sz), <<Z(Rm(w), sz), I(Xs(w))>>)

(***************************************************************************)
(* Tables                                                                  *)
(***************************************************************************)
Prf == <<"PRFB", "PRFH", "PRFW", "PRFD">>
GatherSmall == <<"LD1SB", "LDFF1SB", "LD1B", "LDFF1B",
                 "LD1SH", "LDFF1SH", "LD1H", "LDFF1H",
                 None, None, "LD1W", "LDFF1W">>
GatherLarge == <<"LD1SB", "LDFF1SB", "LD1B", "LDFF1B",
                 "LD1SH", "LDFF1SH", "LD1H", "LDFF1H",
                 "LD1SW", "LDFF1SW", "LD1W", "LDFF1W",
                 None, None, "LD1D", "LDFF1D">>
GatherScaled == [i \in 1..16 |-> IF i < 5 THEN None ELSE GatherLarge[i]]
LoadTransient == <<"LDNT1SB", "LDNT1B", "LDNT1SH", "LDNT1H", None, "LDNT1W",
                   None, None>>
LoadTransientLarge == <<"LDNT1SB", "LDNT1B", "LDNT1SH", "LDNT1H", "LDNT1SW",
                        "LDNT1W", None, "LDNT1D">>

\* The suffixes of the families ld1r, ld1, ldnf1 and ldff1
LoadFamily == <<"B", "B", "B", "B", "SW", "H", "H", "H",
                "SH", "SH", "W", "W", "SB", "SB", "SB", "D">>
Element == <<"B", "H", "W", "D">>
Structures(w, prefix) ==
  <<None, prefix \o "2", prefix \o "3", prefix \o "4">>[Bits(w, 21, 22) + 1]
     \o Element[Msz(w) + 1]

(***************************************************************************)
(* 32-bit gathers and unsized contiguous loads                             *)
(***************************************************************************)
Prefetch(id, nf, w, at) ==
  Insn(id, nf, <<I(Bits(w, 0, 3)), P(Pg(w), 32)>> \o at)

\* Registers of offsets that are scaled, and the fill and broadcast of all
GatherScaledHalf(w) ==
  CASE Msz(w) = 0 -> Prefetch(Prf[Bits(w, 13, 14) + 1], 5, w,
                              <<R(Rn(w), 32), Z(Rm(w), 32), I(Xs(w))>>)
    [] Msz(w) = 1 -> Insn(GatherSmall[4 + 2 * Bit(w, 14) + Bit(w, 13) + 1], 5,
                          Offsets(w, 32))
    [] Msz(w) = 2 -> Named(GatherSmall[8 + 2 * Bit(w, 14) + Bit(w, 13) + 1], 5,
                           Offsets(w, 32))

WholeRegister(w) ==
  IF Bits(w, 13, 15) = 0
  THEN Insn("LDR", 4, <<P(Bits(w, 0, 3), 64), X(Rn(w)), Imm9(w)>>)
  ELSE Insn("LDR", 4, <<Z(Zt(w), 64), X(Rn(w)), Imm9(w)>>)

\* The prefetch at a register and an immediate records xs for the immediate
PrefetchAt(w) ==
  Prefetch(Prf[Bits(w, 13, 14) + 1], 4, w, <<R(Rn(w), 32), I(Xs(w))>>)

Transient(w) ==
  LET op2 == Bits(w, 13, 15)
      prf == Prf[Msz(w) + 1]
  IN CASE op2 \in {4, 5} ->
            Named(LoadTransient[2 * Msz(w) + Bit(w, 13) + 1], 4,
                  Moved(w, 32, Z(Rn(w), 32), <<X(Rm(w))>>))
       [] op2 = 6 /\ Bit(w, 4) = 0 ->
            Prefetch(prf, 4, w, <<R(Rn(w), 32), R(Rm(w), 32)>>)
       [] op2 = 7 /\ Bit(w, 4) = 0 ->
            Prefetch(prf, 4, w, <<Z(Rn(w), 32), Imm5(w)>>)
       [] op2 \in {6, 7} /\ Bit(w, 4) = 1 -> Reject

Broadcast(w) ==
  LET sz == GetSz(Bits(w, 13, 14))
  IN Insn("LD1R" \o LoadFamily[4 * Msz(w) + Bits(w, 13, 14) + 1], 6,
          ViaRegister(w, sz, I(Bits(w, 16, 21))))

op04(w) ==
  LET op0 == Msz(w)
      op1 == Bits(w, 21, 22)
      op2 == Bits(w, 13, 15)
      op3 == Bit(w, 4)
      gather == Guarded(GatherSmall, 4 * op0 + Bits(w, 13, 14))
  IN CASE op0 < 3 /\ op1 % 2 = 1 /\ op2 < 4 ->
            RejectIf(op0 = 0 /\ op3 = 1, GatherScaledHalf(w))
       [] op0 < 3 /\ op1 % 2 = 0 /\ op2 < 4 -> Named(gather, 5, Offsets(w, 32))
       [] op0 = 3 /\ op1 < 2 /\ op2 < 4 ->
            RejectIf(op2 \in {1, 3} \/ (op2 = 0 /\ op3 = 1), WholeRegister(w))
       [] op0 = 3 /\ op1 >= 2 /\ op2 < 4 -> RejectIf(op3 = 1, PrefetchAt(w))
       [] op1 = 0 /\ op2 >= 4 -> Transient(w)
       [] op1 = 1 /\ op2 >= 4 -> Named(gather, 4, ViaVector(w, 32, Imm5(w)))
       [] op1 >= 2 /\ op2 >= 4 -> Broadcast(w)

(***************************************************************************)
(* Contiguous loads                                                        *)
(***************************************************************************)
Replicate(w) ==
  LET prefix == <<"LD1RQ", "LD1RO", None, None>>[Bits(w, 21, 22) + 1]
  IN IF prefix = None THEN None ELSE prefix \o Element[Msz(w) + 1]

Contiguous(w) ==
  LET op0 == Bits(w, 21, 22)
      sz == GetSz(Msz(w))
  IN IF Bits(w, 13, 15) = 7
     THEN IF Bit(w, 20) = 1 THEN Reject
          ELSE Insn(IF op0 = 0 THEN "LDNT1" \o Element[Msz(w) + 1]
                    ELSE Structures(w, "LD"), 4, ViaRegister(w, sz, Imm4(w)))
     ELSE IF op0 = 0
          THEN Insn("LDNT1" \o Element[Msz(w) + 1], 4,
                    ViaRegister(w, sz, R(Rm(w), sz)))
          ELSE Insn(Structures(w, "LD"), 4,
                    <<R(Rm(w), sz), P(Pg(w), sz), R(Rn(w), sz), Z(Zt(w), sz)>>)

\* The mnemonic of some of the non-faulting ones is spelt differently
NonFault(w) ==
  LET suffix == LoadFamily[Bits(w, 21, 24) + 1]
      text == IF suffix \in {"SB", "D"} THEN "LD1NF" ELSE "LDNF1"
  IN Misnamed(text \o suffix,
              Insn("LDNF1" \o suffix, 5,
                   ViaRegister(w, GetSz(Bits(w, 21, 22)), Imm4(w))))

op05(w) ==
  LET op2 == Bits(w, 13, 15)
      sz == GetSz(Msz(w))
      dsz == GetSz(Bits(w, 21, 22))
      suffix == LoadFamily[Bits(w, 21, 24) + 1]
  IN CASE op2 \in {6, 7} -> Contiguous(w)
       [] op2 = 0 -> Named(Replicate(w), 6, ViaRegister(w, sz, R(Rm(w), sz)))
       [] op2 = 1 -> RejectIf(Bit(w, 20) = 1,
                        Named(Replicate(w), 6, ViaRegister(w, sz, Imm4(w))))
       [] op2 = 2 -> Insn("LD1" \o suffix, 5, ViaRegister(w, dsz, R(Rm(w), dsz)))
       [] op2 = 3 -> Insn("LDFF1" \o suffix, 5, ViaRegister(w, dsz, R(Rm(w), dsz)))
       [] op2 = 4 -> Reject
       [] op2 = 5 -> IF Bit(w, 20) = 1 THEN NonFault(w)
                     ELSE Insn("LD1" \o suffix, 5, ViaRegister(w, dsz, Imm4(w)))

(***************************************************************************)
(* 64-bit gathers                                                          *)
(***************************************************************************)
\* The size of a prefetch is that of op2 as soon as op0 is 0
PrefetchLarge(w) ==
  LET op1 == Bits(w, 21, 22)
      size == IF Msz(w) = 0 THEN Bits(w, 13, 14) ELSE Msz(w)
      offsets == <<R(Rn(w), 32), Z(Rm(w), 32), I(Xs(w))>>
  IN IF op1 = 0
     THEN RejectIf(Bit(w, 4) = 1,
                   Prefetch(Prf[size + 1], 4, w, <<Z(Rn(w), 32), Imm5(w)>>))
     ELSE Prefetch(Prf[Bits(w, 13, 14) + 1], IF Msz(w) = 0 THEN 5 ELSE 6, w,
                   offsets)

\* Four of the faulting ones print the letters in another order
GatherFaults(w) ==
  LET idx == 4 * Msz(w) + 2 * Bit(w, 14) + Bit(w, 13)
      insn == Named(GatherScaled[idx + 1], 6, Offsets(w, 32))
      texts == [i \in {5, 7, 9, 11} |-> CASE i = 5 -> "LD1FFSH" [] i = 7 -> "LD1FFH"
                                         [] i = 9 -> "LD1FFSW" [] i = 11 -> "LD1FFW"]
  IN IF idx \in {5, 7, 9, 11} THEN Misnamed(texts[idx], insn) ELSE insn

op06(w) ==
  LET op0 == Msz(w)
      op1 == Bits(w, 21, 22)
      op2 == Bits(w, 13, 15)
      msz == IF op0 = 0 THEN Bits(w, 13, 14) ELSE op0
      gather == GatherLarge[4 * msz + 2 * Bit(w, 14) + Bit(w, 13) + 1]
      prefetches == \/ op1 = 3 /\ op2 >= 4 /\ (op0 = 0 => Bit(w, 4) = 0)
                    \/ op0 = 0 /\ op1 \in {1, 3} /\ op2 < 4 /\ Bit(w, 4) = 0
                    \/ op1 = 0 /\ op2 = 7
      scaled == op0 # 0 /\ op1 \in {1, 3} /\ op2 < 4
  IN CASE prefetches -> PrefetchLarge(w)
       [] scaled -> GatherFaults(w)
       [] op1 = 0 /\ op2 \in {4, 6} ->
            Named(LoadTransientLarge[2 * msz + Bit(w, 14) + 1], 4,
                  Moved(w, 32, Z(Rn(w), 32), <<R(Rm(w), 32)>>))
       [] op1 = 1 /\ op2 >= 4 -> Named(gather, 4, ViaVector(w, 32, Imm5(w)))
       [] op1 = 2 /\ op2 >= 4 -> Named(gather, 5, Offsets(w, 64))
       [] op1 \in {0, 2} /\ op2 < 4 -> Named(gather, 5, Offsets(w, 32))
       [] OTHER -> Reject

(***************************************************************************)
(* Stores                                                                  *)
(***************************************************************************)
StoreScaled == << <<"ST1B", "ST1H", "ST1W", "ST1D">>, <<None, "ST1H", "ST1W", "ST1D">>,
                  <<"ST1B", "ST1H", "ST1W", None>>, <<None, "ST1H", "ST1W", None>> >>

StoreContiguous(w) ==
  LET opc == Bits(w, 22, 24)
      sz == GetSz(Bits(w, 21, 22))
      id == CASE opc < 2 -> "ST1B" [] opc = 2 -> "ST1H" [] opc \in {4, 5} -> "ST1W"
              [] opc = 7 /\ Bit(w, 21) = 1 -> "ST1D" [] OTHER -> None
  IN IF Bit(w, 14) = 0
     THEN RejectIf(opc # 3, Insn("STR", 4, <<P(Bits(w, 0, 3), 64), X(Rn(w)), Imm9(w)>>))
     ELSE IF opc = 3 THEN Insn("STR", 4, <<Z(Zt(w), 64), X(Rn(w)), Imm9(w)>>)
          ELSE Named(id, 5, ViaRegister(w, sz, R(Rm(w), sz)))

StoreTransient(w) ==
  LET op0 == Bits(w, 21, 22)
      id == "STNT1" \o Element[Msz(w) + 1]
      base == IF Bit(w, 14) = 0 THEN Z(Rn(w), 64) ELSE R(Rn(w), 32)
      insn == Insn(id, 5, <<Z(Zt(w), 64), P(Pg(w), 32), base, R(Rm(w), 32)>>)
  IN CASE op0 = 0 -> insn
       [] op0 # 0 /\ Bit(w, 14) = 1 ->
            Insn(Structures(w, "ST"), 4, ViaRegister(w, 64, X(Rm(w))))
       [] op0 = 2 /\ Bit(w, 14) = 0 -> RejectIf(Msz(w) = 3, insn)
       [] op0 \in {1, 3} /\ Bit(w, 14) = 0 -> Reject

\* Bit 14, not 22, is the extension of the offsets here
Scatter(w) ==
  LET op0 == Bits(w, 21, 22)
      sz == IF op0 = 3 THEN 32 ELSE 64
  IN Named(StoreScaled[op0 + 1][Msz(w) + 1], 6,
           Moved(w, sz, X(Rn(w)), <<Z(Rm(w), sz), I(Bit(w, 14))>>))

ScatterUnpacked(w) ==
  LET op0 == Bits(w, 21, 22)
      id == StoreScaled[(CASE op0 = 0 -> 0 [] op0 = 1 -> 1 [] op0 = 2 -> 0
                           [] op0 = 3 -> 2) + 1][Msz(w) + 1]
      offsets == Moved(w, 64, X(Rn(w)), <<Z(Rm(w), 64), I(Bit(w, 14))>>)
  IN CASE op0 = 0 -> Insn(id, 6, offsets)
       [] op0 = 1 -> Named(id, 5, offsets)
       [] op0 = 2 -> Insn(id, 5, ViaVector(w, 64, Imm5(w)))
       [] op0 = 3 -> Named(id, 5, ViaVector(w, 32, Imm5(w)))

StoreImmediate(w) ==
  LET op0 == Bits(w, 21, 22)
      sz == GetSz(op0)
  IN CASE Bit(w, 20) = 1 /\ op0 = 0 ->
            Insn("STNT1" \o Element[Msz(w) + 1], 5, ViaRegister(w, 32, Imm4(w)))
       [] Bit(w, 20) = 1 /\ op0 # 0 ->
            Insn(Structures(w, "ST"), 4, ViaRegister(w, 64, Imm4(w)))
       [] Bit(w, 20) = 0 ->
            Insn("ST1" \o Element[Msz(w) + 1], 6, ViaRegister(w, sz, Imm4(w)))

op07(w) ==
  CASE Bits(w, 13, 15) \in {0, 2} -> StoreContiguous(w)
    [] Bits(w, 13, 15) \in {1, 3} -> StoreTransient(w)
    [] Bits(w, 13, 15) \in {4, 6} -> Scatter(w)
    [] Bits(w, 13, 15) = 5 -> ScatterUnpacked(w)
    [] Bits(w, 13, 15) = 7 -> StoreImmediate(w)

(***************************************************************************)
(* The dispatch; a handler that is shadowed by an earlier one of its group *)
(* is not reached                                                          *)
(***************************************************************************)
FloatGroup(w) ==
  LET op2 == Bits(w, 17, 21)
  IN CASE Bit(w, 24) = 1 /\ op2 < 16 -> op03_op1_op40(w)
       [] Bit(w, 24) = 1 /\ op2 >= 16 -> op03_op1_op14(w)
       [] Bit(w, 24) = 0 /\ op2 >= 16 -> op03_op0_op14(w)
       [] Bit(w, 24) = 0 /\ op2 = 0 -> op03_op0_op20(w)
       [] Bit(w, 24) = 0 /\ op2 \in {4, 5} -> op03_op0_op21(w)
       [] Bit(w, 24) = 0 /\ op2 \in 8..11 -> op03_op0_op22(w)
       [] OTHER -> Reject

Disassemble_SVE(w) ==
  LET op0 == Bits(w, 29, 31)
      upper == Bit(w, 24) = 1
      op2 == Bits(w, 17, 21)
      page(low, high) == IF op2 < 16 THEN low ELSE high
  IN CASE op0 = 0 /\ ~upper -> page(op00_op10_op20(w), op00_op10_op21(w))
       [] op0 = 0 /\ upper /\ op2 < 8 -> op00_op11_op20(w)
       [] op0 = 0 /\ upper /\ op2 \in 8..15 -> op00_op11_op21(w)
       [] op0 = 0 /\ upper /\ op2 >= 16 -> op00_op11_op25(w)
       [] op0 = 1 /\ ~upper -> page(op01_op0_op20(w), op01_op0_op21(w))
       [] op0 = 1 /\ upper -> page(op1_op1_op20(w), op1_op1_op41(w))
       [] op0 = 2 /\ ~upper -> page(op02_op0_op20(w), op02_op0_op21(w))
       [] op0 = 2 /\ upper -> page(op02_op1_op20(w), op02_op1_op21(w))
       [] op0 = 3 -> FloatGroup(w)
       [] op0 = 4 -> op04(w)
       [] op0 = 5 -> op05(w)
       [] op0 = 6 -> op06(w)
       [] op0 = 7 -> op07(w)
=============================================================================
