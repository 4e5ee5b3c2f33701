---------------------------- MODULE LoadsAndStores ----------------------------
(***************************************************************************)
(* source/LoadsAndStores.c: loads and stores.  Where an id is found by     *)
(* adding to another id, the result depends on the order of the ids in     *)
(* adefs.h; Misnamed gives the mnemonic that is printed next to it.        *)
(***************************************************************************)
EXTENDS Arm64Word

\* The general or floating point register n
GF(fp, n, sz) == IF fp = 1 THEN F(sz, n) ELSE Op("x", n, sz)

StoreLoad(L) == IF L = 0 THEN "ST" ELSE "LD"
Digit == <<"1", "2", "3", "4">>

\* The names of the registers wrap around after the last one
MultStructures(w, postidxed) ==
  LET opcode == Bits(w, 12, 15)
      Rm == Bits(w, 16, 20)
      Rt == Bits(w, 0, 4)
      Counts == CASE opcode = 0 -> <<4, 4>> [] opcode = 2 -> <<4, 1>>
                  [] opcode = 4 -> <<3, 3>> [] opcode = 6 -> <<3, 1>>
                  [] opcode = 7 -> <<1, 1>> [] opcode = 8 -> <<2, 2>>
                  [] opcode = 10 -> <<2, 1>> [] OTHER -> <<>>
      regcnt == Counts[1]
      By == IF Rm # 31 THEN X(Rm) ELSE I(regcnt * (8 + 8 * Bit(w, 30)))
  IN IF Counts = <<>> THEN Reject
     ELSE Insn(StoreLoad(Bit(w, 22)) \o Digit[Counts[2]],
               IF postidxed THEN 7 ELSE 6,
               [j \in 1..regcnt |-> V((Rt + j - 1) % 32)] \o
               <<X(Bits(w, 5, 9))>> \o Opt(postidxed, By))

\* Here the last register of the list is not wrapped around
SingleStructures(w, postidxed) ==
  LET L == Bit(w, 22)
      Q == Bit(w, 30)
      opcode == Bits(w, 13, 15)
      S == Bit(w, 12)
      size == Bits(w, 10, 11)
      Rm == Bits(w, 16, 20)
      Rt == Bits(w, 0, 4)
      selem == 2 * (opcode % 2) + Bit(w, 21) + 1
      scale == opcode \div 2
      replicate == scale = 3
      \* log2 of the size of an element, and its index in the register
      esize == CASE replicate -> size
                 [] scale = 2 /\ size % 2 = 1 -> 3
                 [] OTHER -> scale
      index == (Q * 8 + S * 4 + size) \div 2^esize
      Name(prefix) == prefix \o Digit[selem] \o (IF replicate THEN "R" ELSE "")
  IN Misnamed(Name(StoreLoad(L)),
       Insn(Name(IF replicate THEN "LD" ELSE StoreLoad(L)),
            IF postidxed THEN 9 ELSE 8,
            [j \in 1..(selem - 1) |-> V((Rt + j - 1) % 32)] \o
            <<V(Rt + selem - 1)>> \o Opt(~replicate, I(index)) \o
            <<X(Bits(w, 5, 9))>> \o
            Opt(postidxed, IF Rm # 31 THEN X(Rm) ELSE I(2^esize * selem))))

\* imm9 = 0 of ldg and stg leaves the immediate out
MemoryTags(w) ==
  LET opc == Bits(w, 22, 23)
      imm9 == Bits(w, 12, 20)
      op2 == Bits(w, 10, 11)
      Two == <<X(Bits(w, 0, 4)), X(Bits(w, 5, 9))>>
      Simm == Opt(imm9 # 0, I(SignExtend(imm9, 9) * 16))
  IN CASE op2 = 0 /\ opc # 1 ->
            RejectIf(imm9 # 0, Insn(<<"STZGM", None, "STGM", "LDGM">>[opc + 1],
                                    5, Two))
       [] op2 = 0 /\ opc = 1 -> Insn("LDG", 5, Two \o Simm)
       [] op2 # 0 -> Insn(<<"STG", "STZG", "ST2G", "STZ2G">>[opc + 1], 5,
                          Two \o Simm)

\* casp: the second register of a pair is one past the first, also past the end
CompareAndSwapPair(w, encoding, sf) ==
  LET Rs == Bits(w, 16, 20)
      Rt == Bits(w, 0, 4)
  IN Insn(CASE encoding = 2 -> "CASP" [] encoding = 3 -> "CASPL"
            [] encoding = 6 -> "CASPA" [] encoding = 7 -> "CASPAL", 9,
          <<G(sf, Rs), G(sf, Rs + 1), G(sf, Rt), G(sf, Rt + 1),
            X(Bits(w, 5, 9))>>)

\* The suffix is meant to be adjusted by adding to the id of the form on bytes
CompareAndSwap(w, encoding, size) ==
  LET i == CASE encoding = 10 -> 1 [] encoding = 11 -> 2
             [] encoding = 14 -> 3 [] encoding = 15 -> 4
      form == IF size < 2 THEN size + 1 ELSE 3
      ids == << <<"CASB", "CASLB", "CASAB", "CASALB">>,
                <<"CASLH", "CASPAL", "CASALH", "CASL">>,
                <<"CBZ", "CFP", "CASPL", "CCMN">> >>
      text == << <<"CASB", "CASLB", "CASAB", "CASALB">>,
                 <<"CASH", "CASLH", "CASAH", "CASALH">>,
                 <<"CAS", "CASL", "CASA", "CASAL">> >>
      sf == IF size = 3 THEN 1 ELSE 0
  IN Misnamed(text[form][i],
              Insn(ids[form][i], 9, <<G(sf, Bits(w, 16, 20)),
                                      G(sf, Bits(w, 0, 4)), X(Bits(w, 5, 9))>>))

ExclusiveSmall ==
  << <<"STXRB", "STLXRB", None, None, "LDXRB", "LDAXRB", None, None,
       "STLLRB", "STLRB", None, None, "LDLARB", "LDARB">>,
     <<"STXRH", "STLXRH", None, None, "LDXRH", "LDAXRH", None, None,
       "STLLRH", "STLRH", None, None, "LDLARH", "LDARH">> >>

ExclusiveByteOrHalf(w, encoding, size) ==
  LET id == ExclusiveSmall[size + 1][encoding + 1]
  IN Named(id, 9, Opt(encoding < 2, W(Bits(w, 16, 20))) \o
                  <<W(Bits(w, 0, 4)), X(Bits(w, 5, 9))>>)

Exclusive ==
  <<"STXR", "STLXR", "STXP", "STLXP", "LDXR", "LDAXR", "LDXP", "LDAXP",
    "STLLR", "STLR", None, None, "LDLAR", "LDAR">>

ExclusiveWord(w, encoding, sf) ==
  LET id == Exclusive[encoding + 1]
      pair == id \in {"STXP", "STLXP", "LDXP", "LDAXP"}
      status == id \in {"STXR", "STLXR", "STXP", "STLXP"}
  IN Named(id, 9, Opt(status, W(Bits(w, 16, 20))) \o <<G(sf, Bits(w, 0, 4))>> \o
                  Opt(pair, G(sf, Bits(w, 10, 14))) \o <<X(Bits(w, 5, 9))>>)

LoadAndStoreExclusive(w) ==
  LET size == Bits(w, 30, 31)
      encoding == 8 * Bit(w, 23) + 4 * Bit(w, 22) + 2 * Bit(w, 21) + Bit(w, 15)
  IN CASE size < 2 /\ encoding \in {2, 3, 6, 7} ->
            CompareAndSwapPair(w, encoding, size)
       [] encoding \in {10, 11, 14, 15} -> CompareAndSwap(w, encoding, size)
       [] size < 2 /\ encoding \notin {2, 3, 6, 7, 10, 11, 14, 15} ->
            ExclusiveByteOrHalf(w, encoding, size)
       [] size >= 2 /\ encoding \notin {10, 11, 14, 15} ->
            ExclusiveWord(w, encoding, size - 2)

LDAPR_STLR(w) ==
  LET size == Bits(w, 30, 31)
      opc == Bits(w, 22, 23)
      imm9 == Bits(w, 12, 20)
      ids == << <<"STLURB", "LDAPURB", "LDAPURSB", "LDAPURSB">>,
                <<"STLURH", "LDAPURH", "LDAPURSH", "LDAPURSH">>,
                <<"STLUR", "LDAPUR", "LDAPURSW", None>>,
                <<"STLUR", "LDAPUR", None, None>> >>
      wide == size = 3 \/ opc = 2
  IN Named(ids[size + 1][opc + 1], 5,
           <<IF wide THEN X(Bits(w, 0, 4)) ELSE W(Bits(w, 0, 4)),
             X(Bits(w, 5, 9))>> \o Opt(imm9 # 0, I(SignExtend(imm9, 9))))

LoadAndStoreLiteral(w) ==
  LET opc == Bits(w, 30, 31)
      VR == Bit(w, 26)
      Rt == Bits(w, 0, 4)
      Address == Op("pc", SignExtend(Bits(w, 5, 23) * 4, 21), 0)
  IN CASE opc = 3 /\ VR = 1 -> Reject
       [] opc = 3 /\ VR = 0 -> Insn("PRFM", 4, <<I(Rt), Address>>)
       [] opc = 2 /\ VR = 0 -> Insn("LDRSW", 4, <<X(Rt), Address>>)
       [] OTHER -> Insn("LDR", 4, <<IF VR = 1 THEN F(2^(5 + opc), Rt)
                                              ELSE G(opc, Rt), Address>>)

\* The form without allocation has the id before that of stp and ldp, and the
\* form with tags the one 15 before
RegisterPair(w, kind) ==
  LET opc == Bits(w, 30, 31)
      VR == Bit(w, 26)
      L == Bit(w, 22)
      imm7 == Bits(w, 15, 21)
      sz == IF VR = 1 THEN 2^(5 + opc) ELSE Width(IF opc = 0 THEN 0 ELSE 1)
      tags == kind # 0 /\ opc = 1 /\ VR = 0 /\ L = 0
      words == kind # 0 /\ opc = 1 /\ VR = 0 /\ L = 1
      scale == CASE tags -> 4 [] VR = 1 -> 2 + opc [] OTHER -> 2 + opc \div 2
      ops == <<GF(VR, Bits(w, 0, 4), sz), GF(VR, Bits(w, 10, 14), sz),
               X(Bits(w, 5, 9))>> \o
             Opt(imm7 # 0, I(SignExtend(imm7, 7) * 2^scale))
  IN CASE opc = 3 -> Reject
       [] opc # 3 /\ kind = 0 ->
            Misnamed(StoreLoad(L) \o "NP",
                     Insn(StoreLoad(L) \o "NT1W", 7, ops))
       [] opc # 3 /\ tags -> Misnamed("STGP", Insn("STLR", 7, ops))
       [] opc # 3 /\ words -> Insn("LDPSW", 7, ops)
       [] OTHER -> Insn(StoreLoad(L) \o "P", 7, ops)

\* The tables of the forms with one register, by size, V and opc
Indexed ==
  <<"STRB", "LDRB", "LDRSB", "LDRSB", "STR", "LDR", "STR", "LDR",
    "STRH", "LDRH", "LDRSH", "LDRSH", "STR", "LDR", None, None,
    "STR", "LDR", "LDRSW", None, "STR", "LDR", None, None,
    "STR", "LDR", "PRFM", None, "STR", "LDR">>
Unscaled ==
  <<"STURB", "LDURB", "LDURSB", "LDURSB", "STUR", "LDUR", "STUR", "LDUR",
    "STURH", "LDURH", "LDURSH", "LDURSH", "STUR", "LDUR", None, None,
    "STUR", "LDUR", "LDURSW", None, "STUR", "LDUR", None, None,
    "STUR", "LDUR", "PRFUM", None, "STUR", "LDUR">>
Unprivileged ==
  <<"STTRB", "LDTRB", "LDTRSB", "LDTRSB", None, None, None, None,
    "STTRH", "LDTRH", "LDTRSH", "LDTRSH", None, None, None, None,
    "STTR", "LDTR", "LDTRSW", None, None, None, None, None,
    "STTR", "LDTR", None>>

\* The size of Rt, in bits
TransferSize(size, VR, opc) ==
  CASE VR = 0 -> IF opc = 2 \/ size = 3 THEN 64 ELSE 32
    [] VR = 1 /\ size = 0 -> IF opc < 2 THEN 8 ELSE 128
    [] VR = 1 /\ size # 0 -> IF opc < 2 THEN 2^(3 + size) ELSE 32

\* kind is op4: unscaled, post-indexed, unprivileged or pre-indexed; or -1,
\* an unsigned offset.  The first and third kind do not record the offset,
\* the indexed ones take it as unsigned
LoadAndStoreRegister(w, kind) ==
  LET size == Bits(w, 30, 31)
      VR == Bit(w, 26)
      opc == Bits(w, 22, 23)
      imm9 == SignExtend(Bits(w, 12, 20), 9)
      imm12 == Bits(w, 10, 21)
      tab == CASE kind = 0 -> Unscaled [] kind = 2 -> Unprivileged
               [] OTHER -> Indexed
      id == Guarded(tab, 8 * size + 4 * VR + opc)
      shift == CASE VR = 1 -> 4 * (opc \div 2) + size
                 [] id \in {"LDRH", "STRH", "LDRSH"} -> 1
                 [] id = "LDRSW" -> 2
                 [] id \in {"STR", "LDR"} -> size
                 [] OTHER -> 0
      Offset == CASE id = "PRFUM" \/ kind \in {1, 3} ->
                         <<Op(IF imm9 < 0 THEN "imm32" ELSE "imm", imm9, 0)>>
                  [] kind = -1 -> Opt(imm12 # 0, I(imm12 * 2^shift))
                  [] OTHER -> <<>>
  IN Named(id, 6, <<GF(VR, Bits(w, 0, 4), TransferSize(size, VR, opc)),
                    X(Bits(w, 5, 9))>> \o Offset)

\* get_atomic_memory_op: the store alias is there without acquire only; the
\* last case of the doubleword forms is a load-acquire's encoding
AtomicId(size, A, R, o3, opc, Rt) ==
  LET order == <<"", "L", "A", "AL">>[2 * A + R + 1] \o
               <<"B", "H", "", "">>[size + 1]
      alias == A = 0 /\ Rt = 31
      ops == <<"ADD", "CLR", "EOR", "SET", "SMAX", "SMIN", "UMAX", "UMIN">>
  IN CASE o3 = 0 /\ <<size, A, R, opc>> = <<3, 1, 1, 0>> -> None
       [] o3 = 0 /\ <<size, A, R, opc>> # <<3, 1, 1, 0>> ->
            (IF alias THEN "ST" ELSE "LD") \o ops[opc + 1] \o order
       [] o3 = 1 /\ opc = 0 -> IF alias THEN None ELSE "SWP" \o order
       [] o3 = 1 /\ opc = 4 /\ A = 1 /\ R = 0 ->
            <<"LDAPRB", "LDAPRH", "LDAPR", "LDADDAL">>[size + 1]
       [] OTHER -> None

\* The 32-bit registers are given the length of their table, 33, as size
AtomicMemory(w) ==
  LET size == Bits(w, 30, 31)
      A == Bit(w, 23)
      Rt == Bits(w, 0, 4)
      id == AtomicId(size, A, Bit(w, 22), Bit(w, 15), Bits(w, 12, 14), Rt)
      Reg(n) == Op("x", n, 33)
      plain == id \in {"LDAPR", "LDAPRB", "LDAPRH"}
  IN IF Bit(w, 26) = 1 THEN Reject
     ELSE Named(id, 9, Opt(~plain, Reg(Bits(w, 16, 20))) \o
                       Opt(plain \/ A = 1 \/ Rt # 31, Reg(Rt)) \o
                       <<X(Bits(w, 5, 9))>>)

\* The base register is recorded with the size of Rt
RegisterOffset(w) ==
  LET size == Bits(w, 30, 31)
      VR == Bit(w, 26)
      opc == Bits(w, 22, 23)
      option == Bits(w, 13, 15)
      S == Bit(w, 12)
      Rm == Bits(w, 16, 20)
      Rt == Bits(w, 0, 4)
      id == Guarded(Indexed, 8 * size + 4 * VR + opc)
      sz == CASE VR = 0 -> TransferSize(size, 0, opc)
              [] VR = 1 /\ size = 0 -> IF opc # 2 THEN 8 ELSE 128
              [] VR = 1 /\ size # 0 -> 2^(3 + size)
      Base == <<Op("x", Bits(w, 5, 9), sz),
                IF option % 2 = 1 THEN X(Rm) ELSE W(Rm)>>
      amount == CASE id \in {"STR", "LDR"} /\ VR = 0 -> IF sz = 64 THEN 3 ELSE 2
                  [] id = "LDRSW" -> 2
                  [] VR = 1 /\ sz # 8 -> CASE sz = 16 -> 1 [] sz = 32 -> 2
                                           [] sz = 64 -> 3 [] OTHER -> 4
                  [] OTHER -> 0
      byte == id \in {"STRB", "LDRB", "LDRSB"} \/ (VR = 1 /\ sz = 8)
      Amount ==
        CASE byte -> Opt(S = 1, I(IF option = 3 THEN 0 ELSE S))
          [] ~byte /\ sz = 128 -> <<I(amount)>>
          [] OTHER -> Opt(S = 1 /\ amount # 0, I(amount))
  IN IF id = "PRFM"
     THEN Insn(id, 8, Base \o <<I(Rt)>> \o Opt(S = 1, I(3)))
     ELSE Named(id, 8, <<GF(VR, Rt, sz)>> \o Base \o Amount)

LoadAndStorePAC(w) ==
  LET simm == SignExtend(Bit(w, 22) * 512 + Bits(w, 12, 20), 10) * 8
  IN RejectIf(Bits(w, 30, 31) # 3 \/ Bit(w, 26) = 1,
       Insn(IF Bit(w, 23) = 0 THEN "LDRAA" ELSE "LDRAB", 8,
            <<X(Bits(w, 0, 4)), X(Bits(w, 5, 9))>> \o Opt(simm # 0, I(simm))))

LoadsAndStoresDisassemble(w) ==
  LET op0 == Bits(w, 28, 31)
      low == op0 % 4
      op1 == Bit(w, 26)
      op2 == Bits(w, 23, 24)
      op3 == Bits(w, 16, 21)
      op4 == Bits(w, 10, 11)
      structures == op0 \in {0, 4} /\ op1 = 1
      tags == op0 = 13 /\ op1 = 0 /\ op2 >= 2 /\ op3 >= 32
  IN CASE structures /\ op2 < 2 /\ op3 < 32 -> MultStructures(w, op2 = 1)
       [] structures /\ op2 >= 2 -> SingleStructures(w, op2 # 2)
       [] tags -> MemoryTags(w)
       [] low = 0 /\ op1 = 0 /\ op2 < 2 -> LoadAndStoreExclusive(w)
       [] low = 1 /\ op1 = 0 /\ op2 >= 2 /\ op3 < 32 /\ op4 = 0 -> LDAPR_STLR(w)
       [] low = 1 /\ op2 < 2 -> LoadAndStoreLiteral(w)
       [] low = 2 -> RegisterPair(w, op2)
       [] low = 3 /\ op2 < 2 /\ op3 < 32 -> LoadAndStoreRegister(w, op4)
       [] low = 3 /\ op2 < 2 /\ op3 >= 32 ->
            CASE op4 = 0 -> AtomicMemory(w)
              [] op4 = 2 -> RegisterOffset(w)
              [] OTHER -> LoadAndStorePAC(w)
       [] low = 3 /\ op2 >= 2 -> LoadAndStoreRegister(w, -1)
       [] OTHER -> Reject
=============================================================================
