------------------------------ MODULE InsnTests ------------------------------
(***************************************************************************)
(* The questions the programs of ldr/ ask about the instruction they have  *)
(* just decoded (ldr/hack.h, ldr/hack.cpp).  They look at the id, the      *)
(* number of operands and the types of the operands, never at the text.    *)
(***************************************************************************)
EXTENDS Arm64Word

\* The instruction has the id, and operands of exactly these types
Shaped(dis, id, types) ==
  /\ dis.ok /\ dis.id = id
  /\ Len(dis.ops) = Len(types)
  /\ \A i \in 1..Len(types) :
       IF types[i] = "R" THEN IsReg(dis.ops[i]) ELSE IsImm(dis.ops[i])

\* Only the last operand of these is looked at
Ends(dis, id, count) ==
  dis.ok /\ dis.id = id /\ Len(dis.ops) = count /\ IsImm(dis.ops[count])

(***************************************************************************)
(* Branches; the answer is accompanied by the address in the last operand  *)
(***************************************************************************)
is_b_jimm(dis) == Ends(dis, "B", 1) /\ dis.cc = -1
is_bxx_jimm(dis) == Ends(dis, "B", 1) /\ dis.cc # -1
is_bl_jimm(dis) == Ends(dis, "BL", 1)
is_cbz_jimm(dis) == Ends(dis, "CBZ", 2)
is_cbnz_jimm(dis) == Ends(dis, "CBNZ", 2)
is_tbz_jimm(dis) == Ends(dis, "TBZ", 3)
is_tbnz_jimm(dis) == Ends(dis, "TBNZ", 3)
is_br_reg(dis) == Shaped(dis, "BR", <<"R">>)
is_bl_reg(dis) == Shaped(dis, "BLR", <<"R">>)
is_ret(dis) == dis.ok /\ dis.id = "RET"

JmpAddr(dis) == dis.ops[Len(dis.ops)]

\* The jumps a walk follows besides the straight line
check_jmps(dis) ==
  \/ is_cbnz_jimm(dis) \/ is_cbz_jimm(dis)
  \/ is_tbz_jimm(dis) \/ is_tbnz_jimm(dis)
  \/ is_bxx_jimm(dis)

(***************************************************************************)
(* Addresses, loads and stores                                             *)
(***************************************************************************)
is_adr(dis) == Shaped(dis, "ADR", <<"R", "I">>)
is_adrp(dis) == Shaped(dis, "ADRP", <<"R", "I">>)
is_add(dis) == Shaped(dis, "ADD", <<"R", "R", "I">>)
is_ldrxx(dis, id) == Shaped(dis, id, <<"R", "R", "I">>)
is_ldr(dis) == is_ldrxx(dis, "LDR")
is_ldrb(dis) == is_ldrxx(dis, "LDRB")
is_ldrh(dis) == is_ldrxx(dis, "LDRH")
is_ldrsb(dis) == is_ldrxx(dis, "LDRSB")
is_str(dis) == is_ldrxx(dis, "STR")
is_strb(dis) == is_ldrxx(dis, "STRB")
is_strh(dis) == is_ldrxx(dis, "STRH")
is_ldr_rr(dis) == Shaped(dis, "LDR", <<"R", "R">>)
is_ldr_off(dis) == Shaped(dis, "LDR", <<"R", "I">>)
is_ldar(dis) == Shaped(dis, "LDAR", <<"R", "R">>)
is_cmp_rimm(dis) == Shaped(dis, "CMP", <<"R", "I">>)
is_mov_rimm(dis) == Shaped(dis, "MOV", <<"R", "I">>)
is_mov_rr(dis) == Shaped(dis, "MOV", <<"R", "R">>)
=============================================================================
