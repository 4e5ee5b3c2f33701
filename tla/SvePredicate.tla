----------------------------- MODULE SvePredicate -----------------------------
(***************************************************************************)
(* The second group of source/disasm_sve.c: comparisons, predicates and    *)
(* wide immediates.                                                        *)
(***************************************************************************)
EXTENDS SveInteger

Pd(w) == Bits(w, 0, 3)
Pn(w) == Bits(w, 5, 8)
Pm(w) == Bits(w, 16, 19)
P64(n) == P(n, 64)

(***************************************************************************)
(* Comparisons                                                             *)
(***************************************************************************)
\* The bits that choose a comparison
Relation(w) == 4 * Bit(w, 15) + 2 * Bit(w, 13) + Bit(w, 4)
Compared(w, last) == LET sz == SzOf(w)
                     IN <<P(Pd(w), sz), P(Pg(w), sz), Z(Zn(w), sz), last>>

Compare == <<"CMPHS", "CMPHI", "CMPEQ", "CMPNE", "CMPGE", "CMPGT", "CMPEQ", "CMPNE">>
CompareWide == <<"CMPGE", "CMPGT", "CMPLT", "CMPLE", "CMPHS", "CMPHI", "CMPLO",
                 "CMPLS">>
op01_op0_op20(w) ==
  Insn((IF Bit(w, 14) = 0 THEN Compare ELSE CompareWide)[Relation(w) + 1], 5,
       Compared(w, Z(Zm(w), SzOf(w))))

op01_op0_op21(w) ==
  Insn(<<"CMPHS", "CMPHI", "CMPLO", "CMPLS">>[(Relation(w) % 4) + 1], 5,
       Compared(w, I(Bits(w, 14, 20))))

CompareSigned == <<"CMPGE", "CMPGT", "CMPLT", "CMPLE", "CMPEQ", "CMPNE">>
op1_op1_op20(w) ==
  RejectIf(Bit(w, 14) = 1,
    Named(Guarded(CompareSigned, Relation(w)), 5,
          Compared(w, I(Zm(w)))))

(***************************************************************************)
(* Logic of predicates, breaks and the first fault register.  All of this  *)
(* is asked after op1_op1_op20 has answered, and so never                  *)
(***************************************************************************)
Logic == <<"AND", "BIC", "EOR", "SEL", "AND", "BIC", "EOR", None,
           "ORR", "ORN", "NOR", "NAND", "ORR", "ORN", "NOR", "NAND">>
op1_op1_op30(w) ==
  LET flags == 8 * Bit(w, 23) + 4 * Bit(w, 22) + 2 * Bit(w, 9) + Bit(w, 4)
      ops == <<P64(Pd(w)), P64(Bits(w, 10, 13)), P64(Pn(w)), P64(Pm(w))>>
      propagate == <<"BRKPA", "BRKPB", "BRKPAS", "BRKPBS">>
  IN CASE Bits(w, 14, 15) = 1 -> Named(Logic[flags + 1], 4, ops)
       [] Bits(w, 14, 15) = 3 ->
            RejectIf(Bit(w, 9) = 1 \/ Bit(w, 23) = 1,
                     Insn(propagate[2 * Bit(w, 22) + Bit(w, 4) + 1], 4, ops))
       [] OTHER -> Reject

\* The index of a break mixes the two bits into one.  BRKN asks for the
\* opcode that has just been found to be another
Break(w) ==
  RejectIf(Pm(w) # 0 \/ Bit(w, 9) = 1 \/ (Bit(w, 22) = 1 /\ Bit(w, 4) = 1),
    Insn(IF Bit(w, 23) = 1 \/ Bit(w, 22) = 1 THEN "BRKAS" ELSE "BRKA", 3,
         <<P64(Pd(w)), P64(Bits(w, 10, 13)), P64(Pn(w))>>))

PredicateMisc(w) ==
  LET sz == SzOf(w)
      op0 == Pm(w)
      op1 == Bits(w, 11, 13)
      op2 == Bits(w, 9, 10)
      op == Bit(w, 23)
      S == Bit(w, 22)
      pg == P64(Pn(w))
      form == <<op0, op1, op2>>
  IN CASE op0 = 0 /\ op2 \in {0, 2} ->
            RejectIf(op = 1 \/ S = 0 \/ Pd(w) # 0,
                     Insn("PTEST", 2, <<P64(Bits(w, 10, 13)), pg>>))
       [] form = <<8, 0, 0>> ->
            RejectIf(op = 1 \/ S = 0, Insn("PFIRST", 2, <<P64(Pd(w)), pg>>))
       [] form = <<8, 4, 2>> /\ Pn(w) = 0 ->
            RejectIf(op = 1 \/ S = 1, Insn("PFALSE", 1, <<P64(Pd(w))>>))
       [] form = <<8, 6, 0>> ->
            RejectIf(op = 1, Insn(IF S = 0 THEN "RDFFR" ELSE "RDFFRS", 2,
                                  <<P64(Pd(w)), pg>>))
       [] form = <<9, 0, 2>> -> Insn("PNEXT", 2, <<P(Pd(w), sz), P(Pn(w), sz)>>)
       [] form = <<9, 6, 0>> /\ Pn(w) = 0 ->
            RejectIf(op = 1 \/ S = 1, Insn("RDFFR", 1, <<P64(Pd(w))>>))
       [] op0 \in {8, 9} /\ op1 = 4 /\ op2 < 2 ->
            Insn(IF Bit(w, 16) = 0 THEN "PTRUE" ELSE "PTRUES", 3,
                 <<P(Pd(w), sz), I(Zn(w))>>)
       [] OTHER -> Reject

op1_op1_op31(w) ==
  CASE Bits(w, 14, 15) = 1 -> Break(w)
    [] Bits(w, 14, 15) = 3 -> RejectIf(Bit(w, 4) = 1, PredicateMisc(w))
    [] OTHER -> Reject

(***************************************************************************)
(* Scalar comparisons and wide immediates                                  *)
(***************************************************************************)
While == <<"WHILEGE", "WHILEGT", "WHILELT", "WHILELE", "WHILEHS", "WHILEHI",
           "WHILELO", "WHILELS">>
ScalarCompare(w) ==
  LET sz == SzOf(w)
      op0 == Bits(w, 12, 13)
      regs(size) == <<R(Zn(w), size), R(Zm(w), size)>>
  IN CASE op0 < 2 -> Insn(While[4 * Bit(w, 11) + 2 * Bit(w, 10) + Bit(w, 4) + 1], 4,
                          <<P(Pd(w), sz)>> \o regs(sz))
       [] op0 = 2 -> RejectIf(Bits(w, 10, 11) # 0 \/ Pd(w) # 0 \/ Bit(w, 23) = 0,
                       Insn(IF Bit(w, 4) = 0 THEN "CTERMEQ" ELSE "CTERMNE", 2,
                            regs(32)))
       [] op0 = 3 -> RejectIf(Bits(w, 10, 11) # 0,
                       Insn(IF Bit(w, 4) = 0 THEN "WHILEWR" ELSE "WHILERW", 4,
                            <<P(Pd(w), sz)>> \o regs(sz)))

WideTable ==
  <<"ADD", "SUB", None, "SUBR", "SQADD", "UQADD", "SQSUB", "SQSUB",
    "SMAX", "UMAX", "SMIN", "UMIN", "SABD", None, None, None,
    "MUL", None, None, None, None, None, None, None,
    "DUP", "FDUP", None, None, None, None, None, None>>
\* One of the saturating subtractions has the id of the other
WideImmediate(w) ==
  LET idx == Zm(w)
      insn == Named(WideTable[idx + 1], 3, <<Z(Zd(w), SzOf(w)), I(Bits(w, 5, 12))>>)
  IN CASE idx = 7 -> Misnamed("UQSUB", insn)
       [] idx \in (8..23) \union {25} -> RejectIf(Bit(w, 13) = 1, insn)
       [] OTHER -> insn

op1_op1_op41(w) ==
  CASE Bit(w, 15) = 0 -> RejectIf(Bit(w, 14) = 1, ScalarCompare(w))
    [] Bit(w, 15) = 1 -> RejectIf(Bit(w, 14) = 0, WideImmediate(w))

\* Counts of predicates, which op1_op1_op41 leaves no word for either
op1_op1_op42(w) ==
  LET sz == SzOf(w)
  IN RejectIf(Bits(w, 14, 15) # 2 \/ Bit(w, 9) = 1 \/ Bits(w, 16, 18) # 0,
       Insn("CNTP", 4, <<R(Zd(w), sz), P(Bits(w, 10, 13), sz), P(Pn(w), sz)>>))

IncDecPredicate(w) ==
  LET sz == SzOf(w)
      id == <<"SQINCP", "UQINCP", "SQDECP", "UQDECP">>[Bits(w, 16, 17) + 1]
      count == Bit(w, 18) = 1
      general == Bit(w, 11) = 1
      bad == CASE count -> Bit(w, 17) = 1 \/ Bits(w, 9, 10) # 0
               [] ~count /\ general -> Bit(w, 9) = 1
               [] ~count /\ ~general -> Bits(w, 9, 10) # 0
  IN RejectIf(bad,
       Insn(IF count THEN IF Bit(w, 16) = 0 THEN "INCP" ELSE "DECP" ELSE id, 3,
            <<IF general THEN R(Zd(w), sz) ELSE Z(Zd(w), sz), P(Pn(w), sz)>>))

WriteFFR(w) ==
  RejectIf(Zd(w) # 0 \/ Bits(w, 9, 11) # 0 \/ Bits(w, 16, 17) # 0 \/ Size2(w) # 0,
    CASE Bit(w, 18) = 0 -> Insn("WRFFR", 1, <<P64(Pn(w))>>)
      [] Bit(w, 18) = 1 -> RejectIf(Pn(w) # 0, Insn("SETFFR", 0, <<>>)))

op1_op1_op52(w) ==
  CASE Bits(w, 12, 15) = 8 -> IncDecPredicate(w)
    [] Bits(w, 12, 15) = 9 -> WriteFFR(w)
    [] OTHER -> Reject
=============================================================================
