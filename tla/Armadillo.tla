------------------------------ MODULE Armadillo ------------------------------
(***************************************************************************)
(* The decoder as a process (source/armadillo.c): the record it fills is   *)
(* blank before.  Half a word is read, then the other half is chosen with  *)
(* the decoding.                                                           *)
(***************************************************************************)
EXTENDS Disassembler

CONSTANTS Highs, Lows   \* The halves of the words that are decoded

HalvesAssumption ==
  /\ \A h \in Highs : h \in 0..65535
  /\ \A l \in Lows : l \in 0..65535
ASSUME HalvesAssumption

(***************************************************************************)
(* Decoding words                                                          *)
(***************************************************************************)
VARIABLES word,     \* The word that is decoded, its lower half still 0 before
          dis,      \* The record that is filled, blank before
          decoded   \* Whether it has been filled

vars == <<word, dis, decoded>>

armadillo_init == /\ dis = Reject /\ decoded = FALSE

Init == /\ word \in [hi : Highs, lo : {0}]
        /\ armadillo_init

\* One of the groups answers
Decode(group) ==
  /\ ~decoded
  /\ \E lo \in Lows :
       /\ word' = [word EXCEPT !.lo = lo]
       /\ Group(word') = group
       /\ dis' = Disassemble(word')
  /\ decoded' = TRUE

DecodeReserved == Decode("Reserved")
DecodeImmediate == Decode("DataProcessingImmediate")
DecodeBranch == Decode("BranchExcSys")
DecodeMemory == Decode("LoadsAndStores")
DecodeRegister == Decode("DataProcessingRegister")
DecodeFloating == Decode("DataProcessingFloatingPoint")
DecodeScalable == Decode("SVE")

Next ==
  \/ DecodeReserved \/ DecodeImmediate \/ DecodeBranch \/ DecodeMemory
  \/ DecodeRegister \/ DecodeFloating \/ DecodeScalable

Spec == Init /\ [][Next]_vars

(***************************************************************************)
(* Properties                                                              *)
(***************************************************************************)
\* The carry instructions of the vectors read behind their table
BehindTable(insn) == insn.id = Overrun

\* The record has room for what a decoder adds, or the macros of common.h
\* abort: thirteen fields, seven operands, five when one is a vector of SVE.
\* An accepted word has an id, and only the known table is left
RecordHasRoom ==
  decoded /\ dis.ok =>
    /\ dis.id # None
    /\ BehindTable(dis) => Bits(word, 24, 31) = 69
    /\ dis.nf <= 13 /\ Len(dis.ops) <= 7
    /\ (\E i \in 1..Len(dis.ops) : dis.ops[i].k = "z") => Len(dis.ops) <= 5
    /\ dis.cc \in -1..15

\* A walk over code sees every branch as what it is, and no other word as a
\* branch, although some ids belong to instructions of another kind; direct
\* branches lead where they lead.  It stops at traps and at nothing else
\* that is an instruction (hack.cpp, hack.h)
BranchesAreFollowed ==
  decoded =>
    LET class == Class(word)
    IN /\ is_b_jimm(dis) <=> class = "b"
       /\ is_bl_jimm(dis) <=> class = "bl"
       /\ is_bxx_jimm(dis) <=> class = "bcond"
       /\ is_cbz_jimm(dis) <=> class = "cbz"
       /\ is_cbnz_jimm(dis) <=> class = "cbnz"
       /\ is_tbz_jimm(dis) <=> class = "tbz"
       /\ is_tbnz_jimm(dis) <=> class = "tbnz"
       /\ check_jmps(dis) <=> class \in Direct \ {"b", "bl"}
       /\ is_br_reg(dis) <=> class = "br"
       /\ is_bl_reg(dis) <=> class = "blr"
       /\ is_ret(dis) <=> class = "ret"
       /\ class \in Direct => JmpAddr(dis) = Op("pc", Distance(word), 0)
       /\ dis.ok => (~disasm(dis) <=> class \in {"udf", "brk"})

\* The address that an adr, an adrp or a load of a literal computes is the one
\* in the record: adr only forwards, adrp within two gigabytes
AddressesAreExact ==
  decoded =>
    LET class == Class(word)
        imm == SignExtend(4 * Bits(word, 5, 23) + Bits(word, 29, 30), 21)
        rd == X(Bits(word, 0, 4))
    IN /\ is_adr(dis) <=> class = "adr"
       /\ is_adrp(dis) <=> class = "adrp"
       /\ is_ldr_off(dis) =>
            class = "literal" /\ dis.ops[2] = Op("pc", Distance(word), 0)
       /\ class = "adr" /\ imm >= 0 => dis.ops = <<rd, Op("pc", imm, 0)>>
       /\ class = "adrp" /\ imm \in (-(2^19))..(2^19 - 1) =>
            dis.ops = <<rd, Op("page", imm, 0)>>

\* The name of a transfer of a general register, and its scaled offset
Transfer(w) == << <<"STRB", "LDRB", "LDRSB", "LDRSB">>,
                  <<"STRH", "LDRH", "LDRSH", "LDRSH">>,
                  <<"STR", "LDR", "LDRSW", None>>,
                  <<"STR", "LDR", "PRFM", None>> >>
                [Bits(w, 30, 31) + 1][Bits(w, 22, 23) + 1]

\* A load or store at an offset is seen under its name with the offset in
\* bytes; without an offset the record has two registers and no third operand.
\* Of a prefetch the offset is the number as it stands in the word
TransfersAreExact ==
  decoded /\ Class(word) = "transfer" /\ Bit(word, 26) = 0 =>
    LET name == Transfer(word)
        scale == IF name = "PRFM" THEN 0 ELSE Bits(word, 30, 31)
        offset == Bits(word, 10, 21) * 2^scale
    IN /\ dis.ok <=> name # None
       /\ dis.ok => /\ dis.id = name
                    /\ dis.ops[2] = X(Bits(word, 5, 9))
                    /\ Len(dis.ops) = IF offset = 0 THEN 2 ELSE 3
                    /\ offset # 0 => /\ is_ldrxx(dis, name)
                                     /\ dis.ops[3] = I(offset)

\* The additions that addresses are made of, and the comparisons, are taken
\* for what they are only when their number is not shifted by 12: the shift
\* is an operand of its own.  What is neither is seen as a move.  (The vectors
\* of SVE have an add of their own, which is_add takes for one as well.)
AddsAreExact ==
  decoded /\ Group(word) # "SVE" =>
    LET plain == Class(word) = "arithmetic" /\ Bit(word, 22) = 0
        operation == Bits(word, 29, 30)
        Register(a) == G(Bit(word, 31), Bits(word, a, a + 4))
        number == I(Bits(word, 10, 21))
    IN /\ is_add(dis) => /\ plain /\ operation = 0
                         /\ dis.ops = <<Register(0), Register(5), number>>
       /\ is_cmp_rimm(dis) => /\ plain /\ operation = 3
                              /\ dis.ops = <<Register(5), number>>
       /\ plain /\ operation = 0 =>
            is_add(dis) \/ (is_mov_rr(dis) /\ number = I(0))

\* What the analyser adds up to an address is in the record as the word has it:
\* pages, offsets of loads and stores, and additions
AddressPartsAreExact ==
  AddressesAreExact /\ TransfersAreExact /\ AddsAreExact

(***************************************************************************)
(* A word with one bit of its operands changed is another instruction, or  *)
(* none: no register or number of the groups is dropped, but those that    *)
(* Forgets names, the offsets left out of MemoryOperands, and of vectors   *)
(* and bit patterns what OperandBits leaves out                            *)
(***************************************************************************)
Flipped(w, b) ==
  LET flip(n, i) == IF BitOf(n, i) = 0 THEN n + 2^i ELSE n - 2^i
  IN IF b < 16 THEN [w EXCEPT !.lo = flip(w.lo, b)]
     ELSE [w EXCEPT !.hi = flip(w.hi, b - 16)]

\* The bits of a load or store that hold its operands.  The exclusive ones
\* have a status or source register in 16 to 20 and a second register in 10 to
\* 14 only some times, else ones stand there; structures have an address
\* register in 16 to 20 when they write back.
MemoryOperands(w) ==
  LET low == Bits(w, 28, 29)
      scaled == Bit(w, 24) = 1
      structures == low = 0 /\ Bit(w, 26) = 1
      exclusive == low = 0 /\ Bit(w, 26) = 0
      ordered == Bit(w, 23) = 1
      writesBack == Bit(w, 23) = 1
      paired == Bit(w, 21) = 1 /\ Bit(w, 31) = 1 /\ ~ordered
      swaps == Bit(w, 21) = 1 /\ ~paired
      stores == Bit(w, 22) = 0 /\ ~ordered
  IN 0..9 \cup
     CASE structures -> (IF writesBack THEN 16..20 ELSE {})
       [] exclusive -> (IF paired THEN 10..14 ELSE {})
                         \cup (IF stores \/ swaps THEN 16..20 ELSE {})
       [] low = 1 -> IF scaled THEN 12..20 ELSE 10..23
       [] low = 2 -> 10..21
       [] low = 3 /\ scaled -> 10..21
       [] low = 3 /\ ~scaled /\ Bit(w, 21) = 0 -> IF Bit(w, 10) = 1 THEN 12..20 ELSE {}
       [] low = 3 /\ ~scaled /\ Bit(w, 21) = 1 ->
            IF Bits(w, 10, 11) = 2 THEN 12..20 ELSE 16..20

ImmediateOperands(w) ==
  CASE Bits(w, 23, 25) = 3 -> 0..13 \cup 16..21  \* Tags
    [] Bits(w, 23, 25) = 4 -> 0..9               \* Bit patterns
    [] OTHER -> 0..20                            \* Bitfields and extr

FloatingOperands(w) ==
  CASE Bits(w, 24, 30) = 31 -> 0..20             \* Two factors and a term
    [] Bits(w, 24, 30) # 31 /\ Bit(w, 21) = 1 /\ Bits(w, 10, 15) # 0 -> 0..9 \cup 16..20
    [] OTHER -> 0..9

\* The operands the code forgets, all of them named here; the offsets of
\* unscaled and unprivileged loads and stores (LoadsAndStores.c:1308, 1344) are
\* left out of MemoryOperands.  The third register of extr is added only if it
\* is not the first (DataProcessingImmediate.c:820): the length of the record
\* still tells.
Forgets(w, insn, b) ==
  \* The third term, the first register once more in its place:
  \* DataProcessingRegister.c:950
  \/ b \in 10..14 /\ insn.id \in {"MADD", "MSUB"}
  \* How an added register or one in an offset is extended and shifted, which
  \* is in the text alone
  \/ b \in 13..15 /\ Bits(w, 24, 28) = 11 /\ Bit(w, 21) = 1
  \/ b \in 12..15 /\ Group(w) = "LoadsAndStores" /\ Bits(w, 28, 29) = 3
       /\ Bit(w, 24) = 0 /\ Bit(w, 21) = 1 /\ Bits(w, 10, 11) = 2
  \* The distance of adrp is cut to 32 bits
  \/ b = 23 /\ insn.id = "ADRP"
  \* The second source of vectors of floating point numbers, read from the
  \* opcode, and two bits of the size of the shifts of vectors
  \/ b \in 5..9 /\ Bits(w, 24, 31) = 101 /\ Bits(w, 13, 15) = 4
  \/ b \in {8, 9} /\ Bits(w, 24, 31) = 4 /\ Bits(w, 13, 15) = 4

\* Bits that belong to the opcode or should be ones, and are not tested, and
\* the condition of the aliases, which AliasesInvertCondition is about
IsUntested(w, insn, b) ==
  \/ b \in {11, 12} /\ Bits(w, 21, 28) = 212
  \/ b \in {4, 10} /\ insn.id \in {"CCMP", "CCMN", "RMIF"}
  \/ b \in 10..15 /\ insn.id \in {"SMULH", "UMULH"}
  \/ b \in 0..4 \cup 15..20 /\ insn.id \in {"SETF8", "SETF16"}
  \/ b \in 0..4 /\ insn.id \in {"FCMP", "FCMPE"}
  \/ b \in 16..20 /\ insn.id \in {"LDAPR", "LDAPRB", "LDAPRH"}
  \/ insn.id \in {"ERET", "ERETAA", "ERETAB", "RETAA", "RETAB", "DRPS"}
  \/ b = 4 /\ Group(w) = "SVE" /\ insn.id \in {"PRFB", "PRFH", "PRFW", "PRFD", "STR"}

\* The bits that hold the registers, numbers and conditions of a word, and of
\* some classes everything.  Of the vectors of SVE these are the first two
\* registers, of the other vectors also the third; of bit patterns, which can be
\* written in several ways, the registers.
OperandBits(w, insn) ==
  LET class == Class(w)
      group == Group(w)
      whole == {"arithmetic", "wide", "adr", "adrp"} \cup (Direct \ {"bcond"})
      all == CASE class \in whole -> 0..31
               [] class = "bcond" -> 0..23 \ {4}
               [] class \notin whole \cup {"bcond"} ->
                    CASE group = "DataProcessingImmediate" -> ImmediateOperands(w)
                      [] group = "LoadsAndStores" -> MemoryOperands(w)
                      [] group = "DataProcessingRegister" -> 0..20
                      [] group = "DataProcessingFloatingPoint" -> FloatingOperands(w)
                      [] group = "BranchExcSys" -> IF Bits(w, 25, 31) = 107 THEN 0..9 ELSE 0..20
                      [] group = "SVE" -> 0..9
                      [] OTHER -> {}
  IN {b \in all : ~Forgets(w, insn, b) /\ ~IsUntested(w, insn, b)}

OperandsMatter ==
  decoded /\ dis.ok =>
    \A b \in OperandBits(word, dis) :
      LET other == Disassemble(Flipped(word, b))
      IN <<other.ok, other.id, other.ops, other.cc>>
           # <<dis.ok, dis.id, dis.ops, dis.cc>>

\* The aliases of the conditional selections name the inverse of the condition
\* that is in the word, DataProcessingRegister.c:880
AliasesInvertCondition ==
  decoded /\ dis.ok /\ dis.id \in {"CINC", "CINV", "CNEG", "CSET", "CSETM"} =>
    LET cond == Bits(word, 12, 15)
    IN dis.cc = IF cond % 2 = 0 THEN cond + 1 ELSE cond - 1
=============================================================================
