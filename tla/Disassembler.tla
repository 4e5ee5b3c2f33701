----------------------------- MODULE Disassembler -----------------------------
(***************************************************************************)
(* source/armadillo.c: the decoder as its callers see it.  It chooses a    *)
(* group by four bits and hands the word over.  arm64_hack::disasm of      *)
(* ldr/hack.cpp, which steps through code with it, stops at words that are *)
(* no instructions and at traps.                                           *)
(***************************************************************************)
EXTENDS InsnTests

Immediate == INSTANCE DataProcImm
Branches == INSTANCE BranchExcSys
Memory == INSTANCE LoadsAndStores
Registers == INSTANCE DataProcReg
Floating == INSTANCE DataProcFloat
Scalable == INSTANCE SveMemory

(***************************************************************************)
(* The decoder                                                             *)
(***************************************************************************)
Group(w) ==
  LET op0 == Bits(w, 25, 28)
  IN CASE op0 \in {0, 1, 3} -> "Reserved"
       [] op0 = 2 -> "SVE"
       [] op0 \in {8, 9} -> "DataProcessingImmediate"
       [] op0 \in {10, 11} -> "BranchExcSys"
       [] op0 \in {4, 6, 12, 14} -> "LoadsAndStores"
       [] op0 \in {5, 13} -> "DataProcessingRegister"
       [] op0 \in {7, 15} -> "DataProcessingFloatingPoint"

Undefined(w) ==
  RejectIf(Bits(w, 25, 28) # 0 \/ Bits(w, 16, 24) # 0,
           Insn("UDF", 3, <<I(Bits(w, 0, 15))>>))

Disassemble(w) ==
  CASE Group(w) = "Reserved" -> Undefined(w)
    [] Group(w) = "SVE" -> Scalable!Disassemble_SVE(w)
    [] Group(w) = "DataProcessingImmediate" ->
         Immediate!DataProcessingImmediateDisassemble(w)
    [] Group(w) = "BranchExcSys" -> Branches!BranchExcSysDisassemble(w)
    [] Group(w) = "LoadsAndStores" -> Memory!LoadsAndStoresDisassemble(w)
    [] Group(w) = "DataProcessingRegister" ->
         Registers!DataProcessingRegisterDisassemble(w)
    [] Group(w) = "DataProcessingFloatingPoint" ->
         Floating!DataProcessingFloatingPointDisassemble(w)

\* What disasm answers: whether the code goes on here
disasm(insn) == insn.ok /\ insn.id \notin {"UDF", "BRK"}

(***************************************************************************)
(* What the architecture says of the words the programs of ldr/ act on.    *)
(* A word belongs to at most one of these classes.  Reserved words that    *)
(* the decoder takes for an udf or for a conditional branch, because it    *)
(* does not look at bits 29 to 31, or at 24, 25 and 4 together, count as   *)
(* such.                                                                   *)
(***************************************************************************)
Class(w) ==
  CASE Bits(w, 26, 31) = 5 -> "b"
    [] Bits(w, 26, 31) = 37 -> "bl"
    [] Bits(w, 26, 31) = 21 /\ ~(Bit(w, 24) = 1 /\ Bit(w, 4) = 1) -> "bcond"
    [] Bits(w, 25, 30) = 26 -> IF Bit(w, 24) = 0 THEN "cbz" ELSE "cbnz"
    [] Bits(w, 25, 30) = 27 -> IF Bit(w, 24) = 0 THEN "tbz" ELSE "tbnz"
    [] w.hi = 54815 /\ Bits(w, 10, 15) = 0 /\ Bits(w, 0, 4) = 0 -> "br"
    [] w.hi = 54847 /\ Bits(w, 10, 15) = 0 /\ Bits(w, 0, 4) = 0 -> "blr"
    [] w.hi = 54879 /\ Bits(w, 10, 15) = 0 /\ Bits(w, 0, 4) = 0 -> "ret"
    [] Bits(w, 16, 28) = 0 -> "udf"
    [] Bits(w, 21, 31) = 1697 /\ Bits(w, 0, 4) = 0 -> "brk"
    [] Bits(w, 24, 28) = 16 -> IF Bit(w, 31) = 0 THEN "adr" ELSE "adrp"
    [] Bits(w, 24, 25) = 0 /\ Bits(w, 27, 29) = 3 -> "literal"
    [] Bits(w, 24, 29) = 57 -> "transfer"
    [] Bits(w, 23, 28) = 34 -> "arithmetic"
    [] Bits(w, 23, 28) = 37 /\ Bits(w, 29, 30) # 1 -> "wide"
    [] OTHER -> "other"

\* The distance of the target of a direct branch
Distance(w) ==
  CASE Class(w) \in {"b", "bl"} -> 4 * SignExtend(Bits(w, 0, 25), 26)
    [] Class(w) \in {"tbz", "tbnz"} -> 4 * SignExtend(Bits(w, 5, 18), 14)
    [] OTHER -> 4 * SignExtend(Bits(w, 5, 23), 19)

Direct == {"b", "bl", "bcond", "cbz", "cbnz", "tbz", "tbnz"}
=============================================================================
