------------------------------ MODULE Arm64Word ------------------------------
(***************************************************************************)
(* What the decoders of source/ share: taking fields out of an instruction *)
(* word (bits.c, utils.c), the operands they record (the ADD_..._OPERAND   *)
(* macros of common.h) and the outcome of a decode (struct ad_insn of      *)
(* adefs.h).                                                               *)
(*                                                                         *)
(* A word is a pair of halves, [hi, lo], each 16 bits wide, so that every  *)
(* number stays small.  An outcome keeps what a caller can act on: whether *)
(* the word was accepted, the instruction id and the mnemonic in the text  *)
(* (the id's own name almost everywhere), the number of fields, the        *)
(* operands and the condition.                                             *)
(*                                                                         *)
(* An operand is a record [k, n, sz]: its kind, a number and a size.       *)
(*   x      general register n, sz bits wide                               *)
(*   v      vector or floating point register n, sz bits wide              *)
(*   z, p   SVE vector or predicate register n                             *)
(*   sys    system register n                                              *)
(*   imm    the immediate n, shifted left by sz                            *)
(*   imm32  the immediate n as an unsigned number of 32 bits               *)
(*   inv    the complement of imm                                          *)
(*   mask   a logical immediate (see DecodeBitMasks)                       *)
(*   float  the floating point number that the 8 bits n stand for          *)
(*   bytes  the 64 bits of which each byte is filled with a bit of n       *)
(*   pc     the address of the instruction plus n                          *)
(*   pc32   the same with n taken as an unsigned number of 32 bits         *)
(*   page   the page of the instruction plus n pages                       *)
(*   shift  a shift of type sz by n                                        *)
(***************************************************************************)
EXTENDS Integers, Sequences

\* The bits from a to b of a word
Bits(w, a, b) ==
  IF b < 16 THEN (w.lo \div 2^a) % 2^(b - a + 1)
  ELSE IF a >= 16 THEN (w.hi \div 2^(a - 16)) % 2^(b - a + 1)
  ELSE (w.hi % 2^(b - 15)) * 2^(16 - a) + w.lo \div 2^a

Bit(w, a) == Bits(w, a, a)

\* The number whose two's complement in the given width is n
SignExtend(n, width) == IF n >= 2^(width - 1) THEN n - 2^width ELSE n

\* The least and the greatest bit set among the low ones, and the default
BitOf(n, i) == (n \div 2^i) % 2
LowestSetBit(n, width) ==
  IF n % 2^width = 0 THEN width
  ELSE CHOOSE i \in 0..(width - 1) :
         BitOf(n, i) = 1 /\ \A j \in 0..(i - 1) : BitOf(n, j) = 0
HighestSetBit(n, width) ==
  IF n % 2^width = 0 THEN -1
  ELSE CHOOSE i \in 0..(width - 1) :
         BitOf(n, i) = 1 /\ \A j \in (i + 1)..(width - 1) : BitOf(n, j) = 0

(***************************************************************************)
(* Outcomes                                                                *)
(***************************************************************************)
None == "NONE"        \* AD_NONE, also the blanks of the tables
Overrun == "OVERRUN"  \* what lies behind the end of a table

Insn(id, nf, ops) ==
  [ok |-> TRUE, id |-> id, text |-> id, nf |-> nf, ops |-> ops, cc |-> -1]

\* The caller is told that the word is no instruction
Reject == [ok |-> FALSE, id |-> None, text |-> None, nf |-> 0, ops |-> <<>>,
           cc |-> -1]

\* The mnemonic that is printed is not that of the id
Misnamed(text, insn) == [insn EXCEPT !.text = text]

RejectIf(bad, insn) == IF bad THEN Reject ELSE insn

\* A blank of a table is tested for before it is used
Named_Untested(id, nf, ops) == Insn(id, nf, ops)
Named(id, nf, ops) == RejectIf(id = None, Insn(id, nf, ops))

\* Table lookups, with the test OOB before them and without
Guarded(tab, i) == IF i < Len(tab) THEN tab[i + 1] ELSE None
Lookup(tab, i) == IF i < Len(tab) THEN tab[i + 1] ELSE Overrun

(***************************************************************************)
(* Operands                                                                *)
(***************************************************************************)
Op(k, n, sz) == [k |-> k, n |-> n, sz |-> sz]

Width(sf) == IF sf = 1 THEN 64 ELSE 32
X(n) == Op("x", n, 64)
W(n) == Op("x", n, 32)
G_Stack(sf, n) == Op("x", IF n = 31 THEN 30 ELSE n, Width(sf))
G(sf, n) == Op("x", n, Width(sf))
V(n) == Op("v", n, 128)
F(sz, n) == Op("v", n, sz)
I(n) == Op("imm", n, 0)
Shl(n) == Op("shift", n, 0)

\* An operand that is there only under a condition
Opt(cond, op) == IF cond THEN <<op>> ELSE <<>>

IsReg(op) == op.k \in {"x", "v", "z", "p", "sys"}
IsImm(op) == op.k \in {"imm", "imm32", "inv", "mask", "float", "bytes", "pc",
                      "pc32", "page"}

(***************************************************************************)
(* DecodeBitMasks gives the pattern of S + 1 ones in an element of 2^len   *)
(* bits, rotated right by R; the widening to 64 bits shifts by a whole     *)
(* width and is undefined, so the element itself is kept.  Nobody looks at *)
(* the -1 it returns for a reserved pattern: the immediate stays 0.        *)
(***************************************************************************)
DecodeBitMasks(N, imms, immr) ==
  LET len == HighestSetBit(N * 64 + (63 - imms), 7)
  IN IF len < 1 \/ imms % 2^len = 2^len - 1
     THEN I(0)
     ELSE Op("mask", (imms % 2^len) + 1 + 64 * (immr % 2^len), len)

\* MoveWidePreferred, its parameters in the order of its declaration.  A
\* negative remainder is never above the other side, which is at least 0
MoveWidePreferred(sf, N, immr, imms) ==
  /\ sf = 1 => N = 1
  /\ sf = 0 => N = 0 /\ imms < 32
  /\ \/ imms < 16
     \/ imms >= 16 /\ imms >= Width(sf) - 15
        /\ immr % 16 <= imms - (Width(sf) - 15)

BFXPreferred(sf, uns, imms, immr) ==
  /\ imms >= immr
  /\ imms # (IF sf = 1 THEN 127 ELSE 63)
  /\ immr = 0 => /\ sf = 0 => imms \notin {7, 15}
                 /\ (sf = 1 /\ uns = 0) => imms \notin {7, 15, 31}
=============================================================================
