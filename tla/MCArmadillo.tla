----------------------------- MODULE MCArmadillo -----------------------------
(***************************************************************************)
(* Samples of words for TLC.  A group, bits 25 to 28, is decoded for every *)
(* value of bits 21 to 31.  Bits 16 to 20 take three values where they     *)
(* hold a register and all of them where they hold an opcode, in the       *)
(* groups of vectors; the groups of reserved words are sampled.  Bits 10   *)
(* to 15 take all values, the registers below three.                       *)
(***************************************************************************)
EXTENDS Armadillo

GroupOf(h) == (h \div 512) % 16
Reserved == {0, 1, 3}
Vectors == {7, 15}

ScalarHighs ==
  {h \in {32 * a + r : a \in 0..2047, r \in {0, 5, 31}} :
     GroupOf(h) \notin Reserved \cup Vectors \cup {2}}
ReservedHighs == {h \in {256 * a + r : a \in 0..255, r \in {0, 1}} :
                    GroupOf(h) \in Reserved}
VectorHighs ==
  {h \in {32 * a + r : a \in 0..2047, r \in {0, 1, 2, 4, 8, 16, 21, 31}} :
     GroupOf(h) \in Vectors}
ScalableHighs == {h \in 0..65535 : GroupOf(h) = 2}

Halves == ScalarHighs \cup ReservedHighs \cup VectorHighs \cup ScalableHighs

\* Two registers, the same register twice, and the last one twice
LowHalves ==
  {1024 * a + 101 : a \in 0..63}
  \cup {1024 * a : a \in 0..15 \cup {31, 32, 63}}
  \cup {1024 * a + 1023 : a \in {0, 1, 2, 3, 31, 32, 63}}

\* The conditional selections, with every condition
SelectHighs == {32 * a + r : a \in {212, 724, 1236, 1748}, r \in {0, 5, 31}}
SelectLows == {1024 * a + r : a \in 0..63, r \in {0, 160, 992}}
=============================================================================
