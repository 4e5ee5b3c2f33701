------------------------------ MODULE BmSearch ------------------------------
(***************************************************************************)
(* bm_search of ldr/bm_search.cpp: the search of Boyer and Moore.  Memory  *)
(* and pattern are sequences of cells; positions count from 0, as in the   *)
(* code.  mlen is unsigned there: with less memory than pattern the bound  *)
(* of the loop wraps, and the search goes on behind the memory it was      *)
(* given until it finds the pattern or leaves what is mapped.              *)
(***************************************************************************)
EXTENDS Integers, Sequences

None == -1
Fault == -2

Cell(s, k) == s[k + 1]
Greatest(S) == CHOOSE k \in S : \A l \in S : l <= k

\* The part of the needle that ends at offset ends like the needle itself, in
\* suffixlen cells and no more, or as far as it reaches
suffix_match(needle, offset, suffixlen) ==
  LET n == Len(needle)
  IN IF offset > suffixlen
     THEN /\ Cell(needle, offset - suffixlen - 1) # Cell(needle, n - suffixlen - 1)
          /\ SubSeq(needle, n - suffixlen + 1, n)
               = SubSeq(needle, offset - suffixlen + 1, offset)
     ELSE SubSeq(needle, n - offset + 1, n) = SubSeq(needle, 1, offset)

\* The tables made of a pattern: how far to go on when cell i is the first from
\* the right that differs, and where a cell occurs last before the end
m_skip(pattern, i) ==
  LET plen == Len(pattern)
      Fits(offs) == offs = 0 \/ suffix_match(pattern, offs, plen - i - 1)
  IN plen - Greatest({offs \in 0..plen : Fits(offs)})
occ(pattern, c) ==
  Greatest({-1} \cup {k \in 0..(Len(pattern) - 2) : Cell(pattern, k) = c})

Shift_Far(pattern, i, c) == i - occ(pattern, c) + 1
Shift(pattern, i, c) == Greatest({m_skip(pattern, i), i - occ(pattern, c)})

\* Where the pattern is found in the mlen cells of memory behind a position
Search(pattern, memory, from, mlen) ==
  LET plen == Len(pattern)
      Differs(hpos) == {i \in 0..(plen - 1) :
                          Cell(memory, from + hpos + i) # Cell(pattern, i)}
      at[hpos \in Nat] ==
        IF plen <= mlen /\ hpos > mlen - plen THEN None
        ELSE IF from + hpos + plen > Len(memory) THEN Fault
        ELSE IF Differs(hpos) = {} THEN from + hpos
        ELSE LET i == Greatest(Differs(hpos))
             IN at[hpos + Shift(pattern, i, Cell(memory, from + hpos + i))]
  IN at[0]
=============================================================================
