----------------------------- MODULE GraphRanges -----------------------------
(***************************************************************************)
(* code_area and graph_ranges of ldr/cf_graph.h: lists of address ranges   *)
(* that have already been processed.  A range is [addr, size] and stands   *)
(* for the addresses addr .. addr + size - 1.                              *)
(***************************************************************************)
EXTENDS Naturals, Sequences

CodeArea == [addr : Nat, size : Nat]

End(r) == r.addr + r.size

Holds(r, a) == r.addr <= a /\ a < End(r)

(* in_ranges, in_mranges: the address lies in one of the ranges            *)
InRanges(rs, a) == \E k \in 1..Len(rs) : Holds(rs[k], a)

IsInside(r, s) ==
  /\ r.addr >= s.addr
  /\ r.addr < End(s)
  /\ End(r) > s.addr
  /\ End(r) <= End(s)

LeftEdge(r, our) == End(r) >= our.addr /\ End(r) <= End(our)

RightEdge(r, our) == r.addr >= our.addr /\ r.addr <= End(our)

(* interleaved(ca, our) returns 1: the ranges overlap or touch             *)
Interleaved(r, our) ==
  IsInside(r, our) \/ IsInside(our, r) \/ LeftEdge(r, our) \/ RightEdge(r, our)

(* ... and what it makes of our, in the order of its four tests            *)
Merged(r, our) ==
  CASE IsInside(r, our) -> our
    [] ~IsInside(r, our) /\ IsInside(our, r) -> r
    [] ~IsInside(r, our) /\ ~IsInside(our, r) /\ LeftEdge(r, our) ->
         [addr |-> r.addr, size |-> End(our) - r.addr]
    [] OTHER -> [addr |-> our.addr, size |-> End(r) - our.addr]

(* k is the first range of the list that r is interleaved with             *)
FirstHit(rs, r, k) ==
  /\ k \in 1..Len(rs)
  /\ Interleaved(r, rs[k])
  /\ \A l \in 1..(k - 1) : ~Interleaved(r, rs[l])

(* add_range, insert_range: only the first interleaved range is extended   *)
Insert(rs, r) ==
  IF \E k \in 1..Len(rs) : FirstHit(rs, r, k)
    THEN LET k == CHOOSE k \in 1..Len(rs) : FirstHit(rs, r, k)
         IN [rs EXCEPT ![k] = Merged(r, rs[k])]
    ELSE Append(rs, r)
=============================================================================
