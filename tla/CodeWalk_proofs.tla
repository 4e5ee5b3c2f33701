--------------------------- MODULE CodeWalk_proofs ---------------------------
(***************************************************************************)
(* Proofs about CodeWalk (disasm_one_func of ldr/deriv.cpp) for functions  *)
(* of any size and any bound on the generations of edges.                  *)
(***************************************************************************)
EXTENDS CodeWalk, ProofLemmas

-----------------------------------------------------------------------------
(* Another generation is begun only below the bound.                       *)
BelowBound == phase \in {"list", "walk"} => edgeGen < MaxGen

(* The part of the current block behind m_psp has been visited.            *)
BlockVisited ==
  phase = "walk" => \A a \in Nat : psp <= a /\ a < mpsp => a \in visited

(* The ranges claim only visited addresses, see RangesWereVisited.         *)
ClaimsVisited ==
  \A a \in Nat : InRanges(ranges, a) \/ InRanges(mranges, a) => a \in visited

(* Where control flows to from a visited address is visited, or is next,   *)
(* or waits as a node of the graph.                                        *)
FallsFollowed ==
  \A a \in visited : Falls(a) => a + 1 \in visited \/ (phase = "walk" /\ mpsp = a + 1)

JumpsFollowed ==
  \A a \in visited : Jumps(a) => prog.code[a].to \in visited \cup nodes

EntryFollowed ==
  prog.entry \in prog.sections =>
    \/ prog.entry \in visited
    \/ phase = "list" /\ todo = {prog.entry}
    \/ phase = "walk" /\ mpsp = prog.entry

(* Calls and references are recorded when they are decoded.                *)
Recorded ==
  \A a \in visited : Readable(a) =>
    /\ prog.code[a].kind = "bl" => prog.code[a].to \in called
    /\ prog.code[a].kind = "ref" => res > 0

(* A node leaves the graph only when a range covers it, so when the list   *)
(* of the last generation was empty every node had been visited.           *)
NodesDone == phase = "over" /\ todo = {} => nodes \subseteq visited

Inv ==
  /\ TypeOK /\ BelowBound
  /\ BlockVisited /\ ClaimsVisited
  /\ FallsFollowed /\ JumpsFollowed /\ EntryFollowed
  /\ Recorded /\ NodesDone

LEMMA InitInv == Init => Inv
<1> SUFFICES ASSUME Init PROVE Inv
  OBVIOUS
<1> USE CodeWalkAssumption DEF CodeWalkAssumption, Init
<1>1. TypeOK
  <2>1. WellFormed(prog) /\ prog.entry \in Nat
    BY DEF WellFormed
  <2> QED BY <2>1 DEF TypeOK, Phases
<1>2. BelowBound /\ BlockVisited /\ ClaimsVisited
  BY DEF BelowBound, BlockVisited, ClaimsVisited, InRanges
<1>3. FallsFollowed /\ JumpsFollowed /\ EntryFollowed /\ Recorded /\ NodesDone
  BY DEF FallsFollowed, JumpsFollowed, EntryFollowed, Recorded, NodesDone
<1> QED BY <1>1, <1>2, <1>3 DEF Inv

(* What closing a block adds to the ranges: the block, which was visited.  *)
LEMMA EndBlockClaims ==
  ASSUME Inv, NEW e \in Nat, psp <= e, EndBlock(e), phase = "walk",
         mranges' = mranges, visited' = visited \cup {mpsp},
         e = mpsp \/ e = mpsp + 1
  PROVE  ranges' \in Seq(CodeArea) /\ ClaimsVisited'
<1> USE DEF Inv, TypeOK
<1> DEFINE r == [addr |-> psp, size |-> e - psp]
<1>1. r \in CodeArea /\ \A a \in Nat : Holds(r, a) => psp <= a /\ a < e
  BY DEF CodeArea, Holds, End
<1>2. /\ ranges' \in Seq(CodeArea)
      /\ \A a \in Nat : InRanges(ranges', a) => InRanges(ranges, a) \/ Holds(r, a)
  BY <1>1, InsertClaims DEF EndBlock
<1>3. \A a \in Nat : psp <= a /\ a < e => a \in visited'
  BY DEF BlockVisited
<1> QED BY <1>1, <1>2, <1>3 DEF ClaimsVisited

LEMMA NextInv == Inv /\ [Next]_vars => Inv'
<1> SUFFICES ASSUME Inv, [Next]_vars PROVE Inv'
  OBVIOUS
<1> USE CodeWalkAssumption DEF CodeWalkAssumption
<1>0. /\ TypeOK /\ WellFormed(prog) /\ MaxGen \in Nat
      /\ prog.size \in Nat /\ prog.sections \subseteq 0..(prog.size - 1)
      /\ \A a \in 0..(prog.size - 1) : prog.code[a].to \in Nat
  BY DEF Inv, TypeOK, WellFormed, Instr
<1>1. ASSUME NEW a \in todo, SkipAddr(a) PROVE Inv'
  <2>1. a \in prog.sections => a \in visited
    BY <1>0, <1>1 DEF SkipAddr, Skipped, Inv, ClaimsVisited, TypeOK
  <2>2. EntryFollowed'
    BY <1>1, <2>1 DEF SkipAddr, Inv, EntryFollowed
  <2>3. TypeOK'
    BY <1>0, <1>1 DEF SkipAddr, TypeOK, WellFormed, graph, found
  <2> QED
    BY <1>0, <1>1, <2>2, <2>3
    DEF SkipAddr, Inv, BelowBound, BlockVisited, ClaimsVisited,
        FallsFollowed, JumpsFollowed, Recorded, NodesDone,
        Falls, Jumps, Readable, Leaves, graph, found
<1>2. ASSUME NEW a \in todo, StartBlock(a) PROVE Inv'
  <2>1. a \in Nat /\ a < prog.size
    BY <1>0, <1>2 DEF StartBlock, Skipped
  <2>2. EntryFollowed'
    BY <1>2 DEF StartBlock, First, Inv, EntryFollowed, graph, found
  <2>3. TypeOK'
    BY <1>0, <1>2, <2>1
    DEF StartBlock, TypeOK, WellFormed, Phases, graph, found
  <2>4. BlockVisited'
    BY <1>2, <2>1 DEF StartBlock, BlockVisited
  <2> QED
    BY <1>0, <1>2, <2>2, <2>3, <2>4
    DEF StartBlock, Inv, BelowBound, ClaimsVisited,
        FallsFollowed, JumpsFollowed, Recorded, NodesDone,
        Falls, Jumps, Readable, Leaves, graph, found
<1>3. ASSUME phase = "walk", nodes \subseteq nodes', nodes' \subseteq Nat,
             visited' = visited \cup {mpsp}, prog' = prog, todo' = todo,
             mranges' = mranges,
             edgeGen' = edgeGen, psp' = psp, phase' \in {"walk", "list"},
             mpsp' \in {mpsp, mpsp + 1}, called \subseteq called',
             called' \subseteq Nat, res' \in {res, res + 1},
             ranges' \in Seq(CodeArea), ClaimsVisited',
             phase' = "walk" => mpsp' = mpsp + 1 /\ mpsp' < prog.size,
             Falls(mpsp) => phase' = "walk",
             Jumps(mpsp) => prog.code[mpsp].to \in visited \cup nodes',
             Readable(mpsp) /\ Here.kind = "bl" => Here.to \in called',
             Readable(mpsp) /\ Here.kind = "ref" => res' > 0
      PROVE  Inv'
  <2>1. /\ psp \in Nat /\ mpsp \in 0..(prog.size - 1) /\ psp <= mpsp
        /\ visited \subseteq 0..(prog.size - 1) /\ res \in Nat
        /\ nodes \subseteq Nat /\ called \subseteq Nat
    BY <1>0, <1>3 DEF TypeOK
  <2>2. TypeOK'
    BY <1>0, <1>3, <2>1 DEF TypeOK, Phases, WellFormed
  <2>3. BelowBound' /\ NodesDone'
    BY <1>3 DEF Inv, BelowBound, NodesDone
  <2>4. BlockVisited'
    BY <1>3, <2>1 DEF Inv, BlockVisited
  <2>5. FallsFollowed'
    BY <1>3, <2>1 DEF Inv, FallsFollowed, Falls, Readable
  <2>6. JumpsFollowed'
    BY <1>3, <2>1 DEF Inv, JumpsFollowed, Jumps, Readable, Leaves
  <2>7. EntryFollowed'
    BY <1>3, <2>1 DEF Inv, EntryFollowed
  <2>8. Recorded'
    <3> SUFFICES ASSUME NEW a \in visited', Readable(a)
                 PROVE  /\ prog.code[a].kind = "bl" => prog.code[a].to \in called'
                        /\ prog.code[a].kind = "ref" => res' > 0
      BY <1>3 DEF Recorded, Readable
    <3>1. CASE a \in visited
      <4>1. /\ prog.code[a].kind = "bl" => prog.code[a].to \in called
            /\ prog.code[a].kind = "ref" => res > 0
        BY <3>1 DEF Inv, Recorded
      <4>2. called \subseteq called' /\ (res > 0 => res' > 0)
        BY <1>3, <2>1
      <4> QED BY <4>1, <4>2
    <3>2. CASE a = mpsp
      <4>1. prog.code[mpsp].kind = "bl" => prog.code[mpsp].to \in called'
        BY <1>3, <3>2 DEF Here
      <4>2. prog.code[mpsp].kind = "ref" => res' > 0
        BY <1>3, <3>2 DEF Here
      <4> QED BY <3>2, <4>1, <4>2
    <3>3. a \in visited \/ a = mpsp
      BY <1>3
    <3> QED BY <3>1, <3>2, <3>3
  <2> QED BY <1>3, <2>2, <2>3, <2>4, <2>5, <2>6, <2>7, <2>8 DEF Inv
<1>4. ASSUME NEW to \in Nat, AddNode(to), phase = "walk"
      PROVE  /\ nodes \subseteq nodes' /\ nodes' \subseteq Nat
             /\ to \in visited \cup nodes'
  <2>1. InRanges(mranges, to) => to \in visited
    BY DEF Inv, ClaimsVisited
  <2> QED BY <1>0, <1>4, <2>1 DEF AddNode, TypeOK
<1>5. ASSUME phase = "walk", ranges' = ranges, mranges' = mranges,
             visited' = visited \cup {mpsp}
      PROVE  ranges' \in Seq(CodeArea) /\ ClaimsVisited'
  BY <1>0, <1>5 DEF Inv, TypeOK, ClaimsVisited
<1>6. ASSUME phase = "walk"
      PROVE  /\ mpsp \in 0..(prog.size - 1) /\ mpsp + 1 \in Nat
             /\ psp \in Nat /\ psp <= mpsp /\ Here.to \in Nat
             /\ called \subseteq Nat /\ res \in Nat
             /\ nodes \subseteq Nat
  BY <1>0, <1>6 DEF TypeOK, Here
<1>7. CASE Unreadable
  <2>1. ranges' \in Seq(CodeArea) /\ ClaimsVisited'
    BY <1>6, <1>7, EndBlockClaims DEF Unreadable
  <2> QED
    BY <1>3, <1>6, <1>7, <2>1
    DEF Unreadable, EndBlock, found, Falls, Jumps, Here
<1>8. CASE StopInstr
  <2>1. ranges' \in Seq(CodeArea) /\ ClaimsVisited'
    BY <1>6, <1>8, EndBlockClaims DEF StopInstr, Decode
  <2> QED
    BY <1>3, <1>6, <1>8, <2>1
    DEF StopInstr, Decode, EndBlock, found, Falls, Jumps, Here
<1>9. CASE CondJump
  <2>1. ranges' \in Seq(CodeArea) /\ ClaimsVisited'
    BY <1>5, <1>9 DEF CondJump, Decode
  <2>2. nodes \subseteq nodes' /\ nodes' \subseteq Nat
    BY <1>4, <1>6, <1>9 DEF CondJump, Decode
  <2>3. Here.to \in visited \cup nodes'
    BY <1>4, <1>6, <1>9 DEF CondJump, Decode
  <2> QED
    BY <1>3, <1>6, <1>9, <2>1, <2>2, <2>3
    DEF CondJump, Decode, found, Falls, Jumps, Here, Readable
<1>10. CASE Jump
  <2>1. ranges' \in Seq(CodeArea) /\ ClaimsVisited'
    BY <1>6, <1>10, EndBlockClaims DEF Jump, Decode
  <2>2. CASE Leaves(Here)
    BY <1>3, <1>6, <1>10, <2>1, <2>2
    DEF Jump, Decode, EndBlock, found, Falls, Jumps, Here
  <2>3. CASE ~Leaves(Here)
    <3>1. nodes \subseteq nodes' /\ nodes' \subseteq Nat
      BY <1>4, <1>6, <1>10, <2>3 DEF Jump, Decode
    <3>2. Here.to \in visited \cup nodes'
      BY <1>4, <1>6, <1>10, <2>3 DEF Jump, Decode
    <3> QED
      BY <1>3, <1>6, <1>10, <2>1, <3>1, <3>2
      DEF Jump, Decode, EndBlock, found, Falls, Jumps, Here
  <2> QED BY <2>2, <2>3
<1>11. CASE JumpReg
  <2>1. ranges' \in Seq(CodeArea) /\ ClaimsVisited'
    BY <1>6, <1>11, EndBlockClaims DEF JumpReg, Decode
  <2>2. CASE Here.to \notin prog.execs
    BY <1>3, <1>6, <1>11, <2>1, <2>2
    DEF JumpReg, Decode, EndBlock, found, Falls, Jumps, Here
  <2>3. CASE Here.to \in prog.execs
    <3>1. nodes \subseteq nodes' /\ nodes' \subseteq Nat
      BY <1>4, <1>6, <1>11, <2>3 DEF JumpReg, Decode
    <3>2. Here.to \in visited \cup nodes'
      BY <1>4, <1>6, <1>11, <2>3 DEF JumpReg, Decode
    <3> QED
      BY <1>3, <1>6, <1>11, <2>1, <3>1, <3>2
      DEF JumpReg, Decode, EndBlock, found, Falls, Jumps, Here
  <2> QED BY <2>2, <2>3
<1>12. CASE Call \/ Reference \/ Other
  <2>1. ranges' \in Seq(CodeArea) /\ ClaimsVisited'
    BY <1>5, <1>12 DEF Call, Reference, Other, Decode
  <2> QED
    BY <1>3, <1>6, <1>12, <2>1
    DEF Call, Reference, Other, Decode, found, Falls, Jumps, Here, Readable
<1>13. CASE EndGeneration
  <2>1. TypeOK'
    BY <1>0, <1>13
    DEF EndGeneration, Inv, BelowBound, TypeOK, WellFormed, Phases, graph, found
  <2>2. EntryFollowed'
    BY <1>13 DEF EndGeneration, Inv, EntryFollowed
  <2>3. BelowBound' /\ NodesDone'
    BY <1>13 DEF EndGeneration, BelowBound, NodesDone
  <2> QED
    BY <1>13, <2>1, <2>2, <2>3
    DEF EndGeneration, Inv, BlockVisited, ClaimsVisited, FallsFollowed,
        JumpsFollowed, Recorded, Falls, Jumps, Readable, Leaves, graph, found
<1>14. CASE DeleteRange
  <2>0. /\ ranges \in Seq(CodeArea) /\ ranges # <<>>
        /\ Len(ranges) \in Nat \ {0} /\ Len(Tail(ranges)) = Len(ranges) - 1
        /\ Head(ranges) = ranges[1]
        /\ \A k \in 1..Len(Tail(ranges)) : Tail(ranges)[k] = ranges[k + 1]
    BY <1>0, <1>14 DEF DeleteRange, TypeOK
  <2>1. /\ Head(ranges) \in CodeArea /\ Tail(ranges) \in Seq(CodeArea)
        /\ \A a \in Nat : Holds(Head(ranges), a) => InRanges(ranges, a)
        /\ \A a \in Nat : InRanges(Tail(ranges), a) => InRanges(ranges, a)
    <3>1. Head(ranges) \in CodeArea /\ Tail(ranges) \in Seq(CodeArea)
      BY <2>0
    <3>2. ASSUME NEW a \in Nat, Holds(Head(ranges), a) PROVE InRanges(ranges, a)
      BY <2>0, <3>2 DEF InRanges
    <3>3. ASSUME NEW a \in Nat, InRanges(Tail(ranges), a) PROVE InRanges(ranges, a)
      <4>1. PICK k \in 1..Len(Tail(ranges)) : Holds(Tail(ranges)[k], a)
        BY <3>3 DEF InRanges
      <4>2. k + 1 \in 1..Len(ranges) /\ Holds(ranges[k + 1], a)
        BY <2>0, <4>1
      <4> QED BY <4>2 DEF InRanges
    <3> QED BY <3>1, <3>2, <3>3
  <2>2. /\ mranges' \in Seq(CodeArea)
        /\ \A a \in Nat : InRanges(mranges', a)
                            => InRanges(mranges, a) \/ Holds(Head(ranges), a)
    BY <1>0, <1>14, <2>1, InsertClaims DEF DeleteRange, TypeOK
  <2>3. ClaimsVisited'
    BY <1>14, <2>1, <2>2 DEF DeleteRange, Inv, ClaimsVisited
  <2>4. \A a \in nodes : a \in nodes' \/ a \in visited
    BY <1>0, <1>14, <2>1 DEF DeleteRange, Inv, ClaimsVisited, TypeOK
  <2>5. JumpsFollowed'
    BY <1>14, <2>4
    DEF DeleteRange, Inv, JumpsFollowed, Jumps, Readable, Leaves
  <2>6. TypeOK'
    BY <1>0, <1>14, <2>1, <2>2 DEF DeleteRange, TypeOK, WellFormed, Phases, found
  <2> QED
    BY <1>14, <2>3, <2>5, <2>6
    DEF DeleteRange, Inv, BelowBound, BlockVisited, FallsFollowed,
        EntryFollowed, Recorded, NodesDone, Falls, Readable, found
<1>15. CASE NextGeneration
  <2>1. NodesDone'
    BY <1>0, <1>15
    DEF NextGeneration, NodesDone, Inv, ClaimsVisited, TypeOK, graph
  <2>2. TypeOK'
    BY <1>0, <1>15 DEF NextGeneration, TypeOK, WellFormed, Phases, graph, found
  <2>3. BelowBound'
    BY <1>0, <1>15 DEF NextGeneration, BelowBound, TypeOK
  <2>4. EntryFollowed'
    BY <1>15 DEF NextGeneration, Inv, EntryFollowed
  <2> QED
    BY <1>15, <2>1, <2>2, <2>3, <2>4
    DEF NextGeneration, Inv, BlockVisited, ClaimsVisited, FallsFollowed,
        JumpsFollowed, Recorded, Falls, Jumps, Readable, Leaves, graph, found
<1>16. CASE UNCHANGED vars
  BY <1>16
  DEF vars, graph, found, Inv, TypeOK, WellFormed, BelowBound, BlockVisited,
      ClaimsVisited, FallsFollowed, JumpsFollowed, EntryFollowed, Recorded,
      NodesDone, Falls, Jumps, Readable, Leaves
<1> QED
  BY <1>1, <1>2, <1>7, <1>8, <1>9, <1>10, <1>11, <1>12, <1>13, <1>14, <1>15,
     <1>16
  DEF Next, Step, Done

THEOREM Invariance == Spec => []Inv
  BY InitInv, NextInv, PTL DEF Spec

(* Every variable keeps its type; m_psp stays inside the image while a     *)
(* block is walked.                                                        *)
THEOREM TypeCorrect == Spec => []TypeOK
  BY Invariance, PTL DEF Inv

(* Merging ranges never marks an address as processed that was not.        *)
THEOREM RangesSound == Spec => []RangesWereVisited
<1>1. Inv => RangesWereVisited
  BY DEF Inv, TypeOK, WellFormed, ClaimsVisited, RangesWereVisited
<1> QED BY <1>1, Invariance, PTL

(* When addr_list runs empty, the whole function was walked and every call *)
(* and every reference in it was seen.                                     *)
THEOREM WalkComplete == Spec => []WalkIsComplete
<1>1. Inv => WalkIsComplete
  <2> SUFFICES ASSUME Inv, phase = "over", todo = {}
               PROVE  /\ Reach \subseteq visited
                      /\ (\E a \in Reach : Readable(a) /\ prog.code[a].kind = "ref")
                           => res > 0
                      /\ \A a \in Reach : Readable(a) /\ prog.code[a].kind = "bl"
                           => prog.code[a].to \in called
    BY DEF WalkIsComplete
  <2>1. visited \in SUBSET (0..(prog.size - 1))
    BY DEF Inv, TypeOK
  <2>2. Encloses(visited)
    BY DEF Encloses, Inv, EntryFollowed, FallsFollowed, JumpsFollowed, NodesDone
  <2>3. Reach \subseteq visited
    BY <2>1, <2>2 DEF Reach
  <2> QED BY <2>3 DEF Inv, Recorded
<1> QED BY <1>1, Invariance, PTL

-----------------------------------------------------------------------------
(* Everything the walk is about to do stays inside the function.           *)
Within ==
  /\ visited \subseteq Reach
  /\ \A a \in nodes \cup todo : a \in prog.sections => a \in Reach
  /\ phase = "walk" => mpsp \in Reach

(* Reach is closed under the flow of control.                              *)
LEMMA ReachEncloses ==
  ASSUME WellFormed(prog)
  PROVE  Encloses(Reach)
<1>1. ASSUME prog.entry \in prog.sections PROVE prog.entry \in Reach
  BY <1>1 DEF Reach, Encloses, WellFormed
<1>2. ASSUME NEW a \in Reach, Falls(a) PROVE a + 1 \in Reach
  <2>1. a + 1 \in 0..(prog.size - 1)
    BY <1>2 DEF Reach, Falls, Readable, WellFormed
  <2> QED BY <1>2, <2>1 DEF Reach, Encloses
<1>3. ASSUME NEW a \in Reach, Jumps(a) PROVE prog.code[a].to \in Reach
  <2>1. prog.code[a].to \in 0..(prog.size - 1)
    BY <1>3 DEF Jumps, WellFormed
  <2> QED BY <1>3, <2>1 DEF Reach, Encloses
<1> QED BY <1>1, <1>2, <1>3 DEF Encloses

LEMMA InitWithin == Init => Within
<1> SUFFICES ASSUME Init PROVE Within
  OBVIOUS
<1>1. WellFormed(prog)
  BY CodeWalkAssumption DEF CodeWalkAssumption, Init
<1> QED BY <1>1, ReachEncloses DEF Init, Within, Encloses

LEMMA NextWithin == Inv /\ Within /\ [Next]_vars => Within'
<1> SUFFICES ASSUME Inv, Within, [Next]_vars PROVE Within'
  OBVIOUS
<1>1. WellFormed(prog) /\ Encloses(Reach)
  BY ReachEncloses DEF Inv, TypeOK
<1>2. prog' = prog => Reach' = Reach
  BY DEF Reach, Encloses, Falls, Jumps, Readable, Leaves
<1>3. ASSUME NEW a \in todo, SkipAddr(a) \/ StartBlock(a) PROVE Within'
  BY <1>2, <1>3 DEF SkipAddr, StartBlock, Skipped, Within, graph, found
<1>4. CASE Unreadable
  BY <1>2, <1>4 DEF Unreadable, EndBlock, Within, found
<1>5. CASE StopInstr
  BY <1>2, <1>5 DEF StopInstr, Decode, EndBlock, Within
<1>6. CASE CondJump
  <2>1. Jumps(mpsp) \/ Here.to \notin prog.sections
    BY <1>6 DEF CondJump, Decode, Jumps, Here
  <2>2. mpsp + 1 \in Reach /\ (Here.to \in prog.sections => Here.to \in Reach)
    BY <1>1, <1>6, <2>1
    DEF CondJump, Decode, Within, Encloses, Falls, Here
  <2> QED BY <1>2, <1>6, <2>2 DEF CondJump, Decode, AddNode, Within, found
<1>7. CASE Jump \/ JumpReg
  <2>1. Jumps(mpsp) \/ Here.to \notin prog.sections \/ nodes' = nodes
    BY <1>7 DEF Jump, JumpReg, Decode, Jumps, Here
  <2>2. Here.to \in prog.sections /\ nodes' # nodes => Here.to \in Reach
    BY <1>1, <1>7, <2>1 DEF Jump, JumpReg, Decode, Within, Encloses, Here
  <2>3. nodes' \subseteq nodes \cup {Here.to}
    BY <1>7 DEF Jump, JumpReg, AddNode
  <2> QED
    BY <1>2, <1>7, <2>2, <2>3 DEF Jump, JumpReg, Decode, EndBlock, Within
<1>8. CASE Call \/ Reference \/ Other
  <2>1. mpsp + 1 \in Reach
    BY <1>1, <1>8
    DEF Call, Reference, Other, Decode, Within, Encloses, Falls, Here
  <2> QED
    BY <1>2, <1>8, <2>1 DEF Call, Reference, Other, Decode, Within, found
<1>9. CASE EndGeneration \/ DeleteRange \/ NextGeneration
  BY <1>2, <1>9
  DEF EndGeneration, DeleteRange, NextGeneration, Within, graph, found
<1>10. CASE UNCHANGED vars
  BY <1>2, <1>10 DEF vars, graph, Within
<1> QED
  BY <1>3, <1>4, <1>5, <1>6, <1>7, <1>8, <1>9, <1>10 DEF Next, Step, Done

(* The walk decodes nothing but code of the function.                      *)
THEOREM WalkSound == Spec => []WalkIsSound
<1>1. Inv /\ Within /\ [Next]_vars => (Inv /\ Within)'
  BY NextInv, NextWithin
<1>2. Within => WalkIsSound
  BY DEF Within, WalkIsSound
<1> QED BY <1>1, <1>2, InitInv, InitWithin, PTL DEF Spec
=============================================================================
