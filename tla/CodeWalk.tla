------------------------------ MODULE CodeWalk ------------------------------
(***************************************************************************)
(* deriv_hack::disasm_one_func of ldr/deriv.cpp over the cf_graph of       *)
(* ldr/cf_graph.h: walk all the code of one function, a generation of      *)
(* edges after another, look for references to a pattern and hand every    *)
(* called address to the holder of discovered functions.                   *)
(*                                                                         *)
(* An instruction takes one address.  What the properties tell apart of it *)
(* is its kind and, for a jump or a call, its target:                      *)
(*   bad   ArmadilloDisassemble fails       trap  UDF or BRK               *)
(*   ret   RET                              jcc   cbz cbnz tbz tbnz b.cc   *)
(*   b     unconditional jump               br    jump to a known register *)
(*   bl    call                             ref   refers to the pattern    *)
(*   op    anything else                                                   *)
(*                                                                         *)
(* A program is a record                                                   *)
(*   size      addresses of the mapped image are 0 .. size - 1             *)
(*   code      the instruction at every address                            *)
(*   sections  addresses that lie in a section                             *)
(*   execs     addresses that lie in an executable section                 *)
(*   exported  addresses of named exports                                  *)
(*   entry     the function to scan                                        *)
(*   gSE       stop at jumps to exported functions                         *)
(***************************************************************************)
EXTENDS GraphRanges, FiniteSets

CONSTANTS
  Programs,  \* the functions that may be scanned
  MaxGen     \* bound on the generations of edges: 100 in the code

Kinds == {"bad", "trap", "ret", "jcc", "b", "br", "bl", "ref", "op"}

Instr == [kind : Kinds, to : Nat]

WellFormed(p) ==
  /\ p.size \in Nat
  /\ p.code \in [0..(p.size - 1) -> Instr]
  /\ p.sections \subseteq 0..(p.size - 1)
  /\ p.execs \subseteq p.sections
  /\ p.entry \in Nat
  /\ p.gSE \in BOOLEAN

ASSUME CodeWalkAssumption ==
  /\ MaxGen \in Nat \ {0}
  /\ \A p \in Programs : WellFormed(p)

VARIABLES
  prog,     \* the program that is scanned
  phase,    \* list: loop over addr_list; walk: inner loop; merge: delete_ranges
  todo,     \* addr_list: it is filled from a std::set, so visited in order
  edgeGen,  \* edge_gen
  psp,      \* start of the block being walked
  mpsp,     \* m_psp, the next instruction
  nodes,    \* m_nodes of the graph
  ranges,   \* ranges: the blocks walked in this generation
  mranges,  \* m_ranges: the blocks of all earlier generations
  called,   \* addresses given to fh.add
  res,      \* references found
  visited   \* history: the addresses given to disasm()

graph == <<nodes, ranges, mranges>>
found == <<called, res>>
vars == <<prog, phase, todo, edgeGen, psp, mpsp, graph, found, visited>>

Phases == {"list", "walk", "merge", "over"}

Init ==
  /\ prog \in Programs
  /\ phase = "list"
  /\ todo = {prog.entry}
  /\ edgeGen = 0
  /\ psp = 0
  /\ mpsp = 0
  /\ nodes = {}
  /\ ranges = <<>>
  /\ mranges = <<>>
  /\ called = {}
  /\ res = 0
  /\ visited = {}

-----------------------------------------------------------------------------
First(a) == a \in todo /\ \A b \in todo : a <= b

(* if ( cgraph.in_ranges(psp) ) continue; if ( !setup(psp) ) continue;     *)
Skipped(a) == InRanges(ranges, a) \/ a \notin prog.sections

SkipAddr(a) ==
  /\ phase = "list"
  /\ First(a)
  /\ Skipped(a)
  /\ todo' = todo \ {a}
  /\ UNCHANGED <<prog, phase, edgeGen, psp, mpsp, graph, found, visited>>

StartBlock(a) ==
  /\ phase = "list"
  /\ First(a)
  /\ ~Skipped(a)
  /\ todo' = todo \ {a}
  /\ psp' = a
  /\ mpsp' = a
  /\ phase' = "walk"
  /\ UNCHANGED <<prog, edgeGen, graph, found, visited>>

-----------------------------------------------------------------------------
(* disasm() refuses an instruction that ends where the image ends.         *)
Readable(a) == a + 1 < prog.size /\ prog.code[a].kind # "bad"

Here == prog.code[mpsp]

(* Mutant: the range is one address too long.                              *)
EndBlock_Long(end) ==
  /\ ranges' = Insert(ranges, [addr |-> psp, size |-> (end - psp) + 1])
  /\ phase' = "list"

(* the end of a block: cgraph.add_range(psp, m_psp - psp)                  *)
EndBlock(end) ==
  /\ ranges' = Insert(ranges, [addr |-> psp, size |-> end - psp])
  /\ phase' = "list"

(* cgraph.add(to): not when an earlier generation has processed it         *)
AddNode(to) ==
  nodes' = IF InRanges(mranges, to) THEN nodes ELSE nodes \cup {to}

(* m_psp is left where it is by an instruction that cannot be read.        *)
Unreadable ==
  /\ phase = "walk"
  /\ ~Readable(mpsp)
  /\ visited' = visited \cup {mpsp}
  /\ EndBlock(mpsp)
  /\ UNCHANGED <<prog, todo, edgeGen, psp, mpsp, nodes, mranges, found>>

(* Every other instruction is decoded and m_psp steps over it.             *)
Decode(kinds) ==
  /\ phase = "walk"
  /\ Readable(mpsp)
  /\ Here.kind \in kinds
  /\ visited' = visited \cup {mpsp}
  /\ mpsp' = mpsp + 1
  /\ UNCHANGED <<prog, todo, edgeGen, psp, mranges>>

StopInstr ==
  /\ Decode({"ret", "trap"})
  /\ EndBlock(mpsp + 1)
  /\ UNCHANGED <<nodes, found>>

CondJump ==
  /\ Decode({"jcc"})
  /\ AddNode(Here.to)
  /\ UNCHANGED <<phase, ranges, found>>

(* With gSE a jump to an exported function leaves the function.            *)
Leaves(i) == i.kind = "b" /\ prog.gSE /\ i.to \in prog.exported

(* Mutant: no break behind the jump.                                       *)
Jump_NoBreak ==
  /\ Decode({"b"})
  /\ IF Leaves(Here) THEN UNCHANGED nodes ELSE AddNode(Here.to)
  /\ UNCHANGED <<phase, ranges, found>>

Jump ==
  /\ Decode({"b"})
  /\ IF Leaves(Here) THEN UNCHANGED nodes ELSE AddNode(Here.to)
  /\ EndBlock(mpsp + 1)
  /\ UNCHANGED found

JumpReg ==
  /\ Decode({"br"})
  /\ IF Here.to \in prog.execs THEN AddNode(Here.to) ELSE UNCHANGED nodes
  /\ EndBlock(mpsp + 1)
  /\ UNCHANGED found

Call ==
  /\ Decode({"bl"})
  /\ called' = called \cup {Here.to}
  /\ UNCHANGED <<phase, nodes, ranges, res>>

Reference ==
  /\ Decode({"ref"})
  /\ res' = res + 1
  /\ UNCHANGED <<phase, nodes, ranges, called>>

Other ==
  /\ Decode({"op"})
  /\ UNCHANGED <<phase, nodes, ranges, found>>

-----------------------------------------------------------------------------
(* Mutant: edge_gen is not incremented.                                    *)
EndGeneration_NoCount ==
  /\ phase = "list"
  /\ todo = {}
  /\ phase' = "merge"
  /\ UNCHANGED <<prog, todo, edgeGen, psp, mpsp, graph, found, visited>>

(* edge_gen++; delete_ranges(&ranges, &addr_list), first its loop over the *)
(* ranges: erase the nodes they cover and make them persistent             *)
EndGeneration ==
  /\ phase = "list"
  /\ todo = {}
  /\ edgeGen' = edgeGen + 1
  /\ phase' = "merge"
  /\ UNCHANGED <<prog, todo, psp, mpsp, graph, found, visited>>

(* Mutant: the node behind a range is erased with those inside it.         *)
DeleteRange_Long ==
  /\ phase = "merge"
  /\ ranges # <<>>
  /\ nodes' = {a \in nodes : ~(Head(ranges).addr <= a /\ a <= End(Head(ranges)))}
  /\ mranges' = Insert(mranges, Head(ranges))
  /\ ranges' = Tail(ranges)
  /\ UNCHANGED <<prog, phase, todo, edgeGen, psp, mpsp, found, visited>>

DeleteRange ==
  /\ phase = "merge"
  /\ ranges # <<>>
  /\ nodes' = {a \in nodes : ~Holds(Head(ranges), a)}
  /\ mranges' = Insert(mranges, Head(ranges))
  /\ ranges' = Tail(ranges)
  /\ UNCHANGED <<prog, phase, todo, edgeGen, psp, mpsp, found, visited>>

(* then the new addr_list; the function returns when it is empty or when   *)
(* the bound on generations is reached                                     *)
NextGeneration ==
  /\ phase = "merge"
  /\ ranges = <<>>
  /\ todo' = {a \in nodes : ~InRanges(mranges, a)}
  /\ phase' = IF todo' = {} \/ edgeGen = MaxGen THEN "over" ELSE "list"
  /\ UNCHANGED <<prog, edgeGen, psp, mpsp, graph, found, visited>>

Step ==
  \/ \E a \in todo : SkipAddr(a) \/ StartBlock(a)
  \/ Unreadable \/ StopInstr \/ CondJump \/ Jump \/ JumpReg
  \/ Call \/ Reference \/ Other
  \/ EndGeneration \/ DeleteRange \/ NextGeneration

Done == phase = "over" /\ UNCHANGED vars

Next == Step \/ Done

Spec == Init /\ [][Next]_vars /\ WF_vars(Step)

-----------------------------------------------------------------------------
TypeOK ==
  /\ WellFormed(prog)
  /\ phase \in Phases
  /\ todo \subseteq Nat
  /\ edgeGen \in 0..MaxGen
  /\ psp \in Nat
  /\ mpsp \in Nat
  /\ nodes \subseteq Nat
  /\ ranges \in Seq(CodeArea)
  /\ mranges \in Seq(CodeArea)
  /\ called \subseteq Nat
  /\ res \in Nat
  /\ visited \subseteq 0..(prog.size - 1)
  /\ phase = "walk" => psp <= mpsp /\ mpsp < prog.size

(* Where the walk may go from the instruction at a.                        *)
Falls(a) == Readable(a) /\ prog.code[a].kind \in {"jcc", "bl", "ref", "op"}

Jumps(a) ==
  LET i == prog.code[a] IN
  /\ Readable(a)
  /\ \/ i.kind = "jcc" \/ (i.kind = "b" /\ ~Leaves(i))
     \/ i.kind = "br" /\ i.to \in prog.execs
  /\ i.to \in prog.sections

(* A set of addresses that holds the function and all it flows to.         *)
Encloses(S) ==
  /\ prog.entry \in prog.sections => prog.entry \in S
  /\ \A a \in S : Falls(a) => a + 1 \in S
  /\ \A a \in S : Jumps(a) => prog.code[a].to \in S

(* The code of the function: the least such set.                           *)
Reach == {a \in 0..(prog.size - 1) :
            \A S \in SUBSET (0..(prog.size - 1)) : Encloses(S) => a \in S}

(* Blocks marked as processed were processed: neither list of ranges, of   *)
(* which merging keeps few, ever claims an address that was not decoded.   *)
RangesWereVisited ==
  \A a \in 0..prog.size :
    InRanges(ranges, a) \/ InRanges(mranges, a) => a \in visited

(* The walk never leaves the code that control can reach.                  *)
WalkIsSound == visited \subseteq Reach

(* When the list of addresses runs empty the whole function was walked, so *)
(* no reference and no call in it is missed, whatever its loops, its jumps *)
(* into the middle of walked blocks and its undecodable parts.             *)
WalkIsComplete ==
  phase = "over" /\ todo = {} =>
    /\ Reach \subseteq visited
    /\ (\E a \in Reach : Readable(a) /\ prog.code[a].kind = "ref") => res > 0
    /\ \A a \in Reach : Readable(a) /\ prog.code[a].kind = "bl"
         => prog.code[a].to \in called

(* disasm_one_func returns for every function.                             *)
Terminates == <>(phase = "over")
=============================================================================
