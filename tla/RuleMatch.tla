------------------------------ MODULE RuleMatch ------------------------------
(***************************************************************************)
(* deriv_hack::try_apply of ldr/deriv.cpp over the statefull_graph of      *)
(* ldr/cf_graph.h: walk the code of a function, a generation of edges      *)
(* after another, and carry along every edge how far the items of a rule   *)
(* have been met.  A call or a load may have to pass a rule of its own     *)
(* first: try_apply calls itself, and the calls make a stack.  The rules   *)
(* are known by numbers, and a rule may ask for itself or for one that     *)
(* asks for it: _resolve_rules (ldr/scan.cpp) lets them all pass.          *)
(*                                                                         *)
(* A search is a record: code (an instruction per address), guard and      *)
(* cookie (see RuleItems), section (whose data the rule is about), entry   *)
(* (the function), items (the rule), stg (what the storage holds already)  *)
(* and gSE (stop at jumps to exported functions).                          *)
(***************************************************************************)
EXTENDS RuleItems, GraphRanges

CONSTANTS
  Size,      \* the addresses of the image are 0 .. Size - 1
  Rules,     \* the rules, lists of items
  RuleSet,   \* rules_set: those that have a number, by number
  Searches,  \* the searches that may be asked for
  MaxGen,    \* bound on the generations of edges: 100 in the code
  MaxDepth   \* the calls of try_apply that the stack of the thread holds

(* Where instructions may lie.                                             *)
Addresses == 0..(Size - 2)

ASSUME RuleMatchAssumption ==
  /\ Size \in Nat
  /\ MaxGen \in Nat \ {0}
  /\ MaxDepth \in Nat \ {0}
  /\ DOMAIN Places \subseteq Nat
  /\ DOMAIN RuleSet \subseteq Nat \ {0}
  /\ \A n \in DOMAIN RuleSet : RuleSet[n] \in Rules
  /\ \A items \in Rules :
       /\ Len(items) \in Nat \ {0} /\ DOMAIN items = 1..Len(items)
       /\ \A k \in DOMAIN items : items[k].rule \in DOMAIN RuleSet \cup {0}
  /\ \A s \in Searches :
       /\ s.items \in Rules /\ s.entry \in Int
       /\ DOMAIN s.code = Addresses
       /\ \A a \in Addresses : s.code[a].to \in Int

VARIABLES
  search,    \* the search that is under way
  stack,     \* the calls of try_apply, the running one last
  phase,     \* of that call: list, walk, merge (delete_ranges), no and yes (it
             \* returns 0 or 1), or overflow (the stack is full)
  mpsp,      \* m_psp
  stg,       \* m_stg
  found      \* *found

vars == <<search, stack, phase, mpsp, stg, found>>

-----------------------------------------------------------------------------
(* path_state.  The list is circular: behind the last item is the sentinel,*)
(* 0 here, and behind that the first.  at is where s was met, history.     *)
FirstState == [iter |-> 1, s |-> 1, n |-> 0, at |-> <<>>]

(* path_state::next; it returns 1 when iter is the sentinel                *)
Advance(st, items, addr) ==
  LET k == IF st.iter = Len(items) THEN 0 ELSE st.iter + 1 IN
  [iter |-> k, s |-> IF k = 0 THEN st.s ELSE k,
   n |-> IF k = 0 THEN st.n ELSE st.n + 1, at |-> Append(st.at, addr)]

(* The locals of one call of try_apply; back is the m_psp its caller saved; *)
(* entry and seen are history.                                             *)
Call(section, items, addr, back) ==
  [section |-> section, items |-> items, todo |-> [a \in {addr} |-> FirstState],
   edgeGen |-> 0, psp |-> 0, state |-> FirstState, nodes |-> <<>>,
   ranges |-> <<>>, mranges |-> <<>>, back |-> back, entry |-> addr, seen |-> {}]

Init ==
  /\ search \in Searches
  /\ stack = <<Call(search.section, search.items, search.entry, 0)>>
  /\ phase = "list"
  /\ mpsp = 0
  /\ stg = search.stg
  /\ found = 0

-----------------------------------------------------------------------------
Top == stack[Len(stack)]
Under == SubSeq(stack, 1, Len(stack) - 1)
Item(fr) == fr.items[fr.state.s]
SetTop(fr) == stack' = Append(Under, fr)

InSections(a) == At(a).section # ""

(* The addresses are visited in the order of the map they were copied from.*)
First(a) == a \in DOMAIN Top.todo /\ \A b \in DOMAIN Top.todo : a <= b

Without(f, a) == [b \in DOMAIN f \ {a} |-> f[b]]

Skipped(a) == InRanges(Top.ranges, a) \/ ~InSections(a)

SkipAddr(a) ==
  /\ phase = "list"
  /\ First(a)
  /\ Skipped(a)
  /\ SetTop([Top EXCEPT !.todo = Without(@, a)])
  /\ UNCHANGED <<search, phase, mpsp, stg, found>>

(* Mutant: the state of the block walked before is kept.                   *)
StartBlock_KeepsState(a) ==
  /\ phase = "list"
  /\ First(a)
  /\ ~Skipped(a)
  /\ SetTop([Top EXCEPT !.todo = Without(@, a), !.psp = a])
  /\ mpsp' = a
  /\ phase' = "walk"
  /\ UNCHANGED <<search, stg, found>>

StartBlock(a) ==
  /\ phase = "list"
  /\ First(a)
  /\ ~Skipped(a)
  /\ SetTop([Top EXCEPT !.todo = Without(@, a), !.psp = a, !.state = Top.todo[a]])
  /\ mpsp' = a
  /\ phase' = "walk"
  /\ UNCHANGED <<search, stg, found>>

-----------------------------------------------------------------------------
Readable(a) == a + 1 < Size /\ search.code[a].op # "bad"

Here == search.code[mpsp]

(* Mutant: the range is one address too long.                              *)
Ended_Long(fr, end) ==
  [fr EXCEPT !.ranges = Insert(@, [addr |-> fr.psp, size |-> (end - fr.psp) + 1])]

(* cgraph.add_range(psp, m_psp - psp) behind the inner loop                *)
Ended(fr, end) ==
  [fr EXCEPT !.ranges = Insert(@, [addr |-> fr.psp, size |-> end - fr.psp])]

Seen(fr) == [fr EXCEPT !.seen = @ \cup {mpsp}]

(* statefull_graph::add; of two states the one that got farther is kept    *)
AddNode(fr, to) ==
  IF InRanges(fr.mranges, to) \/ (to \in DOMAIN fr.nodes /\ fr.nodes[to].n >= fr.state.n)
  THEN fr
  ELSE [fr EXCEPT !.nodes = [a \in DOMAIN @ \cup {to} |->
                               IF a = to THEN fr.state ELSE @[a]]]

Unreadable ==
  /\ phase = "walk"
  /\ ~Readable(mpsp)
  /\ SetTop(Ended(Seen(Top), mpsp))
  /\ phase' = "list"
  /\ UNCHANGED <<search, mpsp, stg, found>>

Decode(ops) ==
  /\ phase = "walk"
  /\ Readable(mpsp)
  /\ Here.op \in ops
  /\ mpsp' = mpsp + 1
  /\ UNCHANGED search

StopInstr ==
  /\ Decode({"ret", "trap"})
  /\ SetTop(Ended(Seen(Top), mpsp + 1))
  /\ phase' = "list"
  /\ UNCHANGED <<stg, found>>

CondJump ==
  /\ Decode({"jcc"})
  /\ SetTop(AddNode(Seen(Top), Here.to))
  /\ UNCHANGED <<phase, stg, found>>

Leaves(i) == i.op = "b" /\ search.gSE /\ At(i.to).export # ""

(* br: what it jumps to must lie in an executable section, .text here.     *)
Follows(i) ==
  \/ i.op = "b" /\ ~Leaves(i)
  \/ i.op = "br" /\ At(i.to).section = ".text"

Jump ==
  /\ Decode({"b", "br"})
  /\ LET fr == Seen(Top) IN
     SetTop(Ended(IF Follows(Here) THEN AddNode(fr, Here.to) ELSE fr, mpsp + 1))
  /\ phase' = "list"
  /\ UNCHANGED <<stg, found>>

-----------------------------------------------------------------------------
(* What a verdict does to the call fr, to the storage and to found.        *)
Moved(fr, v, addr) ==
  IF v.move \in {"step", "quiet"}
  THEN [fr EXCEPT !.state = Advance(@, fr.items, addr)] ELSE fr

(* next() has returned 1                                                   *)
Returns(fr, v) == v.move = "step" /\ fr.state.iter = Len(fr.items)

(* store_stg ignores the index 0                                           *)
Store(st, item, v) ==
  IF v.move # "step" \/ v.keep = Null \/ item.stg = 0 THEN st
  ELSE [k \in DOMAIN st \cup {item.stg} |-> IF k = item.stg THEN v.keep ELSE st[k]]

Report(fr, v) ==
  IF v.found = "now" \/ (v.found = "last" /\ Returns(fr, v)) THEN v.keep ELSE found

(* Continue, break or return in the call fr, whose m_psp is next.          *)
Settle(under, fr, v, next) ==
  LET moved == Moved(fr, v, next - 1)
      left == IF v.leave THEN Ended(moved, next) ELSE moved
  IN /\ stack' = Append(under, left)
     /\ phase' = IF Returns(fr, v) THEN "yes" ELSE IF v.leave THEN "list" ELSE "walk"
     /\ found' = Report(fr, v)

(* poi is tested first.  If that leaves or returns, the rest is not tested.*)
Pointer == AtPointer(Item(Top), Here, stg)

Ends(fr, v) == v.leave \/ Returns(fr, v)

TestPointer ==
  /\ Decode({"add", "adr"})
  /\ Ends(Top, Pointer)
  /\ stg' = Store(stg, Item(Top), Pointer)
  /\ Settle(Under, Seen(Top), Pointer, mpsp + 1)

(* The item that is waited for behind the test of poi.                     *)
Tested == Moved(Top, Pointer, mpsp)

TestedStg == Store(stg, Item(Top), Pointer)

Result == Verdict(search, Item(Tested), Here, TestedStg, Top.section)

Test ==
  /\ Decode(Ops \ {"bad", "trap", "ret", "jcc", "b", "br"})
  /\ ~Ends(Top, Pointer)
  /\ Result.move # "rule"
  /\ stg' = Store(TestedStg, Item(Tested), Result)
  /\ Settle(Under, Seen(Tested), Result, mpsp + 1)

(* A call or a load that has to pass a rule of its own: save_psp, then     *)
(* try_apply on what is called or loaded, and the section it lies in.      *)
EnterRule ==
  /\ Decode({"bl", "ldr"})
  /\ Result.move = "rule"
  /\ Len(stack) < MaxDepth
  /\ stack' = Under \o <<Seen(Top), Call(At(Here.to).section,
                                RuleSet[Item(Top).rule], Here.to, mpsp + 1)>>
  /\ phase' = "list"
  /\ UNCHANGED <<stg, found>>

(* Nothing counts these calls: one too many ends the program.              *)
StackOverflow ==
  /\ Decode({"bl", "ldr"})
  /\ Result.move = "rule"
  /\ Len(stack) = MaxDepth
  /\ phase' = "overflow"
  /\ UNCHANGED <<stack, stg, found>>

(* try_apply has returned to try_apply: save_psp restores m_psp, and the   *)
(* item was met if the result is 1.                                        *)
Caller == stack[Len(stack) - 1]

Asker == search.code[Top.back - 1]

Answer ==
  IF phase = "no" THEN Differs(Item(Caller))
  ELSE [Verdict(search, Item(Caller), Asker, stg, Caller.section) EXCEPT !.move = "step"]

(* Mutant: m_psp is not restored.                                          *)
LeaveRule_KeepsPsp ==
  /\ phase \in {"no", "yes"}
  /\ Len(stack) > 1
  /\ stg' = Store(stg, Item(Caller), Answer)
  /\ Settle(SubSeq(stack, 1, Len(stack) - 2), Caller, Answer, mpsp)
  /\ UNCHANGED <<search, mpsp>>

LeaveRule ==
  /\ phase \in {"no", "yes"}
  /\ Len(stack) > 1
  /\ mpsp' = Top.back
  /\ stg' = Store(stg, Item(Caller), Answer)
  /\ Settle(SubSeq(stack, 1, Len(stack) - 2), Caller, Answer, Top.back)
  /\ UNCHANGED search

-----------------------------------------------------------------------------
Where(f, D) == [a \in D |-> f[a]]

(* Mutant: edge_gen is not incremented.                                    *)
EndGeneration_NoCount ==
  /\ phase = "list"
  /\ DOMAIN Top.todo = {}
  /\ phase' = "merge"
  /\ UNCHANGED <<search, stack, mpsp, stg, found>>

(* edge_gen++; delete_ranges(&cgraph.ranges, &addr_list), first its loop   *)
(* over the ranges: erase the nodes in one and make it persistent          *)
EndGeneration ==
  /\ phase = "list"
  /\ DOMAIN Top.todo = {}
  /\ SetTop([Top EXCEPT !.edgeGen = @ + 1])
  /\ phase' = "merge"
  /\ UNCHANGED <<search, mpsp, stg, found>>

DeleteRange ==
  /\ phase = "merge"
  /\ Top.ranges # <<>>
  /\ LET r == Head(Top.ranges) IN
     SetTop([Top EXCEPT !.nodes = Where(@, {a \in DOMAIN @ : ~Holds(r, a)}),
                        !.mranges = Insert(@, r), !.ranges = Tail(@)])
  /\ UNCHANGED <<search, phase, mpsp, stg, found>>

(* then the nodes that are left make the next addr_list.                   *)
Left == {a \in DOMAIN Top.nodes : ~InRanges(Top.mranges, a)}

NextGeneration ==
  /\ phase = "merge"
  /\ Top.ranges = <<>>
  /\ SetTop([Top EXCEPT !.todo = Where(Top.nodes, Left)])
  /\ phase' = IF Left = {} \/ Top.edgeGen = MaxGen THEN "no" ELSE "list"
  /\ UNCHANGED <<search, mpsp, stg, found>>

Progress ==
  \/ \E a \in DOMAIN Top.todo : SkipAddr(a) \/ StartBlock(a)
  \/ Unreadable \/ StopInstr \/ CondJump \/ Jump
  \/ TestPointer \/ Test \/ EnterRule \/ StackOverflow \/ LeaveRule
  \/ EndGeneration \/ DeleteRange \/ NextGeneration

Over == phase \in {"no", "yes"} /\ Len(stack) = 1

Done == (Over \/ phase = "overflow") /\ UNCHANGED vars

Next == Progress \/ Done

Spec == Init /\ [][Next]_vars /\ WF_vars(Progress)

-----------------------------------------------------------------------------
(* Where control goes from the instruction at a.                           *)
Flows(a) ==
  LET i == search.code[a] IN
  IF ~Readable(a) THEN {}
  ELSE (IF i.op \in {"ret", "trap", "b", "br"} THEN {} ELSE {a + 1})
       \cup (IF (i.op = "jcc" \/ Follows(i)) /\ InSections(i.to) THEN {i.to} ELSE {})

(* By any number of steps.                                                 *)
FlowsTo(a, b) ==
  /\ a \in Addresses
  /\ \A S \in SUBSET Addresses :
       a \in S /\ (\A c \in S : Flows(c) \cap Addresses \subseteq S) => b \in S

(* A rule that matches was met along one way through the function: its     *)
(* first item behind the entry and every item behind the one before it,    *)
(* although blocks are walked in the order of addresses and the states of  *)
(* several ways are held in one map.                                       *)
MatchIsInOrder ==
  phase = "yes" =>
    LET at == Top.state.at IN
    /\ Len(at) >= Len(Top.items)
    /\ FlowsTo(Top.entry, at[1])
    /\ \A k \in 2..Len(at) :
         \/ at[k] = at[k - 1] /\ search.code[at[k]].op \in {"add", "adr"}
         \/ \E b \in Flows(at[k - 1]) : FlowsTo(b, at[k])

(* What one call of try_apply holds for walked it has walked, also when    *)
(* others ran in the middle of its blocks.                                 *)
RangesWereSeen ==
  \A k \in 1..Len(stack) : \A a \in DOMAIN search.code :
    InRanges(stack[k].ranges, a) \/ InRanges(stack[k].mranges, a)
      => a \in stack[k].seen

(* A rule that needs neither storage nor other rules, and whose last item  *)
(* is not one of those that never let a rule succeed.                      *)
Simple(item) ==
  /\ item.rule = 0
  /\ item.type \notin {"poi", "gcall", "gload", "gstore", "gldrb", "gldrh", "gstrb", "gstrh"}

Last == Len(search.items)

Findable ==
  /\ \A k \in 1..Last : Simple(search.items[k])
  /\ search.items[Last].type \notin {"ldr_cookie", "ldr_off", "ldr64_off"}
  /\ InSections(search.entry)

(* Where the search goes on from a, and which item is waited for there,    *)
(* when the item k is waited for at a.                                     *)
Onward(a, k) ==
  LET i == search.code[a]
      v == Verdict(search, search.items[k], i, search.stg, search.section)
  IN IF ~Readable(a) THEN {}
     ELSE IF i.op \in {"ret", "trap", "jcc", "b", "br"} THEN Flows(a) \X {k}
     ELSE IF v.leave THEN {}
     ELSE Flows(a) \X {IF v.move = "none" THEN k ELSE k + 1}

(* A number for every address: the item that is waited for there whichever *)
(* way leads to it, Last + 1 behind the whole rule, and 0 where it does    *)
(* not matter because no way does.  There is none if two ways reach an     *)
(* address with different items met.                                       *)
IsNumbering(n) ==
  /\ search.entry \in Addresses => n[search.entry] = 1
  /\ \A a \in Addresses : n[a] \in 1..Last =>
       \A p \in Onward(a, n[a]) : p[1] \in Addresses => n[p[1]] = p[2]

Numberings == {n \in [Addresses -> 0..(Last + 1)] : IsNumbering(n)}

MetBy(n) ==
  \E a \in Addresses : n[a] \in 1..Last /\ \E p \in Onward(a, n[a]) : p[2] > Last

(* A rule is found wherever it can be met, unless two ways reach an        *)
(* address with different items met, or the generations run out: a search  *)
(* that does not find it leaves a numbering by which the last item is met  *)
(* on no way.                                                              *)
MatchIsFound ==
  /\ Over /\ phase = "no" /\ Top.edgeGen < MaxGen
  /\ Findable /\ Numberings # {}
  => \E n \in Numberings : ~MetBy(n)

(* One call has come back to the rule and the function of another that is  *)
(* still under way.                                                        *)
CallsItself ==
  \E k \in 1..Len(stack) : \E j \in 1..(k - 1) :
    stack[j].items = stack[k].items /\ stack[j].entry = stack[k].entry

(* Every search returns, whatever the loops of the function and the rules  *)
(* it asks for, with one exception, which the code does not guard against: *)
(* rules in a circle on functions in a circle may exhaust the stack.       *)
SearchReturns == <>(Over \/ (phase = "overflow" /\ CallsItself))
=============================================================================
