--------------------------- MODULE RuleMatch_proofs ---------------------------
(***************************************************************************)
(* Proofs about RuleMatch (deriv_hack::try_apply) for functions and rules  *)
(* of any size, rules that ask for rules to any depth, and any bound on    *)
(* the generations of edges.                                               *)
(***************************************************************************)
EXTENDS RuleMatch, ProofLemmas

State == [iter : Nat, s : Nat, n : Nat, at : Seq(Nat)]

Sections == {At(a).section : a \in Int} \cup {s.section : s \in Searches}

(* A map from addresses to states.                                         *)
Partial == UNION {[D -> State] : D \in SUBSET Int}

Frame ==
  [section : Sections, items : Rules, todo : Partial, edgeGen : Nat, psp : Nat,
   state : State, nodes : Partial, ranges : Seq(CodeArea), mranges : Seq(CodeArea),
   back : Nat, entry : Int, seen : SUBSET Nat]

Phases == {"list", "walk", "merge", "no", "yes", "overflow"}

TypeOK ==
  /\ search \in Searches
  /\ stack \in Seq(Frame) /\ stack # <<>>
  /\ phase \in Phases
  /\ mpsp \in Nat

-----------------------------------------------------------------------------
(* b is met behind a: at the same instruction if a pointer was met there,  *)
(* or else along the flow of control.                                      *)
Link(a, b) ==
  \/ a = b /\ search.code[a].op \in {"add", "adr"}
  \/ \E c \in Flows(a) : FlowsTo(c, b)

Chain(entry, at) ==
  /\ at # <<>> => FlowsTo(entry, at[1])
  /\ \A k \in 1..Len(at) : at[k] \in Addresses
  /\ \A k \in 2..Len(at) : Link(at[k - 1], at[k])

(* The next item may be met at a.                                          *)
Behind(entry, at, a) ==
  a \in Addresses =>
    IF at = <<>> THEN FlowsTo(entry, a) ELSE Link(at[Len(at)], a)

(* A state counts the items that were met, one way through the function.   *)
Counts(st, items) ==
  /\ st.s \in 1..Len(items)
  /\ st.iter \in 0..Len(items)
  /\ Len(st.at) >= IF st.iter = 0 THEN Len(items) ELSE st.iter - 1

Fits(fr, st) == Counts(st, fr.items) /\ Chain(fr.entry, st.at)

MapFits(fr, map) ==
  \A a \in DOMAIN map :
    Fits(fr, map[a]) /\ (InSections(a) => Behind(fr.entry, map[a].at, a))

ClaimsSeen(fr) ==
  \A a \in Nat : InRanges(fr.ranges, a) \/ InRanges(fr.mranges, a) => a \in fr.seen

(* What every call of try_apply keeps.                                     *)
Sound(fr) ==
  /\ Fits(fr, fr.state) /\ MapFits(fr, fr.todo) /\ MapFits(fr, fr.nodes)
  /\ ClaimsSeen(fr)

(* The call is inside a block and has walked it up to a.                   *)
Inside(fr, a) ==
  /\ fr.psp <= a
  /\ \A b \in Nat : fr.psp <= b /\ b < a => b \in fr.seen
  /\ Behind(fr.entry, fr.state.at, a)

(* The call has asked for a rule at the call or load before back.          *)
Awaits(fr, back) ==
  /\ back > 0 /\ back - 1 \in Addresses /\ Readable(back - 1)
  /\ search.code[back - 1].op \in {"bl", "ldr"}
  /\ Inside(fr, back - 1) /\ back - 1 \in fr.seen

AllSound == \A k \in 1..Len(stack) : Sound(stack[k])

AllAwait == \A k \in 1..(Len(stack) - 1) : Awaits(stack[k], stack[k + 1].back)

WalkInside == phase = "walk" => Inside(Top, mpsp)

MetAll == phase = "yes" => Top.state.iter = 0

Inv == TypeOK /\ AllSound /\ AllAwait /\ WalkInside /\ MetAll

-----------------------------------------------------------------------------
(* Ways through the code.                                                  *)
LEMMA FlowsToSelf == \A a \in Addresses : FlowsTo(a, a)
  BY DEF FlowsTo

LEMMA FlowsToNext ==
  ASSUME NEW a, NEW b, NEW c \in Addresses, FlowsTo(a, b), c \in Flows(b)
  PROVE  FlowsTo(a, c)
<1> SUFFICES ASSUME NEW S \in SUBSET Addresses, a \in S,
                    \A d \in S : Flows(d) \cap Addresses \subseteq S
             PROVE  c \in S
  BY DEF FlowsTo
<1>1. b \in S
  BY DEF FlowsTo
<1> QED BY <1>1

LEMMA LinkNext ==
  ASSUME NEW a, NEW b, NEW c \in Addresses, Link(a, b), c \in Flows(b)
  PROVE  Link(a, c)
<1>1. CASE a = b
  BY <1>1, FlowsToSelf DEF Link
<1>2. CASE a # b
  <2>1. PICK d \in Flows(a) : FlowsTo(d, b)
    BY <1>2 DEF Link
  <2>2. FlowsTo(d, c)
    BY <2>1, FlowsToNext
  <2> QED BY <2>1, <2>2 DEF Link
<1> QED BY <1>1, <1>2

LEMMA BehindNext ==
  ASSUME NEW entry, NEW at \in Seq(Nat), NEW a \in Addresses, NEW c \in Flows(a),
         Behind(entry, at, a)
  PROVE  Behind(entry, at, c)
  BY FlowsToNext, LinkNext DEF Behind

(* What was met at a joins the chain of what was met before.               *)
LEMMA ChainGrows ==
  ASSUME NEW entry, NEW at \in Seq(Nat), NEW a \in Addresses,
         Chain(entry, at), Behind(entry, at, a)
  PROVE  Chain(entry, Append(at, a))
<1>0. a \in Nat
  BY RuleMatchAssumption DEF Addresses, RuleMatchAssumption
<1>1. /\ Len(at) \in Nat /\ Len(Append(at, a)) = Len(at) + 1
      /\ \A k \in 1..Len(at) : Append(at, a)[k] = at[k]
      /\ Append(at, a)[Len(at) + 1] = a
  BY <1>0
<1>2. FlowsTo(entry, Append(at, a)[1])
  <2>1. CASE at = <<>>
    BY <1>1, <2>1 DEF Behind
  <2>2. CASE at # <<>>
    <3>1. Len(at) >= 1
      BY <2>2
    <3> QED BY <1>1, <2>2, <3>1 DEF Chain
  <2> QED BY <2>1, <2>2
<1>3. \A k \in 1..(Len(at) + 1) : Append(at, a)[k] \in Addresses
  BY <1>1 DEF Chain
<1>4. ASSUME NEW k \in 2..(Len(at) + 1)
      PROVE  Link(Append(at, a)[k - 1], Append(at, a)[k])
  <2>1. CASE k = Len(at) + 1
    <3>1. at # <<>> /\ k - 1 = Len(at) /\ Len(at) \in 1..Len(at)
      BY <2>1
    <3> QED BY <1>1, <2>1, <3>1 DEF Behind
  <2>2. CASE k # Len(at) + 1
    <3>1. k \in 2..Len(at) /\ k - 1 \in 1..Len(at) /\ k \in 1..Len(at)
      BY <1>1, <2>2
    <3> QED BY <1>1, <3>1 DEF Chain
  <2> QED BY <2>1, <2>2
<1> QED BY <1>1, <1>2, <1>3, <1>4 DEF Chain

LEMMA ReadableIsCode ==
  ASSUME TypeOK, NEW a \in Nat, Readable(a)
  PROVE  a \in Addresses /\ search.code[a].to \in Int
  BY RuleMatchAssumption DEF RuleMatchAssumption, TypeOK, Readable, Addresses

LEMMA InSectionsIsPlace == \A a : InSections(a) => a \in Nat
  BY RuleMatchAssumption DEF RuleMatchAssumption, InSections, At, Nowhere


-----------------------------------------------------------------------------
(* What a verdict can be.                                                  *)
Shape(v, item) ==
  /\ DOMAIN v = {"move", "leave", "keep", "found"}
  /\ v.leave \in BOOLEAN
  /\ v.move = "rule" => item.rule # 0

LEMMA SimpleShapes ==
  /\ \A item : Shape(Skip, item) /\ Shape(Leave, item) /\ Shape(Step, item)
  /\ \A item : Shape(Quiet, item) /\ Shape(Differs(item), item)
  /\ \A item, v : Shape(Keep(v), item) /\ Shape(Load(v), item)
  /\ \A item, name : Shape(ByName(item, name), item)
  /\ \A item, v : Shape(Matched(item, Keep(v)), item)
                  /\ Shape(Matched(item, Load(v)), item)
<1> USE DEF Shape
<1>1. \A item : Shape(Skip, item) /\ Shape(Leave, item) /\ Shape(Step, item)
  BY DEF Skip, Leave, Step
<1>2. \A item : Shape(Quiet, item) /\ Shape(Differs(item), item)
  BY DEF Quiet, Differs, Skip, Leave
<1>3. \A item, v : Shape(Keep(v), item) /\ Shape(Load(v), item)
  BY DEF Keep, Load, Step, Skip
<1>4. \A item, name : Shape(ByName(item, name), item)
  BY <1>1, <1>2 DEF ByName
<1>5. \A item, v : Shape(Matched(item, Keep(v)), item)
                   /\ Shape(Matched(item, Load(v)), item)
  <2>1. ASSUME NEW item, NEW v, item.rule = 0
        PROVE  Shape(Matched(item, Keep(v)), item)
               /\ Shape(Matched(item, Load(v)), item)
    BY <1>3, <2>1 DEF Matched
  <2>2. ASSUME NEW item, NEW v, item.rule # 0
        PROVE  Shape(Matched(item, Keep(v)), item)
               /\ Shape(Matched(item, Load(v)), item)
    BY <2>2 DEF Matched, Rule, Keep, Load, Step, Skip
  <2> QED BY <2>1, <2>2
<1> QED BY <1>1, <1>2, <1>3, <1>4, <1>5

LEMMA PointerShape ==
  ASSUME NEW item, NEW i, NEW st
  PROVE  /\ Shape(AtPointer(item, i, st), item)
         /\ AtPointer(item, i, st).move # "rule"
         /\ i.op \notin {"add", "adr"} => AtPointer(item, i, st) = Skip
<1>1. Shape(AtPointer(item, i, st), item)
  BY SimpleShapes DEF AtPointer
<1>2. AtPointer(item, i, st).move # "rule"
  BY DEF AtPointer, Skip, Keep, Step, Differs, Leave
<1>3. i.op \notin {"add", "adr"} => AtPointer(item, i, st) = Skip
  BY DEF AtPointer
<1> QED BY <1>1, <1>2, <1>3

LEMMA VerdictShape ==
  ASSUME NEW image, NEW item, NEW i, NEW st, NEW section
  PROVE  Shape(Verdict(image, item, i, st, section), item)
<1>1. Shape(AtStorage(item, i, st), item)
  BY SimpleShapes DEF AtStorage
<1>2. Shape(AtSection(item, i), item)
  BY SimpleShapes DEF AtSection
<1>3. Shape(AtImm(item, i), item)
  BY SimpleShapes DEF AtImm
<1>4. Shape(AtPlain(item, i, section), item)
  BY SimpleShapes DEF AtPlain
<1>5. Shape(AtCall(item, i), item)
  BY SimpleShapes DEF AtCall
<1>6. Shape(AtCallReg(image, item, i), item)
  BY SimpleShapes DEF AtCallReg
<1>7. Shape(AtAddress(item, i), item)
  <2>1. Shape([Keep(i.to) EXCEPT !.found = "now"], item)
    BY DEF Shape, Keep, Step, Skip
  <2> QED BY <2>1, SimpleShapes DEF AtAddress
<1>8. Shape(AtLoad(image, item, i), item)
  BY SimpleShapes DEF AtLoad
<1>9. Shape(AtLiteral(item, i), item)
  BY SimpleShapes DEF AtLiteral
<1> QED
  BY <1>1, <1>2, <1>3, <1>4, <1>5, <1>6, <1>7, <1>8, <1>9, SimpleShapes DEF Verdict

-----------------------------------------------------------------------------
(* Maps from addresses to states.                                          *)
LEMMA PartialIs ==
  \A f : f \in Partial <=> \E D \in SUBSET Int : f \in [D -> State]
  BY DEF Partial

LEMMA PartialOne ==
  /\ <<>> \in Partial /\ DOMAIN <<>> = {}
  /\ \A a \in Int, st \in State : [b \in {a} |-> st] \in Partial
<1>1. <<>> \in [{} -> State] /\ DOMAIN <<>> = {}
  OBVIOUS
<1>2. ASSUME NEW a \in Int, NEW st \in State
      PROVE  [b \in {a} |-> st] \in [{a} -> State] /\ {a} \in SUBSET Int
  OBVIOUS
<1> QED BY <1>1, <1>2, PartialIs

LEMMA PartialWhere ==
  ASSUME NEW f \in Partial, NEW D \in SUBSET DOMAIN f
  PROVE  [a \in D |-> f[a]] \in Partial
<1>1. PICK E \in SUBSET Int : f \in [E -> State]
  BY PartialIs
<1>2. [a \in D |-> f[a]] \in [D -> State] /\ D \in SUBSET Int
  BY <1>1
<1> QED BY <1>2, PartialIs

LEMMA PartialPut ==
  ASSUME NEW f \in Partial, NEW b \in Int, NEW st \in State
  PROVE  [a \in DOMAIN f \cup {b} |-> IF a = b THEN st ELSE f[a]] \in Partial
<1> DEFINE E == DOMAIN f \cup {b}
           g == [a \in E |-> IF a = b THEN st ELSE f[a]]
<1>1. PICK D \in SUBSET Int : f \in [D -> State]
  BY PartialIs
<1>2. g \in [E -> State] /\ E \in SUBSET Int
  BY <1>1
<1> QED BY <1>2, PartialIs

LEMMA PartialKeys ==
  ASSUME NEW f \in Partial, NEW a \in DOMAIN f
  PROVE  a \in Int /\ f[a] \in State
<1>1. PICK D \in SUBSET Int : f \in [D -> State]
  BY PartialIs
<1> QED BY <1>1

-----------------------------------------------------------------------------
(* path_state::next goes one item on and remembers where.                  *)
LEMMA AdvanceFits ==
  ASSUME NEW fr \in Frame, NEW a \in Addresses, Fits(fr, fr.state),
         Behind(fr.entry, fr.state.at, a)
  PROVE  LET st == Advance(fr.state, fr.items, a) IN
         /\ st \in State /\ Fits(fr, st) /\ st.at = Append(fr.state.at, a)
         /\ fr.state.iter = Len(fr.items) => st.iter = 0
<1> DEFINE st == Advance(fr.state, fr.items, a)
<1>1. /\ fr.state \in State /\ fr.items \in Rules /\ a \in Nat
      /\ Len(fr.items) \in Nat \ {0}
  BY RuleMatchAssumption DEF RuleMatchAssumption, Frame, Addresses
<1>2. /\ fr.state.iter \in Nat /\ fr.state.s \in Nat /\ fr.state.n \in Nat
      /\ fr.state.at \in Seq(Nat)
  BY <1>1 DEF State
<1>3. /\ Append(fr.state.at, a) \in Seq(Nat)
      /\ Len(Append(fr.state.at, a)) = Len(fr.state.at) + 1
      /\ Len(fr.state.at) \in Nat
  BY <1>1, <1>2
<1>4. Counts(fr.state, fr.items) /\ Chain(fr.entry, fr.state.at)
  BY DEF Fits
<1>5. CASE fr.state.iter = Len(fr.items)
  <2>1. st = [iter |-> 0, s |-> fr.state.s, n |-> fr.state.n,
              at |-> Append(fr.state.at, a)]
    BY <1>5 DEF Advance
  <2>2. st \in State
    BY <1>2, <1>3, <2>1 DEF State
  <2>3. Counts(st, fr.items)
    BY <1>1, <1>3, <1>4, <1>5, <2>1 DEF Counts
  <2>4. Chain(fr.entry, st.at)
    BY <1>2, <1>4, <2>1, ChainGrows
  <2> QED BY <2>1, <2>2, <2>3, <2>4 DEF Fits
<1>6. CASE fr.state.iter # Len(fr.items)
  <2>1. st = [iter |-> fr.state.iter + 1, s |-> fr.state.iter + 1,
              n |-> fr.state.n + 1, at |-> Append(fr.state.at, a)]
    <3>1. fr.state.iter + 1 # 0
      BY <1>2
    <3> QED BY <1>6, <3>1 DEF Advance
  <2> HIDE DEF st
  <2>2. st \in State
    BY <1>2, <1>3, <2>1 DEF State
  <2>3. Counts(st, fr.items)
    <3>1. fr.state.iter + 1 \in 1..Len(fr.items)
      BY <1>1, <1>2, <1>4, <1>6 DEF Counts
    <3>2. Len(fr.state.at) >= fr.state.iter - 1
      BY <1>1, <1>2, <1>3, <1>4 DEF Counts
    <3>3. st.iter = fr.state.iter + 1 /\ st.s = fr.state.iter + 1
          /\ Len(st.at) = Len(fr.state.at) + 1
      BY <1>3, <2>1
    <3> QED BY <1>1, <1>2, <1>3, <3>1, <3>2, <3>3 DEF Counts
  <2>4. Chain(fr.entry, st.at)
    BY <1>2, <1>4, <2>1, ChainGrows
  <2> QED BY <1>6, <2>1, <2>2, <2>3, <2>4 DEF Fits, st
<1> QED BY <1>5, <1>6

(* What the test of an item at a does to a call that has walked up to a.   *)
LEMMA MovedFits ==
  ASSUME NEW fr \in Frame, Sound(fr), NEW a \in Addresses, Inside(fr, a), NEW v
  PROVE  LET new == Moved(fr, v, a) IN
         /\ new \in Frame /\ Sound(new)
         /\ new = [fr EXCEPT !.state = new.state]
         /\ Returns(fr, v) => new.state.iter = 0
         /\ search.code[a].op \in {"add", "adr"} => Inside(new, a)
         /\ \A c \in Flows(a) : Behind(new.entry, new.state.at, c)
<1> DEFINE new == Moved(fr, v, a)
           st == Advance(fr.state, fr.items, a)
<1>1. Fits(fr, fr.state) /\ Behind(fr.entry, fr.state.at, a)
  BY DEF Sound, Inside
<1>2. /\ st \in State /\ Fits(fr, st) /\ st.at = Append(fr.state.at, a)
      /\ fr.state.iter = Len(fr.items) => st.iter = 0
  BY <1>1, AdvanceFits
<1>3. fr.state \in State /\ fr.state.at \in Seq(Nat) /\ a \in Nat
  BY RuleMatchAssumption DEF Frame, State, Addresses, RuleMatchAssumption
<1>4. CASE v.move \in {"step", "quiet"}
  <2> HIDE DEF st
  <2>1. new = [fr EXCEPT !.state = st]
    BY <1>4 DEF Moved, st
  <2>2. /\ new \in Frame /\ new.state = st /\ new.entry = fr.entry
        /\ new.items = fr.items /\ new.todo = fr.todo /\ new.nodes = fr.nodes
        /\ new.ranges = fr.ranges /\ new.mranges = fr.mranges
        /\ new.seen = fr.seen /\ new.psp = fr.psp
        /\ new = [fr EXCEPT !.state = new.state]
    BY <1>2, <2>1 DEF Frame
  <2> HIDE DEF new
  <2>3. Sound(new)
    BY <1>2, <2>2 DEF Sound, Fits, MapFits, ClaimsSeen
  <2>4. st.at # <<>> /\ st.at[Len(st.at)] = a
    BY <1>2, <1>3
  <2>5. search.code[a].op \in {"add", "adr"} => Inside(new, a)
    BY <2>2, <2>4 DEF Inside, Behind, Link
  <2>6. \A c \in Flows(a) : Behind(new.entry, new.state.at, c)
    BY <2>2, <2>4, FlowsToSelf DEF Behind, Link
  <2>7. Returns(fr, v) => new.state.iter = 0
    BY <1>2, <2>2 DEF Returns
  <2> QED BY <2>2, <2>3, <2>5, <2>6, <2>7 DEF new
<1>5. CASE v.move \notin {"step", "quiet"}
  <2>1. new = fr /\ ~Returns(fr, v)
    BY <1>5 DEF Moved, Returns
  <2>2. fr = [fr EXCEPT !.state = fr.state]
    BY DEF Frame
  <2>3. \A c \in Flows(a) : Behind(fr.entry, fr.state.at, c)
    BY <1>1, <1>3, BehindNext
  <2> QED BY <2>1, <2>2, <2>3
<1> QED BY <1>4, <1>5

-----------------------------------------------------------------------------
(* The instruction at m_psp has been decoded.                              *)
LEMMA SeenFits ==
  ASSUME NEW fr \in Frame, Sound(fr), mpsp \in Nat
  PROVE  /\ Seen(fr) \in Frame /\ Sound(Seen(fr)) /\ mpsp \in Seen(fr).seen
         /\ Seen(fr).state = fr.state /\ Seen(fr).psp = fr.psp
         /\ Seen(fr).entry = fr.entry /\ Seen(fr).items = fr.items
         /\ Seen(fr).back = fr.back
         /\ \A a : Inside(fr, a) => Inside(Seen(fr), a)
<1> DEFINE new == Seen(fr)
<1>1. /\ new \in Frame /\ new.seen = fr.seen \cup {mpsp}
      /\ new.state = fr.state /\ new.psp = fr.psp /\ new.entry = fr.entry
      /\ new.items = fr.items /\ new.todo = fr.todo /\ new.nodes = fr.nodes
      /\ new.ranges = fr.ranges /\ new.mranges = fr.mranges /\ new.back = fr.back
  BY DEF Frame, Seen
<1> HIDE DEF new
<1>2. Sound(new)
  BY <1>1 DEF Sound, Fits, MapFits, ClaimsSeen
<1>3. \A a : Inside(fr, a) => Inside(new, a)
  BY <1>1 DEF Inside
<1> QED BY <1>1, <1>2, <1>3 DEF new

LEMMA InsideNext ==
  ASSUME NEW fr \in Frame, NEW a \in Nat, Inside(fr, a), a \in fr.seen,
         Behind(fr.entry, fr.state.at, a + 1)
  PROVE  Inside(fr, a + 1)
<1>1. fr.psp \in Nat
  BY DEF Frame
<1> QED BY <1>1 DEF Inside

(* The block that ends becomes a range, and all of it was decoded.         *)
LEMMA EndedFits ==
  ASSUME NEW fr \in Frame, Sound(fr), NEW end \in Nat, fr.psp <= end,
         \A b \in Nat : fr.psp <= b /\ b < end => b \in fr.seen
  PROVE  /\ Ended(fr, end) \in Frame /\ Sound(Ended(fr, end))
         /\ Ended(fr, end).state = fr.state /\ Ended(fr, end).back = fr.back
<1> DEFINE r == [addr |-> fr.psp, size |-> end - fr.psp]
           new == Ended(fr, end)
<1>1. fr.ranges \in Seq(CodeArea) /\ fr.psp \in Nat
  BY DEF Frame
<1>2. r \in CodeArea /\ \A a \in Nat : Holds(r, a) => fr.psp <= a /\ a < end
  BY <1>1 DEF CodeArea, Holds, End
<1> HIDE DEF r
<1>3. /\ Insert(fr.ranges, r) \in Seq(CodeArea)
      /\ \A a \in Nat : InRanges(Insert(fr.ranges, r), a)
                          => InRanges(fr.ranges, a) \/ Holds(r, a)
  BY <1>1, <1>2, InsertClaims
<1>4. new = [fr EXCEPT !.ranges = Insert(fr.ranges, r)]
  BY DEF Ended, r
<1>5. /\ new \in Frame /\ new.ranges = Insert(fr.ranges, r)
      /\ new.seen = fr.seen /\ new.state = fr.state /\ new.entry = fr.entry
      /\ new.items = fr.items /\ new.todo = fr.todo /\ new.nodes = fr.nodes
      /\ new.mranges = fr.mranges /\ new.back = fr.back
  BY <1>3, <1>4 DEF Frame
<1> HIDE DEF new
<1>6. ClaimsSeen(new)
  BY <1>2, <1>3, <1>5 DEF Sound, ClaimsSeen
<1>7. Sound(new)
  BY <1>5, <1>6 DEF Sound, Fits, MapFits
<1> QED BY <1>5, <1>7 DEF new

(* statefull_graph::add keeps ways that lead to their addresses.           *)
LEMMA AddNodeFits ==
  ASSUME NEW fr \in Frame, Sound(fr), NEW to \in Int,
         InSections(to) => Behind(fr.entry, fr.state.at, to)
  PROVE  LET new == AddNode(fr, to) IN
         /\ new \in Frame /\ Sound(new)
         /\ new.state = fr.state /\ new.psp = fr.psp /\ new.entry = fr.entry
         /\ new.seen = fr.seen /\ new.back = fr.back
<1> DEFINE new == AddNode(fr, to)
           nodes == [a \in DOMAIN fr.nodes \cup {to} |->
                       IF a = to THEN fr.state ELSE fr.nodes[a]]
<1>1. CASE new = fr
  BY <1>1
<1>2. CASE new # fr
  <2>1. new = [fr EXCEPT !.nodes = nodes]
    BY <1>2 DEF AddNode
  <2>2. fr.nodes \in Partial /\ fr.state \in State
    BY DEF Frame
  <2>3. nodes \in Partial
    BY <2>2, PartialPut
  <2>4. /\ DOMAIN nodes = DOMAIN fr.nodes \cup {to}
        /\ \A a \in DOMAIN nodes :
             nodes[a] = IF a = to THEN fr.state ELSE fr.nodes[a]
    OBVIOUS
  <2> HIDE DEF nodes
  <2>5. /\ new \in Frame /\ new.nodes = nodes /\ new.ranges = fr.ranges
        /\ new.seen = fr.seen /\ new.state = fr.state /\ new.entry = fr.entry
        /\ new.items = fr.items /\ new.todo = fr.todo /\ new.psp = fr.psp
        /\ new.mranges = fr.mranges /\ new.back = fr.back
    BY <2>1, <2>3 DEF Frame
  <2> HIDE DEF new
  <2>6. MapFits(new, nodes)
    BY <2>4, <2>5 DEF Sound, MapFits, Fits
  <2>7. Sound(new)
    BY <2>5, <2>6 DEF Sound, Fits, MapFits, ClaimsSeen
  <2> QED BY <2>5, <2>7 DEF new
<1> QED BY <1>1, <1>2

-----------------------------------------------------------------------------
(* The invariant speaks of the code, which no step changes.                *)
LEMMA SameCode ==
  ASSUME search' = search
  PROVE  /\ \A fr : Sound(fr)' <=> Sound(fr)
         /\ \A fr, a : Inside(fr, a)' <=> Inside(fr, a)
         /\ \A fr, a : Awaits(fr, a)' <=> Awaits(fr, a)
<1>1. \A a : Flows(a)' = Flows(a) /\ (Readable(a)' <=> Readable(a))
  BY DEF Flows, Readable, Follows, Leaves
<1>2. \A a, b : FlowsTo(a, b)' <=> FlowsTo(a, b)
  BY <1>1 DEF FlowsTo
<1>3. \A a, b : Link(a, b)' <=> Link(a, b)
  BY <1>1, <1>2 DEF Link
<1>4. \A e, at : Chain(e, at)' <=> Chain(e, at)
  BY <1>2, <1>3 DEF Chain
<1>5. \A e, at, a : Behind(e, at, a)' <=> Behind(e, at, a)
  BY <1>2, <1>3 DEF Behind
<1>6. \A fr, st : Fits(fr, st)' <=> Fits(fr, st)
  BY <1>4 DEF Fits, Counts
<1>7. \A fr, m : MapFits(fr, m)' <=> MapFits(fr, m)
  BY <1>5, <1>6 DEF MapFits, InSections, At
<1>8. \A fr : Sound(fr)' <=> Sound(fr)
  BY <1>6, <1>7 DEF Sound, ClaimsSeen
<1>9. \A fr, a : Inside(fr, a)' <=> Inside(fr, a)
  BY <1>5 DEF Inside
<1>10. \A fr, a : Awaits(fr, a)' <=> Awaits(fr, a)
  BY <1>1, <1>9 DEF Awaits
<1> QED BY <1>8, <1>9, <1>10

(* A step of the call m, on top of which others may have returned.         *)
LEMMA CallSteps ==
  ASSUME Inv, search' = search, phase' \in Phases, mpsp' \in Nat,
         NEW m \in 1..Len(stack), NEW fr \in Frame, Sound(fr),
         stack' = Append(SubSeq(stack, 1, m - 1), fr),
         fr.back = stack[m].back,
         phase' = "walk" => Inside(fr, mpsp'),
         phase' = "yes" => fr.state.iter = 0
  PROVE  Inv'
<1>1. /\ stack \in Seq(Frame) /\ m \in Nat /\ Len(stack) \in Nat
      /\ search \in Searches
  BY DEF Inv, TypeOK
<1>2. /\ SubSeq(stack, 1, m - 1) \in Seq(Frame)
      /\ Len(SubSeq(stack, 1, m - 1)) = m - 1
      /\ \A k \in 1..(m - 1) : SubSeq(stack, 1, m - 1)[k] = stack[k]
  BY <1>1
<1>3. /\ stack' \in Seq(Frame) /\ Len(stack') = m /\ stack'[m] = fr
      /\ \A k \in 1..(m - 1) : stack'[k] = stack[k]
  BY <1>1, <1>2
<1>4. stack' # <<>>
  BY <1>1, <1>3
<1>5. TypeOK'
  BY <1>1, <1>3, <1>4 DEF TypeOK
<1>6. AllSound'
  <2> SUFFICES ASSUME NEW k \in 1..m PROVE Sound(stack'[k])
    BY <1>3, SameCode DEF AllSound
  <2> QED BY <1>1, <1>3 DEF Inv, AllSound
<1>7. AllAwait'
  <2> SUFFICES ASSUME NEW k \in 1..(m - 1)
               PROVE  Awaits(stack'[k], stack'[k + 1].back)
    BY <1>3, SameCode DEF AllAwait
  <2>1. Awaits(stack[k], stack[k + 1].back)
    BY <1>1 DEF Inv, AllAwait
  <2>2. stack'[k + 1].back = stack[k + 1].back /\ stack'[k] = stack[k]
    BY <1>1, <1>3
  <2> QED BY <2>1, <2>2
<1>8. Top' = fr
  BY <1>3 DEF Top
<1>9. WalkInside' /\ MetAll'
  BY <1>8, SameCode DEF WalkInside, MetAll
<1> QED BY <1>5, <1>6, <1>7, <1>9 DEF Inv

-----------------------------------------------------------------------------
(* A call of try_apply begins with what the invariant asks for.            *)
LEMMA CallFits ==
  ASSUME NEW section \in Sections, NEW items \in Rules, NEW addr \in Int,
         NEW back \in Nat
  PROVE  LET fr == Call(section, items, addr, back) IN
         fr \in Frame /\ Sound(fr) /\ fr.back = back /\ fr.state.iter # 0
<1> DEFINE fr == Call(section, items, addr, back)
           map == [a \in {addr} |-> FirstState]
<1>1. /\ FirstState \in State /\ FirstState.at = <<>> /\ FirstState.s = 1
      /\ FirstState.iter = 1
  BY DEF FirstState, State
<1>2. map \in Partial /\ <<>> \in Partial /\ DOMAIN <<>> = {}
  BY <1>1, PartialOne
<1>3. DOMAIN map = {addr} /\ map[addr] = FirstState
  OBVIOUS
<1> HIDE DEF map
<1>4. fr = [section |-> section, items |-> items, todo |-> map, edgeGen |-> 0,
            psp |-> 0, state |-> FirstState, nodes |-> <<>>, ranges |-> <<>>,
            mranges |-> <<>>, back |-> back, entry |-> addr, seen |-> {}]
  BY DEF Call, map
<1>5. fr \in Frame
  BY <1>1, <1>2, <1>4 DEF Frame
<1>6. Fits(fr, FirstState)
  <2>1. Len(items) \in Nat \ {0}
    BY RuleMatchAssumption DEF RuleMatchAssumption
  <2>2. Counts(FirstState, items)
    BY <1>1, <2>1 DEF Counts
  <2>3. Chain(addr, <<>>)
    BY DEF Chain
  <2> QED BY <1>1, <1>4, <2>2, <2>3 DEF Fits
<1>7. MapFits(fr, map) /\ MapFits(fr, <<>>)
  <2>1. Behind(addr, <<>>, addr)
    BY FlowsToSelf DEF Behind
  <2>2. fr.entry = addr
    BY <1>4
  <2> QED BY <1>1, <1>2, <1>3, <1>6, <2>1, <2>2 DEF MapFits
<1>8. ClaimsSeen(fr)
  BY <1>4 DEF ClaimsSeen, InRanges
<1> QED BY <1>1, <1>4, <1>5, <1>6, <1>7, <1>8 DEF Sound

LEMMA InitInv == Init => Inv
<1> SUFFICES ASSUME Init PROVE Inv
  OBVIOUS
<1> DEFINE fr == Call(search.section, search.items, search.entry, 0)
<1>1. search \in Searches /\ stack = <<fr>> /\ phase = "list" /\ mpsp = 0
  BY DEF Init
<1>2. /\ search.section \in Sections /\ search.items \in Rules
      /\ search.entry \in Int
  BY <1>1, RuleMatchAssumption DEF RuleMatchAssumption, Sections
<1>3. fr \in Frame /\ Sound(fr)
  BY <1>2, CallFits
<1> HIDE DEF fr
<1>4. stack \in Seq(Frame) /\ Len(stack) = 1 /\ stack[1] = fr /\ stack # <<>>
  BY <1>1, <1>3
<1>5. TypeOK /\ AllSound /\ AllAwait
  BY <1>1, <1>3, <1>4 DEF TypeOK, Phases, AllSound, AllAwait
<1> QED BY <1>1, <1>5 DEF Inv, WalkInside, MetAll

(* A step of the running call alone.                                       *)
LEMMA TopSteps ==
  ASSUME Inv, search' = search, phase' \in Phases, mpsp' \in Nat,
         NEW fr \in Frame, Sound(fr), SetTop(fr), fr.back = Top.back,
         phase' = "walk" => Inside(fr, mpsp'),
         phase' = "yes" => fr.state.iter = 0
  PROVE  Inv'
<1>1. Len(stack) \in 1..Len(stack)
  BY DEF Inv, TypeOK
<1> QED BY <1>1, CallSteps DEF SetTop, Top, Under

(* What is known of the running call.                                      *)
LEMMA TopFits ==
  ASSUME Inv
  PROVE  /\ Top \in Frame /\ Sound(Top)
         /\ Top.items \in Rules /\ Top.todo \in Partial /\ Top.nodes \in Partial
         /\ mpsp \in Nat /\ search \in Searches
         /\ phase = "walk" => Inside(Top, mpsp)
<1>1. Len(stack) \in 1..Len(stack) /\ stack \in Seq(Frame)
  BY DEF Inv, TypeOK
<1>2. Top \in Frame /\ Sound(Top)
  BY <1>1 DEF Inv, AllSound, Top
<1>3. Top.items \in Rules /\ Top.todo \in Partial /\ Top.nodes \in Partial
  BY <1>2 DEF Frame
<1> QED BY <1>2, <1>3 DEF Inv, TypeOK, WalkInside

(* The instruction at m_psp, once decoded, lies behind the walked block.   *)
LEMMA DecodedFits ==
  ASSUME Inv, phase = "walk", Readable(mpsp)
  PROVE  /\ mpsp \in Addresses /\ Here.to \in Int /\ mpsp + 1 \in Nat
         /\ Seen(Top) \in Frame /\ Sound(Seen(Top)) /\ Inside(Seen(Top), mpsp)
         /\ Seen(Top).back = Top.back /\ Seen(Top).psp <= mpsp + 1
         /\ \A b \in Nat : Seen(Top).psp <= b /\ b < mpsp + 1 => b \in Seen(Top).seen
<1>1. /\ Top \in Frame /\ Sound(Top) /\ mpsp \in Nat /\ Inside(Top, mpsp)
      /\ search \in Searches
  BY TopFits
<1>2. mpsp \in Addresses /\ Here.to \in Int
  BY <1>1, ReadableIsCode DEF Inv, Here
<1>3. /\ Seen(Top) \in Frame /\ Sound(Seen(Top)) /\ Inside(Seen(Top), mpsp)
      /\ Seen(Top).back = Top.back /\ mpsp \in Seen(Top).seen
  BY <1>1, SeenFits
<1>4. Seen(Top).psp \in Nat
  BY <1>3 DEF Frame
<1>5. Seen(Top).psp <= mpsp + 1
  BY <1>1, <1>3, <1>4 DEF Inside
<1>6. \A b \in Nat : Seen(Top).psp <= b /\ b < mpsp + 1 => b \in Seen(Top).seen
  BY <1>1, <1>3, <1>4 DEF Inside
<1> QED BY <1>1, <1>2, <1>3, <1>5, <1>6

-----------------------------------------------------------------------------
LEMMA SkipInv ==
  ASSUME Inv, NEW a \in DOMAIN Top.todo, SkipAddr(a)
  PROVE  Inv'
<1> DEFINE todo == Without(Top.todo, a)
           fr == [Top EXCEPT !.todo = todo]
<1>1. Top \in Frame /\ Sound(Top) /\ Top.todo \in Partial
  BY TopFits
<1>2. todo \in Partial
  <2>1. DOMAIN Top.todo \ {a} \in SUBSET DOMAIN Top.todo
    OBVIOUS
  <2> QED BY <1>1, <2>1, PartialWhere DEF Without
<1>3. /\ DOMAIN todo \subseteq DOMAIN Top.todo
      /\ \A b \in DOMAIN todo : todo[b] = Top.todo[b]
  BY DEF Without
<1> HIDE DEF todo
<1>4. /\ fr \in Frame /\ fr.todo = todo /\ fr.nodes = Top.nodes
      /\ fr.state = Top.state /\ fr.ranges = Top.ranges /\ fr.mranges = Top.mranges
      /\ fr.seen = Top.seen /\ fr.items = Top.items /\ fr.entry = Top.entry
      /\ fr.back = Top.back
  BY <1>1, <1>2 DEF Frame
<1>5. SetTop(fr) /\ search' = search /\ phase' = "list" /\ mpsp' = mpsp
  BY DEF SkipAddr, todo
<1> HIDE DEF fr
<1>6. Sound(fr)
  BY <1>1, <1>3, <1>4 DEF Sound, Fits, MapFits, ClaimsSeen
<1> QED BY <1>4, <1>5, <1>6, TopSteps DEF Inv, TypeOK, Phases

(* A block begins with the state that was carried along its edge.          *)
LEMMA StartInv ==
  ASSUME Inv, NEW a \in DOMAIN Top.todo, StartBlock(a)
  PROVE  Inv'
<1> DEFINE todo == Without(Top.todo, a)
           fr == [Top EXCEPT !.todo = todo, !.psp = a, !.state = Top.todo[a]]
<1>1. /\ Top \in Frame /\ Sound(Top) /\ Top.todo \in Partial
      /\ Top.todo[a] \in State
  BY TopFits, PartialKeys
<1>2. todo \in Partial
  <2>1. DOMAIN Top.todo \ {a} \in SUBSET DOMAIN Top.todo
    OBVIOUS
  <2> QED BY <1>1, <2>1, PartialWhere DEF Without
<1>3. /\ DOMAIN todo \subseteq DOMAIN Top.todo
      /\ \A b \in DOMAIN todo : todo[b] = Top.todo[b]
  BY DEF Without
<1>4. InSections(a) /\ a \in Nat
  BY InSectionsIsPlace DEF StartBlock, Skipped
<1> HIDE DEF todo
<1>5. /\ fr \in Frame /\ fr.todo = todo /\ fr.nodes = Top.nodes
      /\ fr.state = Top.todo[a] /\ fr.ranges = Top.ranges
      /\ fr.mranges = Top.mranges /\ fr.seen = Top.seen /\ fr.items = Top.items
      /\ fr.entry = Top.entry /\ fr.psp = a /\ fr.back = Top.back
  BY <1>1, <1>2, <1>4 DEF Frame
<1>6. SetTop(fr) /\ search' = search /\ phase' = "walk" /\ mpsp' = a
  BY DEF StartBlock, todo
<1> HIDE DEF fr
<1>7. Fits(Top, Top.todo[a]) /\ Behind(Top.entry, Top.todo[a].at, a)
  BY <1>1, <1>4 DEF Sound, MapFits
<1>8. Sound(fr)
  BY <1>1, <1>3, <1>5, <1>7 DEF Sound, Fits, MapFits, ClaimsSeen
<1>9. Inside(fr, a)
  BY <1>4, <1>5, <1>7 DEF Inside
<1> QED BY <1>4, <1>5, <1>6, <1>8, <1>9, TopSteps DEF Phases

LEMMA UnreadableInv ==
  ASSUME Inv, Unreadable
  PROVE  Inv'
<1> DEFINE fr == Ended(Seen(Top), mpsp)
<1>1. /\ Top \in Frame /\ Sound(Top) /\ mpsp \in Nat /\ Inside(Top, mpsp)
  BY TopFits DEF Unreadable
<1>2. /\ Seen(Top) \in Frame /\ Sound(Seen(Top)) /\ Inside(Seen(Top), mpsp)
      /\ Seen(Top).back = Top.back
  BY <1>1, SeenFits
<1>3. fr \in Frame /\ Sound(fr) /\ fr.back = Top.back
  BY <1>1, <1>2, EndedFits DEF Inside
<1>4. SetTop(fr) /\ search' = search /\ phase' = "list" /\ mpsp' = mpsp
  BY DEF Unreadable
<1> HIDE DEF fr
<1> QED BY <1>1, <1>3, <1>4, TopSteps DEF Phases

LEMMA StopInv ==
  ASSUME Inv, StopInstr
  PROVE  Inv'
<1> DEFINE fr == Ended(Seen(Top), mpsp + 1)
<1>1. /\ phase = "walk" /\ Readable(mpsp) /\ mpsp' = mpsp + 1 /\ search' = search
      /\ SetTop(fr) /\ phase' = "list"
  BY DEF StopInstr, Decode
<1>2. fr \in Frame /\ Sound(fr) /\ fr.back = Top.back
  BY <1>1, DecodedFits, EndedFits
<1> HIDE DEF fr
<1> QED BY <1>1, <1>2, DecodedFits, TopSteps DEF Phases

LEMMA CondJumpInv ==
  ASSUME Inv, CondJump
  PROVE  Inv'
<1> DEFINE fr == AddNode(Seen(Top), Here.to)
<1>1. /\ phase = "walk" /\ Readable(mpsp) /\ mpsp' = mpsp + 1 /\ search' = search
      /\ SetTop(fr) /\ phase' = phase /\ Here.op = "jcc"
  BY DEF CondJump, Decode
<1>2. /\ mpsp \in Addresses /\ Here.to \in Int /\ mpsp + 1 \in Nat /\ mpsp \in Nat
      /\ Seen(Top) \in Frame /\ Sound(Seen(Top)) /\ Inside(Seen(Top), mpsp)
      /\ Seen(Top).back = Top.back /\ mpsp \in Seen(Top).seen
      /\ Seen(Top).state.at \in Seq(Nat)
  BY <1>1, DecodedFits, TopFits, SeenFits DEF Frame, State
<1>3. mpsp + 1 \in Flows(mpsp) /\ (InSections(Here.to) => Here.to \in Flows(mpsp))
  BY <1>1 DEF Flows, Here
<1>4. Behind(Seen(Top).entry, Seen(Top).state.at, mpsp)
  BY <1>2 DEF Inside
<1>5. InSections(Here.to) =>
        Behind(Seen(Top).entry, Seen(Top).state.at, Here.to)
  BY <1>2, <1>3, <1>4, BehindNext
<1>6. Behind(Seen(Top).entry, Seen(Top).state.at, mpsp + 1)
  BY <1>2, <1>3, <1>4, BehindNext
<1>7. /\ fr \in Frame /\ Sound(fr) /\ fr.state = Seen(Top).state
      /\ fr.psp = Seen(Top).psp /\ fr.entry = Seen(Top).entry
      /\ fr.seen = Seen(Top).seen /\ fr.back = Top.back
  BY <1>2, <1>5, AddNodeFits
<1>8. Inside(Seen(Top), mpsp + 1)
  BY <1>2, <1>6, InsideNext
<1> HIDE DEF fr
<1>9. Inside(fr, mpsp + 1)
  BY <1>7, <1>8 DEF Inside
<1> QED BY <1>1, <1>2, <1>7, <1>9, TopSteps DEF Phases

LEMMA JumpInv ==
  ASSUME Inv, Jump
  PROVE  Inv'
<1> DEFINE mid == IF Follows(Here) THEN AddNode(Seen(Top), Here.to) ELSE Seen(Top)
           fr == Ended(mid, mpsp + 1)
<1>1. /\ phase = "walk" /\ Readable(mpsp) /\ mpsp' = mpsp + 1 /\ search' = search
      /\ SetTop(fr) /\ phase' = "list"
  BY DEF Jump, Decode
<1>2. /\ mpsp \in Addresses /\ Here.to \in Int /\ mpsp + 1 \in Nat
      /\ Seen(Top) \in Frame /\ Sound(Seen(Top)) /\ Inside(Seen(Top), mpsp)
      /\ Seen(Top).back = Top.back /\ Seen(Top).state.at \in Seq(Nat)
  BY <1>1, DecodedFits DEF Frame, State
<1>3. Follows(Here) /\ InSections(Here.to) => Here.to \in Flows(mpsp)
  BY <1>1 DEF Flows, Here
<1>4. Follows(Here) /\ InSections(Here.to) =>
        Behind(Seen(Top).entry, Seen(Top).state.at, Here.to)
  BY <1>2, <1>3, BehindNext DEF Inside
<1>5. /\ mid \in Frame /\ Sound(mid) /\ mid.psp = Seen(Top).psp
      /\ mid.seen = Seen(Top).seen /\ mid.back = Top.back
  BY <1>2, <1>4, AddNodeFits
<1> HIDE DEF mid
<1>6. fr \in Frame /\ Sound(fr) /\ fr.back = Top.back
  BY <1>1, <1>2, <1>5, DecodedFits, EndedFits
<1> HIDE DEF fr
<1> QED BY <1>1, <1>2, <1>6, TopSteps DEF Phases

-----------------------------------------------------------------------------
(* A verdict on the instruction at a is settled in the call m.             *)
LEMMA SettleInv ==
  ASSUME Inv, search' = search, NEW m \in 1..Len(stack),
         NEW a \in Addresses, a + 1 \in Flows(a), mpsp' = a + 1,
         NEW fr \in Frame, Sound(fr), Inside(fr, a), a \in fr.seen,
         fr.back = stack[m].back,
         NEW v, v.leave \in BOOLEAN,
         Settle(SubSeq(stack, 1, m - 1), fr, v, a + 1)
  PROVE  Inv'
<1> DEFINE moved == Moved(fr, v, a)
           left == IF v.leave THEN Ended(moved, a + 1) ELSE moved
<1>1. a \in Nat /\ a + 1 \in Nat /\ (a + 1) - 1 = a
  BY RuleMatchAssumption DEF RuleMatchAssumption, Addresses
<1>2. /\ stack' = Append(SubSeq(stack, 1, m - 1), left)
      /\ phase' = IF Returns(fr, v) THEN "yes" ELSE IF v.leave THEN "list" ELSE "walk"
  BY <1>1 DEF Settle
<1>3. /\ moved \in Frame /\ Sound(moved)
      /\ moved = [fr EXCEPT !.state = moved.state]
      /\ Returns(fr, v) => moved.state.iter = 0
      /\ \A c \in Flows(a) : Behind(moved.entry, moved.state.at, c)
  BY MovedFits
<1> HIDE DEF moved
<1>4. moved.psp = fr.psp /\ moved.seen = fr.seen /\ moved.back = fr.back
  BY <1>3 DEF Frame
<1>5. fr.psp \in Nat
  BY DEF Frame
<1>6. /\ moved.psp <= a + 1
      /\ \A b \in Nat : moved.psp <= b /\ b < a + 1 => b \in moved.seen
  BY <1>1, <1>4, <1>5 DEF Inside
<1>7. /\ left \in Frame /\ Sound(left) /\ left.state = moved.state
      /\ left.back = fr.back
  BY <1>1, <1>3, <1>4, <1>6, EndedFits
<1>8. phase' = "walk" => left = moved /\ Inside(left, a + 1)
  BY <1>2, <1>3, <1>6 DEF Inside
<1>9. phase' \in Phases /\ (phase' = "yes" => left.state.iter = 0)
  BY <1>2, <1>3, <1>7 DEF Phases
<1> HIDE DEF left
<1> QED BY <1>1, <1>2, <1>7, <1>8, <1>9, CallSteps

LEMMA TestPointerInv ==
  ASSUME Inv, TestPointer
  PROVE  Inv'
<1>1. /\ phase = "walk" /\ Readable(mpsp) /\ mpsp' = mpsp + 1 /\ search' = search
      /\ Here.op \in {"add", "adr"}
      /\ Settle(Under, Seen(Top), Pointer, mpsp + 1)
  BY DEF TestPointer, Decode
<1>2. /\ mpsp \in Addresses /\ mpsp \in Seen(Top).seen
      /\ Seen(Top) \in Frame /\ Sound(Seen(Top)) /\ Inside(Seen(Top), mpsp)
      /\ Seen(Top).back = Top.back
  BY <1>1, DecodedFits, TopFits, SeenFits
<1>3. mpsp + 1 \in Flows(mpsp)
  BY <1>1 DEF Flows, Here
<1>4. Pointer.leave \in BOOLEAN
  BY PointerShape DEF Pointer, Shape
<1>5. Len(stack) \in 1..Len(stack)
  BY DEF Inv, TypeOK
<1> QED BY <1>1, <1>2, <1>3, <1>4, <1>5, SettleInv DEF Under, Top

(* Behind the test of poi the call still waits at the same instruction.    *)
LEMMA TestedFits ==
  ASSUME Inv, phase = "walk", Readable(mpsp)
  PROVE  /\ Seen(Tested) \in Frame /\ Sound(Seen(Tested))
         /\ Inside(Seen(Tested), mpsp)
         /\ mpsp \in Seen(Tested).seen /\ Seen(Tested).back = Top.back
<1>1. /\ Top \in Frame /\ Sound(Top) /\ mpsp \in Nat /\ Inside(Top, mpsp)
      /\ mpsp \in Addresses
  BY TopFits, DecodedFits
<1>2. /\ Tested \in Frame /\ Sound(Tested)
      /\ Tested = [Top EXCEPT !.state = Tested.state]
      /\ Here.op \in {"add", "adr"} => Inside(Tested, mpsp)
  BY <1>1, MovedFits DEF Tested, Here
<1>3. Here.op \notin {"add", "adr"} => Tested = Top
  <2>1. Here.op \notin {"add", "adr"} => Pointer = Skip
    BY PointerShape DEF Pointer
  <2> QED BY <2>1 DEF Tested, Moved, Skip
<1>4. Inside(Tested, mpsp)
  BY <1>1, <1>2, <1>3
<1>5. Tested.back = Top.back
  BY <1>1, <1>2 DEF Frame
<1> QED BY <1>1, <1>2, <1>4, <1>5, SeenFits

LEMMA TestInv ==
  ASSUME Inv, Test
  PROVE  Inv'
<1>1. /\ phase = "walk" /\ Readable(mpsp) /\ mpsp' = mpsp + 1 /\ search' = search
      /\ Here.op \in Ops \ {"bad", "trap", "ret", "jcc", "b", "br"}
      /\ Settle(Under, Seen(Tested), Result, mpsp + 1)
  BY DEF Test, Decode
<1>2. /\ mpsp \in Addresses
      /\ Seen(Tested) \in Frame /\ Sound(Seen(Tested))
      /\ Inside(Seen(Tested), mpsp)
      /\ mpsp \in Seen(Tested).seen /\ Seen(Tested).back = Top.back
  BY <1>1, DecodedFits, TestedFits
<1>3. mpsp + 1 \in Flows(mpsp)
  BY <1>1 DEF Flows, Here
<1>4. Result.leave \in BOOLEAN
  BY VerdictShape DEF Result, Shape
<1>5. Len(stack) \in 1..Len(stack)
  BY DEF Inv, TypeOK
<1> QED BY <1>1, <1>2, <1>3, <1>4, <1>5, SettleInv DEF Under, Top

LEMMA TwoPushed ==
  ASSUME NEW S, NEW q \in Seq(S), NEW x \in S, NEW y \in S
  PROVE  /\ q \o <<x, y>> \in Seq(S) /\ Len(q \o <<x, y>>) = Len(q) + 2
         /\ (q \o <<x, y>>)[Len(q) + 1] = x /\ (q \o <<x, y>>)[Len(q) + 2] = y
         /\ \A k \in 1..Len(q) : (q \o <<x, y>>)[k] = q[k]
<1>1. <<x, y>> \in Seq(S) /\ Len(<<x, y>>) = 2
  OBVIOUS
<1>2. q \o <<x, y>> \in Seq(S) /\ Len(q \o <<x, y>>) = Len(q) + 2
  BY <1>1
<1>3. (q \o <<x, y>>)[Len(q) + 1] = x
  BY <1>1
<1>4. (q \o <<x, y>>)[Len(q) + 2] = y
  BY <1>1
<1>5. \A k \in 1..Len(q) : (q \o <<x, y>>)[k] = q[k]
  BY <1>1
<1> QED BY <1>2, <1>3, <1>4, <1>5

(* A nested call begins and leaves its caller inside a block.              *)
LEMMA EnterInv ==
  ASSUME Inv, EnterRule
  PROVE  Inv'
<1> DEFINE new == Call(At(Here.to).section, RuleSet[Item(Top).rule], Here.to,
                       mpsp + 1)
           old == Seen(Top)
           n == Len(stack)
<1>1. /\ phase = "walk" /\ Readable(mpsp) /\ mpsp' = mpsp + 1 /\ search' = search
      /\ Here.op \in {"bl", "ldr"} /\ Result.move = "rule"
      /\ stack' = Under \o <<old, new>> /\ phase' = "list"
  BY DEF EnterRule, Decode
<1>2. /\ mpsp \in Addresses /\ mpsp \in old.seen /\ mpsp \in Nat
      /\ Here.to \in Int /\ mpsp + 1 \in Nat
      /\ old \in Frame /\ Sound(old) /\ Inside(old, mpsp) /\ old.back = Top.back
      /\ Top \in Frame /\ Sound(Top) /\ Top.items \in Rules
  BY <1>1, DecodedFits, TopFits, SeenFits
<1>3. RuleSet[Item(Top).rule] \in Rules
  <2>1. Tested = Top
    BY <1>1, PointerShape DEF Tested, Moved, Pointer, Skip
  <2>2. Item(Top).rule # 0
    BY <1>1, <2>1, VerdictShape DEF Result, Shape
  <2>3. Top.state.s \in 1..Len(Top.items)
    BY <1>2 DEF Sound, Fits, Counts
  <2> QED
    BY <1>2, <2>2, <2>3, RuleMatchAssumption DEF RuleMatchAssumption, Item
<1>4. new \in Frame /\ Sound(new) /\ new.back = mpsp + 1
  <2>1. At(Here.to).section \in Sections
    BY <1>2 DEF Sections
  <2> QED BY <1>2, <1>3, <2>1, CallFits
<1>5. Awaits(old, mpsp + 1)
  <2>1. (mpsp + 1) - 1 = mpsp /\ mpsp + 1 > 0
    BY <1>2
  <2> QED BY <1>1, <1>2, <2>1 DEF Awaits, Here
<1> HIDE DEF new, old
<1>6. stack \in Seq(Frame) /\ n \in Nat \ {0} /\ search \in Searches
  BY DEF Inv, TypeOK
<1>7. /\ Under \in Seq(Frame) /\ Len(Under) = n - 1
      /\ \A k \in 1..(n - 1) : Under[k] = stack[k]
  <2>1. Under = SubSeq(stack, 1, n - 1) /\ n - 1 \in 0..n
    BY <1>6 DEF Under
  <2>2. n = Len(stack)
    OBVIOUS
  <2> HIDE DEF n
  <2> QED BY <1>6, <2>1, <2>2
<1>8. /\ stack' \in Seq(Frame) /\ Len(stack') = n + 1
      /\ stack'[n] = old /\ stack'[n + 1] = new
      /\ \A k \in 1..(n - 1) : stack'[k] = stack[k]
  <2>1. /\ stack' \in Seq(Frame) /\ Len(stack') = (n - 1) + 2
        /\ stack'[(n - 1) + 1] = old /\ stack'[(n - 1) + 2] = new
        /\ \A k \in 1..(n - 1) : stack'[k] = Under[k]
    BY <1>1, <1>2, <1>4, <1>7, TwoPushed
  <2>2. (n - 1) + 1 = n /\ (n - 1) + 2 = n + 1
    BY <1>6
  <2> QED BY <1>7, <2>1, <2>2
<1> HIDE DEF n
<1>9. TypeOK'
  <2>1. stack' # <<>>
    BY <1>6, <1>8
  <2> QED BY <1>1, <1>2, <1>6, <1>8, <2>1 DEF TypeOK, Phases
<1>10. AllSound'
  <2> SUFFICES ASSUME NEW k \in 1..(n + 1) PROVE Sound(stack'[k])
    BY <1>1, <1>8, SameCode DEF AllSound
  <2>1. CASE k \in 1..(n - 1)
    BY <1>6, <1>8, <2>1 DEF Inv, AllSound, n
  <2>2. CASE k \in {n, n + 1}
    BY <1>2, <1>4, <1>8, <2>2
  <2> QED BY <1>6, <2>1, <2>2
<1>11. AllAwait'
  <2> SUFFICES ASSUME NEW k \in 1..n PROVE Awaits(stack'[k], stack'[k + 1].back)
    BY <1>1, <1>6, <1>8, SameCode DEF AllAwait
  <2>1. CASE k = n
    BY <1>4, <1>5, <1>8, <2>1
  <2>2. CASE k # n
    <3>1. k \in 1..(n - 1) /\ (k + 1 = n \/ k + 1 \in 1..(n - 1))
      BY <1>6, <2>2
    <3>2. Awaits(stack[k], stack[k + 1].back)
      BY <3>1 DEF Inv, AllAwait, n
    <3>3. stack'[k] = stack[k] /\ stack'[k + 1].back = stack[k + 1].back
      BY <1>2, <1>8, <3>1 DEF Top, n
    <3> QED BY <3>2, <3>3
  <2> QED BY <2>1, <2>2
<1> QED BY <1>1, <1>9, <1>10, <1>11 DEF Inv, WalkInside, MetAll

LEMMA LeaveInv ==
  ASSUME Inv, LeaveRule
  PROVE  Inv'
<1> DEFINE m == Len(stack) - 1
           a == Top.back - 1
<1>1. /\ Len(stack) > 1 /\ mpsp' = Top.back /\ search' = search
      /\ Settle(SubSeq(stack, 1, Len(stack) - 2), Caller, Answer, Top.back)
  BY DEF LeaveRule
<1>2. stack \in Seq(Frame) /\ Len(stack) \in Nat /\ search \in Searches
  BY DEF Inv, TypeOK
<1>3. /\ m \in 1..Len(stack) /\ m \in 1..(Len(stack) - 1) /\ m + 1 = Len(stack)
      /\ m - 1 = Len(stack) - 2
  BY <1>1, <1>2
<1>4. /\ Caller \in Frame /\ Sound(Caller) /\ Awaits(Caller, Top.back)
      /\ Top \in Frame /\ Caller.back = stack[m].back
  BY <1>2, <1>3, TopFits DEF Inv, AllSound, AllAwait, Caller, Top
<1>5. /\ Top.back \in Nat /\ a \in Addresses /\ Readable(a)
      /\ search.code[a].op \in {"bl", "ldr"}
      /\ Inside(Caller, a) /\ a \in Caller.seen /\ a + 1 = Top.back
  BY <1>4 DEF Awaits, Frame
<1>6. a + 1 \in Flows(a)
  BY <1>5 DEF Flows
<1>7. Answer.leave \in BOOLEAN
  BY SimpleShapes, VerdictShape DEF Answer, Shape
<1> HIDE DEF m, a
<1> QED BY <1>1, <1>3, <1>4, <1>5, <1>6, <1>7, SettleInv

-----------------------------------------------------------------------------
(* The generations: what Where keeps of a map fits as the map did.         *)
LEMMA WhereFits ==
  ASSUME NEW fr \in Frame, NEW map \in Partial, MapFits(fr, map),
         NEW D \in SUBSET DOMAIN map
  PROVE  Where(map, D) \in Partial /\ MapFits(fr, Where(map, D))
<1>1. Where(map, D) \in Partial
  BY PartialWhere DEF Where
<1>2. DOMAIN Where(map, D) = D /\ \A a \in D : Where(map, D)[a] = map[a]
  BY DEF Where
<1> QED BY <1>1, <1>2 DEF MapFits

LEMMA EndGenerationInv ==
  ASSUME Inv, EndGeneration
  PROVE  Inv'
<1> DEFINE fr == [Top EXCEPT !.edgeGen = @ + 1]
<1>1. Top \in Frame /\ Sound(Top) /\ mpsp \in Nat
  BY TopFits
<1>2. /\ fr \in Frame /\ fr.todo = Top.todo /\ fr.nodes = Top.nodes
      /\ fr.state = Top.state /\ fr.ranges = Top.ranges /\ fr.mranges = Top.mranges
      /\ fr.seen = Top.seen /\ fr.items = Top.items /\ fr.entry = Top.entry
      /\ fr.back = Top.back
  BY <1>1 DEF Frame
<1>3. SetTop(fr) /\ search' = search /\ phase' = "merge" /\ mpsp' = mpsp
  BY DEF EndGeneration
<1> HIDE DEF fr
<1>4. Sound(fr)
  BY <1>1, <1>2 DEF Sound, Fits, MapFits, ClaimsSeen
<1> QED BY <1>1, <1>2, <1>3, <1>4, TopSteps DEF Phases

LEMMA DeleteInv ==
  ASSUME Inv, DeleteRange
  PROVE  Inv'
<1> DEFINE r == Head(Top.ranges)
           D == {a \in DOMAIN Top.nodes : ~Holds(r, a)}
           nodes == Where(Top.nodes, D)
           fr == [Top EXCEPT !.nodes = nodes, !.mranges = Insert(Top.mranges, r),
                             !.ranges = Tail(Top.ranges)]
<1>1. Top \in Frame /\ Sound(Top) /\ mpsp \in Nat /\ Top.nodes \in Partial
  BY TopFits
<1>2. /\ SetTop(fr) /\ search' = search /\ phase' = phase /\ mpsp' = mpsp
      /\ phase = "merge" /\ Top.ranges # <<>>
  BY <1>1 DEF DeleteRange, Frame
<1>3. Top.ranges \in Seq(CodeArea) /\ Top.mranges \in Seq(CodeArea)
  BY <1>1 DEF Frame
<1>4. /\ r \in CodeArea /\ Tail(Top.ranges) \in Seq(CodeArea)
      /\ \A a \in Nat : Holds(r, a) \/ InRanges(Tail(Top.ranges), a)
                          => InRanges(Top.ranges, a)
  <2>1. /\ Len(Top.ranges) \in Nat \ {0} /\ r = Top.ranges[1]
        /\ Tail(Top.ranges) \in Seq(CodeArea)
        /\ Len(Tail(Top.ranges)) = Len(Top.ranges) - 1
        /\ \A k \in 1..(Len(Top.ranges) - 1) : Tail(Top.ranges)[k] = Top.ranges[k + 1]
    BY <1>2, <1>3
  <2> HIDE DEF r
  <2>2. r \in CodeArea /\ 1 \in 1..Len(Top.ranges)
    BY <1>3, <2>1
  <2>3. \A k \in 1..(Len(Top.ranges) - 1) : k + 1 \in 1..Len(Top.ranges)
    BY <2>1
  <2> QED BY <2>1, <2>2, <2>3 DEF InRanges
<1> HIDE DEF r
<1>5. /\ Insert(Top.mranges, r) \in Seq(CodeArea)
      /\ \A a \in Nat : InRanges(Insert(Top.mranges, r), a)
                          => InRanges(Top.mranges, a) \/ Holds(r, a)
  BY <1>3, <1>4, InsertClaims
<1>6. nodes \in Partial /\ MapFits(Top, nodes)
  BY <1>1, WhereFits DEF Sound
<1> HIDE DEF nodes
<1>7. /\ fr \in Frame /\ fr.todo = Top.todo /\ fr.nodes = nodes
      /\ fr.state = Top.state /\ fr.ranges = Tail(Top.ranges)
      /\ fr.mranges = Insert(Top.mranges, r)
      /\ fr.seen = Top.seen /\ fr.items = Top.items /\ fr.entry = Top.entry
      /\ fr.back = Top.back
  BY <1>1, <1>4, <1>5, <1>6 DEF Frame
<1> HIDE DEF fr
<1>8. ClaimsSeen(fr)
  BY <1>1, <1>4, <1>5, <1>7 DEF Sound, ClaimsSeen
<1>9. Sound(fr)
  BY <1>1, <1>6, <1>7, <1>8 DEF Sound, Fits, MapFits
<1> QED BY <1>1, <1>2, <1>7, <1>9, TopSteps DEF Phases

LEMMA NextGenerationInv ==
  ASSUME Inv, NextGeneration
  PROVE  Inv'
<1> DEFINE todo == Where(Top.nodes, Left)
           fr == [Top EXCEPT !.todo = todo]
<1>1. Top \in Frame /\ Sound(Top) /\ mpsp \in Nat /\ Top.nodes \in Partial
  BY TopFits
<1>2. /\ SetTop(fr) /\ search' = search /\ phase' \in {"no", "list"}
      /\ mpsp' = mpsp
  BY DEF NextGeneration
<1>3. todo \in Partial /\ MapFits(Top, todo)
  BY <1>1, WhereFits DEF Sound, Left
<1> HIDE DEF todo
<1>4. /\ fr \in Frame /\ fr.todo = todo /\ fr.nodes = Top.nodes
      /\ fr.state = Top.state /\ fr.ranges = Top.ranges /\ fr.mranges = Top.mranges
      /\ fr.seen = Top.seen /\ fr.items = Top.items /\ fr.entry = Top.entry
      /\ fr.back = Top.back
  BY <1>1, <1>3 DEF Frame
<1> HIDE DEF fr
<1>5. Sound(fr)
  BY <1>1, <1>3, <1>4 DEF Sound, Fits, MapFits, ClaimsSeen
<1> QED BY <1>1, <1>2, <1>4, <1>5, TopSteps DEF Phases

(* The call too many leaves the stack as it was.                           *)
LEMMA OverflowInv ==
  ASSUME Inv, StackOverflow
  PROVE  Inv'
<1>1. /\ phase = "walk" /\ Readable(mpsp) /\ mpsp' = mpsp + 1 /\ search' = search
      /\ stack' = stack /\ phase' = "overflow"
  BY DEF StackOverflow, Decode
<1>2. mpsp + 1 \in Nat
  BY <1>1, DecodedFits
<1>3. TypeOK'
  BY <1>1, <1>2 DEF Inv, TypeOK, Phases
<1>4. AllSound' /\ AllAwait'
  BY <1>1, SameCode DEF Inv, AllSound, AllAwait
<1> QED BY <1>1, <1>3, <1>4 DEF Inv, WalkInside, MetAll

-----------------------------------------------------------------------------
LEMMA NextInv == Inv /\ [Next]_vars => Inv'
<1> SUFFICES ASSUME Inv, [Next]_vars PROVE Inv'
  OBVIOUS
<1>1. CASE \E a \in DOMAIN Top.todo : SkipAddr(a) \/ StartBlock(a)
  BY <1>1, SkipInv, StartInv
<1>2. CASE Unreadable \/ StopInstr \/ CondJump \/ Jump
  BY <1>2, UnreadableInv, StopInv, CondJumpInv, JumpInv
<1>3. CASE TestPointer \/ Test \/ EnterRule \/ StackOverflow \/ LeaveRule
  BY <1>3, TestPointerInv, TestInv, EnterInv, OverflowInv, LeaveInv
<1>4. CASE EndGeneration \/ DeleteRange \/ NextGeneration
  BY <1>4, EndGenerationInv, DeleteInv, NextGenerationInv
<1>5. CASE UNCHANGED vars
  <2>1. search' = search /\ stack' = stack /\ phase' = phase /\ mpsp' = mpsp
    BY <1>5 DEF vars
  <2>2. Top' = Top
    BY <2>1 DEF Top
  <2>3. TypeOK'
    BY <2>1 DEF Inv, TypeOK
  <2>4. AllSound' /\ AllAwait'
    BY <2>1, SameCode DEF Inv, AllSound, AllAwait
  <2>5. WalkInside' /\ MetAll'
    BY <2>1, <2>2, SameCode DEF Inv, WalkInside, MetAll
  <2> QED BY <2>3, <2>4, <2>5 DEF Inv
<1> QED BY <1>1, <1>2, <1>3, <1>4, <1>5 DEF Next, Progress, Done

THEOREM Invariance == Spec => []Inv
  BY InitInv, NextInv, PTL DEF Spec

(* Every variable keeps its type: maps hold states, calls hold maps, and   *)
(* m_psp is an address again when a nested call has returned.              *)
THEOREM TypeCorrect == Spec => []TypeOK
<1>1. Inv => TypeOK
  BY DEF Inv
<1> QED BY <1>1, Invariance, PTL

(* The items of a rule that matches were met one behind another along one  *)
(* way through the function.                                               *)
THEOREM MatchOnOneWay == Spec => []MatchIsInOrder
<1>1. Inv => MatchIsInOrder
  <2> SUFFICES ASSUME Inv, phase = "yes"
               PROVE  LET at == Top.state.at IN
                      /\ Len(at) >= Len(Top.items)
                      /\ FlowsTo(Top.entry, at[1])
                      /\ \A k \in 2..Len(at) : Link(at[k - 1], at[k])
    <3>1. \A at : \A k \in 2..Len(at) : Link(at[k - 1], at[k]) =>
            \/ at[k] = at[k - 1] /\ search.code[at[k]].op \in {"add", "adr"}
            \/ \E b \in Flows(at[k - 1]) : FlowsTo(b, at[k])
      BY DEF Link
    <3> QED BY <3>1 DEF MatchIsInOrder
  <2>1. Top \in Frame /\ Sound(Top) /\ Top.items \in Rules /\ Top.state.iter = 0
    BY TopFits DEF Inv, MetAll
  <2>2. Top.state.at \in Seq(Nat) /\ Len(Top.items) \in Nat \ {0}
    BY <2>1, RuleMatchAssumption DEF Frame, State, RuleMatchAssumption
  <2>3. Counts(Top.state, Top.items) /\ Chain(Top.entry, Top.state.at)
    BY <2>1 DEF Sound, Fits
  <2>4. Len(Top.state.at) >= Len(Top.items)
    BY <2>1, <2>3 DEF Counts
  <2>5. Top.state.at # <<>>
    BY <2>2, <2>4
  <2> QED BY <2>3, <2>4, <2>5 DEF Chain
<1> QED BY <1>1, Invariance, PTL

(* No call of try_apply holds for walked what it has not decoded, although *)
(* nested calls move m_psp in the middle of its blocks.                    *)
THEOREM RangesSound == Spec => []RangesWereSeen
<1>1. Inv => RangesWereSeen
  <2> SUFFICES ASSUME Inv, NEW k \in 1..Len(stack), NEW a \in DOMAIN search.code,
                      InRanges(stack[k].ranges, a) \/ InRanges(stack[k].mranges, a)
               PROVE  a \in stack[k].seen
    BY DEF RangesWereSeen
  <2>1. a \in Nat
    BY RuleMatchAssumption DEF RuleMatchAssumption, Inv, TypeOK, Addresses
  <2> QED BY <2>1 DEF Inv, AllSound, Sound, ClaimsSeen
<1> QED BY <1>1, Invariance, PTL
-----------------------------------------------------------------------------
(* The search for a rule that needs nothing else, in numbers of the items  *)
(* that are waited for.                                                    *)
Alone ==
  /\ Len(stack) = 1 /\ Top.items = search.items /\ Top.section = search.section

(* b was walked, is walked next, or is still to be walked.                 *)
Noted(b) ==
  \/ b \in Top.seen
  \/ phase = "walk" /\ b = mpsp
  \/ InSections(b) /\ (b \in DOMAIN Top.todo \/ b \in DOMAIN Top.nodes)

Awaited(n, st, a) == st.iter = st.s /\ (a \in Addresses => n[a] = st.s)

MapAwaited(n, map) ==
  \A a \in DOMAIN map : InSections(a) => Awaited(n, map[a], a)

(* The rule goes on behind a, and where it does is noted.                  *)
GoesOn(n, a) ==
  /\ n[a] \in 1..Last
  /\ \A p \in Onward(a, n[a]) : p[2] <= Last /\ (p[1] \in Addresses => Noted(p[1]))

Numbered(n) ==
  /\ MapAwaited(n, Top.todo) /\ MapAwaited(n, Top.nodes)
  /\ phase = "walk" => Awaited(n, Top.state, mpsp)
  /\ \A a \in Addresses : a \in Top.seen => GoesOn(n, a)
  /\ search.entry \in Addresses => Noted(search.entry)

(* When the generations end, all nodes lie in ranges that were walked.     *)
NothingLeft ==
  /\ phase = "merge" => DOMAIN Top.todo = {}
  /\ phase = "no" /\ Top.edgeGen < MaxGen =>
       DOMAIN Top.todo = {} /\ \A a \in DOMAIN Top.nodes : InRanges(Top.mranges, a)

(* What is asked for can be found, and there is a numbering.               *)
Asked == Findable /\ Numberings # {}

FoundInv ==
  Asked =>
    /\ Alone /\ NothingLeft
    /\ phase # "yes" => \A n \in Numberings : Numbered(n)

-----------------------------------------------------------------------------
(* What a verdict moves.                                                   *)
Moves(v, item) ==
  /\ v.move \in {"none", "step", "quiet", "rule"}
  /\ v.leave \in BOOLEAN /\ (v.leave => v.move = "none")
  /\ v.move = "quiet" => item.type \in {"ldr_cookie", "ldr_off", "ldr64_off"}

LEMMA SimpleMoves ==
  /\ \A item : Moves(Skip, item) /\ Moves(Leave, item) /\ Moves(Step, item)
  /\ \A item : Moves(Differs(item), item)
  /\ \A item, v : Moves(Keep(v), item) /\ Moves(Load(v), item)
  /\ \A item, name : Moves(ByName(item, name), item)
  /\ \A item, v : Moves(Matched(item, Keep(v)), item)
                  /\ Moves(Matched(item, Load(v)), item)
<1> USE DEF Moves
<1>1. \A item : Moves(Skip, item) /\ Moves(Leave, item) /\ Moves(Step, item)
  BY DEF Skip, Leave, Step
<1>2. \A item : Moves(Differs(item), item)
  BY DEF Differs, Skip, Leave
<1>3. \A item, v : Moves(Keep(v), item) /\ Moves(Load(v), item)
  BY DEF Keep, Load, Step, Skip
<1>4. \A item, name : Moves(ByName(item, name), item)
  BY <1>1, <1>2 DEF ByName
<1>5. \A item, v : Moves(Matched(item, Keep(v)), item)
                   /\ Moves(Matched(item, Load(v)), item)
  BY <1>3 DEF Matched, Rule, Keep, Load, Step, Skip
<1> QED BY <1>1, <1>2, <1>3, <1>4, <1>5

LEMMA VerdictMoves ==
  ASSUME NEW image, NEW item, NEW i, NEW st, NEW section
  PROVE  Moves(Verdict(image, item, i, st, section), item)
<1>1. Moves(AtStorage(item, i, st), item)
  BY SimpleMoves DEF AtStorage
<1>2. Moves(AtSection(item, i), item)
  BY SimpleMoves DEF AtSection
<1>3. Moves(AtImm(item, i), item)
  BY SimpleMoves DEF AtImm
<1>4. Moves(AtPlain(item, i, section), item)
  BY SimpleMoves DEF AtPlain
<1>5. Moves(AtCall(item, i), item)
  BY SimpleMoves DEF AtCall
<1>6. Moves(AtCallReg(image, item, i), item)
  BY SimpleMoves DEF AtCallReg
<1>7. Moves(AtAddress(item, i), item)
  <2>1. Moves([Keep(i.to) EXCEPT !.found = "now"], item)
    BY DEF Moves, Keep, Step, Skip
  <2> QED BY <2>1, SimpleMoves DEF AtAddress
<1>8. Moves(AtLoad(image, item, i), item)
  <2>1. item.type = "ldr_cookie" => Moves(Quiet, item)
    BY DEF Moves, Quiet, Skip
  <2> QED BY <2>1, SimpleMoves DEF AtLoad
<1>9. Moves(AtLiteral(item, i), item)
  <2>1. item.type \in {"ldr_off", "ldr64_off"} => Moves(Quiet, item)
    BY DEF Moves, Quiet, Skip
  <2> QED BY <2>1, SimpleMoves DEF AtLiteral
<1> QED
  BY <1>1, <1>2, <1>3, <1>4, <1>5, <1>6, <1>7, <1>8, <1>9, SimpleMoves DEF Verdict

(* Neither the storage nor another rule decides on a simple item.          *)
LEMMA SimpleVerdict ==
  ASSUME NEW image, NEW item, NEW i, NEW st, NEW sst, NEW section, Simple(item)
  PROVE  /\ AtPointer(item, i, st) = Skip
         /\ Verdict(image, item, i, st, section) = Verdict(image, item, i, sst, section)
         /\ Verdict(image, item, i, st, section).move # "rule"
<1>1. AtPointer(item, i, st) = Skip
  BY DEF AtPointer, Simple
<1>2. ~Is(item, i, InStorage)
  BY DEF Is, InStorage, Simple
<1>3. Verdict(image, item, i, st, section) = Verdict(image, item, i, sst, section)
  BY <1>2 DEF Verdict
<1>4. Verdict(image, item, i, st, section).move # "rule"
  BY VerdictShape DEF Shape, Simple
<1> QED BY <1>1, <1>3, <1>4

-----------------------------------------------------------------------------
(* What the numbering speaks of does not change.                           *)
LEMMA SameQuestion ==
  ASSUME search' = search
  PROVE  /\ Last' = Last /\ Numberings' = Numberings /\ (Asked' <=> Asked)
         /\ \A a, k : Onward(a, k)' = Onward(a, k)
         /\ \A a : InSections(a)' <=> InSections(a)
<1>1. Last' = Last /\ (Findable' <=> Findable)
  BY DEF Last, Findable, Simple, InSections, At
<1>2. \A a : InSections(a)' <=> InSections(a)
  BY DEF InSections, At
<1>3. \A a : Flows(a)' = Flows(a) /\ (Readable(a)' <=> Readable(a))
  BY DEF Flows, Readable, Follows, Leaves, InSections, At
<1>4. \A a, k : Onward(a, k)' = Onward(a, k)
  BY <1>3 DEF Onward
<1>5. Numberings' = Numberings
  BY <1>1, <1>4 DEF Numberings, IsNumbering
<1> QED BY <1>1, <1>2, <1>4, <1>5 DEF Asked

LEMMA TopIs ==
  ASSUME Inv, NEW fr, SetTop(fr)
  PROVE  Top' = fr /\ (Len(stack) = 1 => Len(stack') = 1)
<1>1. stack \in Seq(Frame) /\ Len(stack) \in Nat \ {0}
  BY DEF Inv, TypeOK
<1>2. ASSUME NEW m \in 1..Len(stack)
      PROVE  /\ SubSeq(stack, 1, m - 1) \in Seq(Frame)
             /\ Len(SubSeq(stack, 1, m - 1)) = m - 1
  BY <1>1
<1> DEFINE under == SubSeq(stack, 1, Len(stack) - 1)
<1>3. /\ stack' = Append(under, fr)
      /\ under \in Seq(Frame) /\ Len(under) = Len(stack) - 1
  <2>1. Len(stack) \in 1..Len(stack)
    BY <1>1
  <2> QED BY <1>2, <2>1 DEF SetTop, Under
<1> HIDE DEF under
<1>4. Len(stack') = Len(stack) /\ stack'[Len(stack)] = fr
  BY <1>1, <1>3
<1> QED BY <1>4 DEF Top

(* A step of the one call: what it adds to the walk is noted, and nothing  *)
(* that was noted is forgotten.                                            *)
LEMMA FoundSteps ==
  ASSUME Inv, FoundInv, Asked, search' = search, phase # "yes",
         NEW fr, SetTop(fr), fr.items = Top.items, fr.section = Top.section,
         phase' = "merge" => DOMAIN fr.todo = {},
         phase' = "no" /\ fr.edgeGen < MaxGen =>
           DOMAIN fr.todo = {} /\ \A a \in DOMAIN fr.nodes : InRanges(fr.mranges, a),
         phase' # "yes" =>
           \A n \in Numberings : Numbered(n) =>
             /\ MapAwaited(n, fr.todo) /\ MapAwaited(n, fr.nodes)
             /\ phase' = "walk" => Awaited(n, fr.state, mpsp')
             /\ \A a \in Addresses : a \in fr.seen /\ a \notin Top.seen => GoesOn(n, a)',
         phase' # "yes" => \A b \in Nat : Noted(b) => Noted(b)',
         Top.seen \subseteq fr.seen
  PROVE  FoundInv'
<1>1. Top' = fr /\ Len(stack') = 1
  BY TopIs DEF FoundInv, Alone
<1>2. Alone' /\ NothingLeft'
  BY <1>1 DEF FoundInv, Alone, NothingLeft
<1>3. ASSUME phase' # "yes", NEW n \in Numberings
      PROVE  Numbered(n)'
  <2>1. Numbered(n)
    BY <1>3 DEF FoundInv
  <2>2. /\ MapAwaited(n, fr.todo) /\ MapAwaited(n, fr.nodes)
        /\ phase' = "walk" => Awaited(n, fr.state, mpsp')
        /\ \A a \in Addresses : a \in fr.seen /\ a \notin Top.seen => GoesOn(n, a)'
    BY <1>3, <2>1
  <2>3. \A b \in Addresses : b \in Nat /\ (Noted(b) => Noted(b)')
    BY <1>3, RuleMatchAssumption DEF RuleMatchAssumption, Addresses
  <2>4. ASSUME NEW a \in Addresses, a \in fr.seen
        PROVE  GoesOn(n, a)'
    <3>1. CASE a \notin Top.seen
      BY <2>2, <2>4, <3>1
    <3>2. CASE a \in Top.seen
      <4>1. GoesOn(n, a)
        BY <2>1, <3>2 DEF Numbered
      <4>2. Onward(a, n[a])' = Onward(a, n[a]) /\ Last' = Last
        BY SameQuestion
      <4> QED BY <2>3, <4>1, <4>2 DEF GoesOn
    <3> QED BY <3>1, <3>2
  <2>5. search.entry \in Addresses => Noted(search.entry)'
    BY <2>1, <2>3 DEF Numbered
  <2> QED BY <1>1, <2>2, <2>4, <2>5 DEF Numbered
<1> QED BY <1>1, <1>2, <1>3, SameQuestion DEF FoundInv

(* The one call of a search that is simple.                                *)
LEMMA OneCall ==
  ASSUME Inv, FoundInv, Asked
  PROVE  /\ Top \in Frame /\ Sound(Top) /\ mpsp \in Nat
         /\ Top.todo \in Partial /\ Top.nodes \in Partial
         /\ Len(stack) = 1 /\ Top.items = search.items
         /\ Top.section = search.section
         /\ Last \in Nat \ {0}
         /\ \A a \in Nat : InRanges(Top.ranges, a) \/ InRanges(Top.mranges, a)
                             => a \in Top.seen
<1>1. /\ Top \in Frame /\ Sound(Top) /\ mpsp \in Nat /\ Top.items \in Rules
      /\ Top.todo \in Partial /\ Top.nodes \in Partial
  BY TopFits
<1>2. Len(stack) = 1 /\ Top.items = search.items /\ Top.section = search.section
  BY DEF FoundInv, Alone
<1>3. Last \in Nat \ {0}
  BY <1>1, <1>2, RuleMatchAssumption DEF RuleMatchAssumption, Last
<1> QED BY <1>1, <1>2, <1>3 DEF Sound, ClaimsSeen

-----------------------------------------------------------------------------
LEMMA InitFound == Init => FoundInv
<1> SUFFICES ASSUME Init, Asked PROVE FoundInv
  BY DEF FoundInv
<1> DEFINE fr == Call(search.section, search.items, search.entry, 0)
<1>1. Top = fr /\ Len(stack) = 1 /\ phase = "list"
  BY DEF Init, Top
<1>2. /\ fr.items = search.items /\ fr.section = search.section
      /\ fr.todo = [a \in {search.entry} |-> FirstState]
      /\ fr.nodes = <<>> /\ fr.seen = {}
  BY DEF Call
<1> HIDE DEF fr
<1>3. DOMAIN fr.todo = {search.entry} /\ DOMAIN fr.nodes = {}
  BY <1>2
<1>4. Alone /\ NothingLeft
  BY <1>1, <1>2 DEF Alone, NothingLeft
<1>5. ASSUME NEW n \in Numberings PROVE Numbered(n)
  <2>1. search.entry \in Addresses => n[search.entry] = 1
    BY DEF Numberings, IsNumbering
  <2>2. Awaited(n, FirstState, search.entry)
    BY <2>1 DEF Awaited, FirstState
  <2>3. fr.todo[search.entry] = FirstState
    BY <1>2
  <2>4. MapAwaited(n, fr.todo) /\ MapAwaited(n, fr.nodes)
    BY <1>3, <2>2, <2>3 DEF MapAwaited
  <2>5. Noted(search.entry)
    BY <1>1, <1>3 DEF Noted, Asked, Findable
  <2> QED BY <1>1, <1>2, <2>4, <2>5 DEF Numbered
<1> QED BY <1>4, <1>5 DEF FoundInv

LEMMA SkipFound ==
  ASSUME Inv, FoundInv, Asked, NEW a \in DOMAIN Top.todo, SkipAddr(a)
  PROVE  FoundInv'
<1> DEFINE todo == Without(Top.todo, a)
           fr == [Top EXCEPT !.todo = todo]
<1>1. Top \in Frame /\ \A b \in Nat : InRanges(Top.ranges, b) => b \in Top.seen
  BY OneCall
<1>2. /\ DOMAIN todo = DOMAIN Top.todo \ {a}
      /\ \A b \in DOMAIN todo : todo[b] = Top.todo[b]
  BY DEF Without
<1>3. /\ fr.todo = todo /\ fr.nodes = Top.nodes /\ fr.seen = Top.seen
      /\ fr.items = Top.items /\ fr.section = Top.section
  BY <1>1 DEF Frame
<1>4. /\ SetTop(fr) /\ search' = search /\ phase = "list" /\ phase' = "list"
      /\ Skipped(a)
  BY DEF SkipAddr
<1> HIDE DEF todo, fr
<1>5. Top' = fr
  BY <1>4, TopIs
<1>6. ASSUME NEW b \in Nat, Noted(b) PROVE Noted(b)'
  <2>1. CASE b = a
    BY <1>1, <1>3, <1>4, <1>5, <1>6, <2>1, SameQuestion DEF Noted, Skipped
  <2>2. CASE b # a
    BY <1>2, <1>3, <1>4, <1>5, <1>6, <2>2, SameQuestion DEF Noted
  <2> QED BY <2>1, <2>2
<1>7. \A n : MapAwaited(n, Top.todo) => MapAwaited(n, fr.todo)
  BY <1>2, <1>3 DEF MapAwaited
<1> QED BY <1>3, <1>4, <1>6, <1>7, FoundSteps DEF Numbered

LEMMA StartFound ==
  ASSUME Inv, FoundInv, Asked, NEW a \in DOMAIN Top.todo, StartBlock(a)
  PROVE  FoundInv'
<1> DEFINE todo == Without(Top.todo, a)
           fr == [Top EXCEPT !.todo = todo, !.psp = a, !.state = Top.todo[a]]
<1>1. Top \in Frame
  BY OneCall
<1>2. /\ DOMAIN todo = DOMAIN Top.todo \ {a}
      /\ \A b \in DOMAIN todo : todo[b] = Top.todo[b]
  BY DEF Without
<1>3. /\ fr.todo = todo /\ fr.nodes = Top.nodes /\ fr.seen = Top.seen
      /\ fr.items = Top.items /\ fr.section = Top.section
      /\ fr.state = Top.todo[a]
  BY <1>1 DEF Frame
<1>4. /\ SetTop(fr) /\ search' = search /\ phase = "list" /\ phase' = "walk"
      /\ mpsp' = a /\ InSections(a)
  BY DEF StartBlock, Skipped
<1> HIDE DEF todo, fr
<1>5. Top' = fr
  BY <1>4, TopIs
<1>6. \A b \in Nat : Noted(b) => Noted(b)'
  BY <1>2, <1>3, <1>4, <1>5, SameQuestion DEF Noted
<1>7. \A n : MapAwaited(n, Top.todo)
               => MapAwaited(n, fr.todo) /\ Awaited(n, fr.state, mpsp')
  BY <1>2, <1>3, <1>4 DEF MapAwaited
<1> QED BY <1>3, <1>4, <1>6, <1>7, FoundSteps DEF Numbered

-----------------------------------------------------------------------------
(* What walking over m_psp leaves of the call.                             *)
LEMMA SeenIs ==
  ASSUME NEW fr \in Frame
  PROVE  /\ Seen(fr).todo = fr.todo /\ Seen(fr).nodes = fr.nodes
         /\ Seen(fr).items = fr.items /\ Seen(fr).section = fr.section
         /\ Seen(fr).state = fr.state /\ Seen(fr).mranges = fr.mranges
         /\ Seen(fr).seen = fr.seen \cup {mpsp} /\ DOMAIN Seen(fr) = DOMAIN fr
         /\ Seen(fr).psp = fr.psp /\ Seen(fr).ranges = fr.ranges
  BY DEF Seen, Frame

LEMMA EndedIs ==
  ASSUME NEW fr, DOMAIN fr = DOMAIN Call("", <<>>, 0, 0), NEW end
  PROVE  /\ Ended(fr, end).todo = fr.todo /\ Ended(fr, end).nodes = fr.nodes
         /\ Ended(fr, end).items = fr.items /\ Ended(fr, end).section = fr.section
         /\ Ended(fr, end).state = fr.state /\ Ended(fr, end).seen = fr.seen
  BY DEF Ended, Call

LEMMA FrameKeys == \A fr \in Frame : DOMAIN fr = DOMAIN Call("", <<>>, 0, 0)
  BY DEF Frame, Call

LEMMA SeenEnded ==
  ASSUME NEW fr \in Frame, NEW end
  PROVE  LET new == Ended(Seen(fr), end) IN
         /\ new.todo = fr.todo /\ new.nodes = fr.nodes /\ new.items = fr.items
         /\ new.section = fr.section /\ new.seen = fr.seen \cup {mpsp}
<1>1. DOMAIN Seen(fr) = DOMAIN Call("", <<>>, 0, 0)
  BY SeenIs, FrameKeys
<1> DEFINE mid == Seen(fr)
<1>2. /\ mid.todo = fr.todo /\ mid.nodes = fr.nodes /\ mid.items = fr.items
      /\ mid.section = fr.section /\ mid.seen = fr.seen \cup {mpsp}
      /\ DOMAIN mid = DOMAIN Call("", <<>>, 0, 0)
  BY <1>1, SeenIs
<1> HIDE DEF mid
<1>3. /\ Ended(mid, end).todo = fr.todo /\ Ended(mid, end).nodes = fr.nodes
      /\ Ended(mid, end).items = fr.items /\ Ended(mid, end).section = fr.section
      /\ Ended(mid, end).seen = fr.seen \cup {mpsp}
  BY <1>2, EndedIs
<1> QED BY <1>3 DEF mid

(* The item that is waited for at m_psp has the number of the address.     *)
LEMMA HereAwaited ==
  ASSUME Inv, FoundInv, Asked, phase = "walk", NEW n \in Numberings
  PROVE  /\ Numbered(n) /\ Top.state \in State /\ Top.state.s \in 1..Last
         /\ Top.state.iter = Top.state.s
         /\ mpsp \in Addresses => n[mpsp] = Top.state.s
<1>1. Numbered(n)
  BY DEF FoundInv
<1>2. Top \in Frame /\ Sound(Top) /\ Top.items = search.items
  BY OneCall
<1>3. Top.state \in State /\ Top.state.s \in 1..Last
  BY <1>2 DEF Frame, Sound, Fits, Counts, Last
<1>4. Awaited(n, Top.state, mpsp)
  BY <1>1 DEF Numbered
<1> QED BY <1>1, <1>3, <1>4 DEF Awaited

(* A numbering goes on as the code does.                                   *)
LEMMA NumberedOn ==
  ASSUME NEW n \in Numberings, NEW a \in Addresses, n[a] \in 1..Last,
         NEW p \in Onward(a, n[a]), p[1] \in Addresses
  PROVE  n[p[1]] = p[2]
  BY DEF Numberings, IsNumbering

(* A step of the one call over m_psp.                                      *)
LEMMA WalkFound ==
  ASSUME Inv, FoundInv, Asked, search' = search, phase = "walk",
         NEW fr, SetTop(fr), fr.items = Top.items, fr.section = Top.section,
         fr.seen = Top.seen \cup {mpsp}, fr.todo = Top.todo,
         \A b \in DOMAIN Top.nodes : b \in DOMAIN fr.nodes,
         phase' \in {"list", "walk", "yes"},
         phase' # "yes" =>
           \A n \in Numberings :
             /\ MapAwaited(n, Top.nodes) => MapAwaited(n, fr.nodes)
             /\ phase' = "walk" => Awaited(n, fr.state, mpsp')
             /\ \A a \in Addresses : a = mpsp => GoesOn(n, a)'
  PROVE  FoundInv'
<1>1. Top' = fr
  BY TopIs
<1>2. \A b \in Nat : Noted(b) => Noted(b)'
  BY <1>1, SameQuestion DEF Noted
<1>3. ASSUME phase' # "yes", NEW n \in Numberings, Numbered(n)
      PROVE  /\ MapAwaited(n, fr.todo) /\ MapAwaited(n, fr.nodes)
             /\ phase' = "walk" => Awaited(n, fr.state, mpsp')
             /\ \A a \in Addresses : a \in fr.seen /\ a \notin Top.seen => GoesOn(n, a)'
  <2>1. MapAwaited(n, Top.todo) /\ MapAwaited(n, Top.nodes)
    BY <1>3 DEF Numbered
  <2>2. \A a : a \in fr.seen /\ a \notin Top.seen => a = mpsp
    OBVIOUS
  <2> QED BY <1>3, <2>1, <2>2
<1> QED BY <1>2, <1>3, FoundSteps

LEMMA UnreadableFound ==
  ASSUME Inv, FoundInv, Asked, Unreadable
  PROVE  FoundInv'
<1> DEFINE fr == Ended(Seen(Top), mpsp)
<1>1. Top \in Frame
  BY OneCall
<1>2. /\ fr.items = Top.items /\ fr.section = Top.section
      /\ fr.seen = Top.seen \cup {mpsp} /\ fr.todo = Top.todo /\ fr.nodes = Top.nodes
  BY <1>1, SeenEnded
<1>3. /\ SetTop(fr) /\ search' = search /\ phase = "walk" /\ phase' = "list"
      /\ ~Readable(mpsp)
  BY DEF Unreadable
<1> HIDE DEF fr
<1>4. ASSUME NEW n \in Numberings, NEW a \in Addresses, a = mpsp
      PROVE  GoesOn(n, a)'
  <2>1. n[a] \in 1..Last
    BY <1>3, <1>4, HereAwaited
  <2>2. Onward(a, n[a]) = {}
    BY <1>3, <1>4 DEF Onward
  <2> QED BY <1>3, <2>1, <2>2, SameQuestion DEF GoesOn
<1> QED BY <1>2, <1>3, <1>4, WalkFound

LEMMA StopFound ==
  ASSUME Inv, FoundInv, Asked, StopInstr
  PROVE  FoundInv'
<1> DEFINE fr == Ended(Seen(Top), mpsp + 1)
<1>1. Top \in Frame
  BY OneCall
<1>2. /\ fr.items = Top.items /\ fr.section = Top.section
      /\ fr.seen = Top.seen \cup {mpsp} /\ fr.todo = Top.todo /\ fr.nodes = Top.nodes
  BY <1>1, SeenEnded
<1>3. /\ SetTop(fr) /\ search' = search /\ phase = "walk" /\ phase' = "list"
      /\ Here.op \in {"ret", "trap"}
  BY DEF StopInstr, Decode
<1> HIDE DEF fr
<1>4. ASSUME NEW n \in Numberings, NEW a \in Addresses, a = mpsp
      PROVE  GoesOn(n, a)'
  <2>1. n[a] \in 1..Last
    BY <1>3, <1>4, HereAwaited
  <2>2. Flows(a) = {}
    BY <1>3, <1>4 DEF Flows, Here, Follows
  <2>3. Onward(a, n[a]) = {}
    BY <1>3, <1>4, <2>2 DEF Onward, Here
  <2> QED BY <1>3, <2>1, <2>3, SameQuestion DEF GoesOn
<1> QED BY <1>2, <1>3, <1>4, WalkFound

(* What adding an edge leaves of the call.                                 *)
LEMMA AddNodeIs ==
  ASSUME NEW fr, DOMAIN fr = DOMAIN Call("", <<>>, 0, 0), NEW to
  PROVE  LET new == AddNode(fr, to) IN
         /\ new.todo = fr.todo /\ new.items = fr.items /\ new.state = fr.state
         /\ new.section = fr.section /\ new.seen = fr.seen
         /\ DOMAIN new = DOMAIN fr
         /\ \A b \in DOMAIN fr.nodes : b \in DOMAIN new.nodes
         /\ \A b \in DOMAIN new.nodes :
              \/ b \in DOMAIN fr.nodes /\ new.nodes[b] = fr.nodes[b]
              \/ b = to /\ new.nodes[b] = fr.state
         /\ to \in DOMAIN new.nodes \/ InRanges(fr.mranges, to)
<1> DEFINE new == AddNode(fr, to)
           nodes == [a \in DOMAIN fr.nodes \cup {to} |->
                       IF a = to THEN fr.state ELSE fr.nodes[a]]
<1>1. CASE \/ InRanges(fr.mranges, to)
           \/ to \in DOMAIN fr.nodes /\ fr.nodes[to].n >= fr.state.n
  BY <1>1 DEF AddNode
<1>2. CASE ~(\/ InRanges(fr.mranges, to)
             \/ to \in DOMAIN fr.nodes /\ fr.nodes[to].n >= fr.state.n)
  <2>1. new = [fr EXCEPT !.nodes = nodes]
    BY <1>2 DEF AddNode
  <2>2. /\ DOMAIN nodes = DOMAIN fr.nodes \cup {to}
        /\ \A b \in DOMAIN nodes :
             nodes[b] = IF b = to THEN fr.state ELSE fr.nodes[b]
    OBVIOUS
  <2> HIDE DEF nodes
  <2>3. /\ new.nodes = nodes /\ new.todo = fr.todo /\ new.items = fr.items
        /\ new.section = fr.section /\ new.seen = fr.seen /\ new.state = fr.state
        /\ DOMAIN new = DOMAIN fr
    BY <2>1 DEF Call
  <2> HIDE DEF new
  <2>4. \A b \in DOMAIN new.nodes : \/ b \in DOMAIN fr.nodes /\ new.nodes[b] = fr.nodes[b]
                                    \/ b = to /\ new.nodes[b] = fr.state
    BY <2>2, <2>3
  <2> QED BY <2>2, <2>3, <2>4 DEF new
<1> QED BY <1>1, <1>2

(* A call that walks over a jump has noted where it leads.                 *)
LEMMA JumpNotes ==
  ASSUME Inv, FoundInv, Asked, phase = "walk", Readable(mpsp),
         Here.op \in {"jcc", "b", "br"}, Here.op = "jcc" \/ Follows(Here)
  PROVE  LET fr == AddNode(Seen(Top), Here.to) IN
         /\ fr.items = Top.items /\ fr.section = Top.section
         /\ fr.seen = Top.seen \cup {mpsp} /\ fr.todo = Top.todo
         /\ fr.state = Top.state /\ DOMAIN fr = DOMAIN Top
         /\ \A b \in DOMAIN Top.nodes : b \in DOMAIN fr.nodes
         /\ \A n \in Numberings : MapAwaited(n, Top.nodes) => MapAwaited(n, fr.nodes)
         /\ InSections(Here.to) =>
              Here.to \in fr.seen \/ Here.to \in DOMAIN fr.nodes
<1> DEFINE mid == Seen(Top)
           fr == AddNode(mid, Here.to)
<1>1. /\ Top \in Frame
      /\ \A a \in Nat : InRanges(Top.mranges, a) => a \in Top.seen
  BY OneCall
<1>2. /\ mid.todo = Top.todo /\ mid.nodes = Top.nodes /\ mid.items = Top.items
      /\ mid.section = Top.section /\ mid.seen = Top.seen \cup {mpsp}
      /\ mid.state = Top.state /\ mid.mranges = Top.mranges
      /\ DOMAIN mid = DOMAIN Top /\ DOMAIN mid = DOMAIN Call("", <<>>, 0, 0)
  BY <1>1, SeenIs, FrameKeys
<1> HIDE DEF mid
<1>3. /\ fr.todo = Top.todo /\ fr.items = Top.items /\ fr.state = Top.state
      /\ fr.section = Top.section /\ fr.seen = Top.seen \cup {mpsp}
      /\ DOMAIN fr = DOMAIN Top
      /\ \A b \in DOMAIN Top.nodes : b \in DOMAIN fr.nodes
      /\ \A b \in DOMAIN fr.nodes :
           \/ b \in DOMAIN Top.nodes /\ fr.nodes[b] = Top.nodes[b]
           \/ b = Here.to /\ fr.nodes[b] = Top.state
      /\ Here.to \in DOMAIN fr.nodes \/ InRanges(Top.mranges, Here.to)
  <2> HIDE DEF fr
  <2>1. /\ fr.todo = mid.todo /\ fr.items = mid.items /\ fr.state = mid.state
        /\ fr.section = mid.section /\ fr.seen = mid.seen
        /\ DOMAIN fr = DOMAIN mid
        /\ \A b \in DOMAIN mid.nodes : b \in DOMAIN fr.nodes
        /\ \A b \in DOMAIN fr.nodes :
             \/ b \in DOMAIN mid.nodes /\ fr.nodes[b] = mid.nodes[b]
             \/ b = Here.to /\ fr.nodes[b] = mid.state
        /\ Here.to \in DOMAIN fr.nodes \/ InRanges(mid.mranges, Here.to)
    BY <1>2, AddNodeIs DEF fr
  <2> QED BY <1>2, <2>1
<1> HIDE DEF fr
<1>4. InSections(Here.to) => Here.to \in fr.seen \/ Here.to \in DOMAIN fr.nodes
  BY <1>1, <1>3, InSectionsIsPlace
<1>5. ASSUME NEW n \in Numberings, InSections(Here.to)
      PROVE  Awaited(n, Top.state, Here.to)
  <2>1. /\ mpsp \in Addresses /\ n[mpsp] = Top.state.s /\ n[mpsp] \in 1..Last
        /\ Top.state.iter = Top.state.s
    BY HereAwaited, OneCall, ReadableIsCode DEF Inv
  <2>2. Here.to \in Flows(mpsp)
    BY <1>5 DEF Flows, Here
  <2>3. <<Here.to, n[mpsp]>> \in Onward(mpsp, n[mpsp])
    BY <2>2 DEF Onward, Here
  <2> QED BY <2>1, <2>3, NumberedOn DEF Awaited
<1>6. ASSUME NEW n \in Numberings, MapAwaited(n, Top.nodes)
      PROVE  MapAwaited(n, fr.nodes)
  BY <1>3, <1>5, <1>6 DEF MapAwaited
<1> QED BY <1>3, <1>4, <1>6 DEF fr, mid

LEMMA CondJumpFound ==
  ASSUME Inv, FoundInv, Asked, CondJump
  PROVE  FoundInv'
<1> DEFINE fr == AddNode(Seen(Top), Here.to)
<1>1. /\ SetTop(fr) /\ search' = search /\ phase = "walk" /\ phase' = "walk"
      /\ mpsp' = mpsp + 1 /\ Here.op = "jcc" /\ Readable(mpsp)
  BY DEF CondJump, Decode
<1>2. /\ fr.items = Top.items /\ fr.section = Top.section
      /\ fr.seen = Top.seen \cup {mpsp} /\ fr.todo = Top.todo
      /\ fr.state = Top.state
      /\ \A b \in DOMAIN Top.nodes : b \in DOMAIN fr.nodes
      /\ \A n \in Numberings : MapAwaited(n, Top.nodes) => MapAwaited(n, fr.nodes)
      /\ InSections(Here.to) => Here.to \in fr.seen \/ Here.to \in DOMAIN fr.nodes
  BY <1>1, JumpNotes
<1> HIDE DEF fr
<1>3. Top' = fr
  BY <1>1, TopIs
<1>4. ASSUME NEW n \in Numberings, NEW a \in Addresses, a = mpsp
      PROVE  /\ Awaited(n, fr.state, mpsp') /\ GoesOn(n, a)'
  <2>1. n[a] \in 1..Last /\ n[a] = Top.state.s /\ Top.state.iter = Top.state.s
    BY <1>1, <1>4, HereAwaited
  <2>2. Flows(a) = {a + 1} \cup (IF InSections(Here.to) THEN {Here.to} ELSE {})
    BY <1>1, <1>4 DEF Flows, Here
  <2>3. Onward(a, n[a]) = Flows(a) \X {n[a]}
    BY <1>1, <1>4 DEF Onward, Here
  <2>4. a + 1 \in Addresses => n[a + 1] = n[a]
    <3>1. <<a + 1, n[a]>> \in Onward(a, n[a])
      BY <2>2, <2>3
    <3> QED BY <2>1, <3>1, NumberedOn
  <2>5. \A b \in Flows(a) : Noted(b)'
    BY <1>1, <1>2, <1>3, <1>4, <2>2, SameQuestion DEF Noted
  <2>6. Last \in Nat
    BY OneCall
  <2>7. \A p \in Onward(a, n[a]) : p[2] <= Last /\ (p[1] \in Addresses => Noted(p[1])')
    BY <2>1, <2>3, <2>5, <2>6
  <2> QED BY <1>1, <1>2, <1>4, <2>1, <2>4, <2>7, SameQuestion DEF GoesOn, Awaited
<1>5. mpsp \in Addresses
  BY <1>1, OneCall, ReadableIsCode DEF Inv
<1> QED BY <1>1, <1>2, <1>4, <1>5, WalkFound

LEMMA JumpFound ==
  ASSUME Inv, FoundInv, Asked, Jump
  PROVE  FoundInv'
<1> DEFINE mid == IF Follows(Here) THEN AddNode(Seen(Top), Here.to) ELSE Seen(Top)
           fr == Ended(mid, mpsp + 1)
<1>1. /\ SetTop(fr) /\ search' = search /\ phase = "walk" /\ phase' = "list"
      /\ Here.op \in {"b", "br"} /\ Readable(mpsp)
  BY DEF Jump, Decode
<1>2. /\ mid.items = Top.items /\ mid.section = Top.section
      /\ mid.seen = Top.seen \cup {mpsp} /\ mid.todo = Top.todo
      /\ DOMAIN mid = DOMAIN Call("", <<>>, 0, 0)
      /\ \A b \in DOMAIN Top.nodes : b \in DOMAIN mid.nodes
      /\ \A n \in Numberings : MapAwaited(n, Top.nodes) => MapAwaited(n, mid.nodes)
      /\ Follows(Here) /\ InSections(Here.to) =>
           Here.to \in mid.seen \/ Here.to \in DOMAIN mid.nodes
  <2>1. Top \in Frame /\ DOMAIN Top = DOMAIN Call("", <<>>, 0, 0)
    BY OneCall, FrameKeys
  <2>2. CASE Follows(Here)
    BY <1>1, <2>1, <2>2, JumpNotes
  <2>3. CASE ~Follows(Here)
    BY <2>1, <2>3, SeenIs
  <2> QED BY <2>2, <2>3
<1> HIDE DEF mid
<1>3. /\ fr.items = Top.items /\ fr.section = Top.section
      /\ fr.seen = Top.seen \cup {mpsp} /\ fr.todo = Top.todo /\ fr.nodes = mid.nodes
  BY <1>2, EndedIs
<1> HIDE DEF fr
<1>4. Top' = fr
  BY <1>1, TopIs
<1>5. ASSUME NEW n \in Numberings, NEW a \in Addresses, a = mpsp
      PROVE  GoesOn(n, a)'
  <2>1. n[a] \in 1..Last
    BY <1>1, <1>5, HereAwaited
  <2>2. Flows(a) = IF Follows(Here) /\ InSections(Here.to) THEN {Here.to} ELSE {}
    BY <1>1, <1>5 DEF Flows, Here
  <2>3. Onward(a, n[a]) = Flows(a) \X {n[a]}
    BY <1>1, <1>5 DEF Onward, Here
  <2>4. \A b \in Flows(a) : Noted(b)'
    BY <1>2, <1>3, <1>4, <2>2, SameQuestion DEF Noted
  <2>5. Last \in Nat
    BY OneCall
  <2>6. \A p \in Onward(a, n[a]) : p[2] <= Last /\ (p[1] \in Addresses => Noted(p[1])')
    BY <2>1, <2>3, <2>4, <2>5
  <2> QED BY <1>1, <2>1, <2>6, SameQuestion DEF GoesOn
<1> QED BY <1>1, <1>2, <1>3, <1>5, WalkFound

-----------------------------------------------------------------------------
(* The instruction at m_psp against the item that is waited for.           *)
LEMMA SimpleTest ==
  ASSUME Inv, FoundInv, Asked, phase = "walk", NEW n \in Numberings,
         mpsp \in Addresses
  PROVE  /\ Pointer = Skip /\ Tested = Top
         /\ Result = Verdict(search, search.items[n[mpsp]], Here, search.stg, search.section)
         /\ Moves(Result, search.items[n[mpsp]]) /\ Result.move # "rule"
<1>1. /\ Top.items = search.items /\ Top.section = search.section
      /\ Top.state.s = n[mpsp] /\ Top.state.s \in 1..Last
  BY OneCall, HereAwaited
<1>2. Item(Top) = search.items[n[mpsp]] /\ Simple(Item(Top))
  BY <1>1 DEF Item, Asked, Findable
<1>3. Pointer = Skip
  BY <1>2, SimpleVerdict DEF Pointer
<1>4. Tested = Top
  BY <1>3 DEF Tested, Moved, Skip
<1>5. Result = Verdict(search, search.items[n[mpsp]], Here, search.stg, search.section)
      /\ Result.move # "rule"
  BY <1>1, <1>2, <1>4, SimpleVerdict DEF Result
<1> QED BY <1>3, <1>4, <1>5, VerdictMoves

LEMMA MovedIs ==
  ASSUME NEW fr \in Frame, NEW v, NEW a
  PROVE  LET new == Moved(fr, v, a) IN
         /\ new.todo = fr.todo /\ new.items = fr.items /\ new.nodes = fr.nodes
         /\ new.section = fr.section /\ new.seen = fr.seen
         /\ DOMAIN new = DOMAIN fr
         /\ new.state = IF v.move \in {"step", "quiet"}
                        THEN Advance(fr.state, fr.items, a) ELSE fr.state
<1> DEFINE new == Moved(fr, v, a)
<1>1. CASE v.move \in {"step", "quiet"}
  <2>1. new = [fr EXCEPT !.state = Advance(fr.state, fr.items, a)]
    BY <1>1 DEF Moved, Frame
  <2> HIDE DEF new
  <2>2. /\ new.todo = fr.todo /\ new.items = fr.items /\ new.nodes = fr.nodes
        /\ new.section = fr.section /\ new.seen = fr.seen
        /\ DOMAIN new = DOMAIN fr
        /\ new.state = Advance(fr.state, fr.items, a)
    BY <2>1 DEF Frame
  <2> QED BY <1>1, <2>2 DEF new
<1>2. CASE v.move \notin {"step", "quiet"}
  BY <1>2 DEF Moved
<1> QED BY <1>1, <1>2

LEMMA SettleIs ==
  ASSUME NEW under, NEW fr, NEW v, NEW a \in Nat, Settle(under, fr, v, a + 1)
  PROVE  LET moved == Moved(fr, v, a) IN
         /\ stack' = Append(under, IF v.leave THEN Ended(moved, a + 1) ELSE moved)
         /\ phase' = IF Returns(fr, v) THEN "yes"
                     ELSE IF v.leave THEN "list" ELSE "walk"
<1>1. (a + 1) - 1 = a
  OBVIOUS
<1> QED BY <1>1 DEF Settle

(* What a verdict on the instruction at m_psp leaves of the call, unless   *)
(* the last item was met.                                                  *)
LEMMA TestFound ==
  ASSUME Inv, FoundInv, Asked, Test
  PROVE  FoundInv'
<1> DEFINE mid == Seen(Top)
           moved == Moved(mid, Result, mpsp)
           fr == IF Result.leave THEN Ended(moved, mpsp + 1) ELSE moved
<1>1. /\ search' = search /\ phase = "walk" /\ mpsp' = mpsp + 1 /\ Readable(mpsp)
      /\ Here.op \notin {"trap", "ret", "jcc", "b", "br"}
      /\ Settle(Under, Seen(Tested), Result, mpsp + 1)
  BY DEF Test, Decode
<1>2. Top \in Frame /\ mid \in Frame /\ mpsp \in Addresses /\ mpsp + 1 - 1 = mpsp
  BY <1>1, OneCall, SeenFits, ReadableIsCode DEF Inv
<1>3. PICK m \in Numberings : TRUE
  BY DEF Asked
<1>4. /\ Tested = Top /\ Moves(Result, search.items[m[mpsp]])
      /\ Result.move # "rule"
  BY <1>1, <1>2, SimpleTest
<1>5. Top.state.s \in 1..Last /\ Top.state.iter = Top.state.s
      /\ Top.items = search.items /\ Last \in Nat \ {0}
  BY <1>1, OneCall, HereAwaited
<1>6. /\ mid.items = Top.items /\ mid.section = Top.section
      /\ mid.seen = Top.seen \cup {mpsp} /\ mid.todo = Top.todo
      /\ mid.nodes = Top.nodes /\ mid.state = Top.state
  BY <1>2, SeenIs
<1>7. /\ SetTop(fr)
      /\ phase' = IF Returns(mid, Result) THEN "yes"
                  ELSE IF Result.leave THEN "list" ELSE "walk"
  <2>1. Settle(Under, mid, Result, mpsp + 1)
    BY <1>1, <1>4
  <2> HIDE DEF mid
  <2>2. mpsp \in Nat
    BY OneCall
  <2> QED BY <2>1, <2>2, SettleIs DEF SetTop
<1>8. /\ moved.items = Top.items /\ moved.section = Top.section
      /\ moved.seen = Top.seen \cup {mpsp} /\ moved.todo = Top.todo
      /\ moved.nodes = Top.nodes
      /\ moved.state = IF Result.move \in {"step", "quiet"}
                       THEN Advance(Top.state, Top.items, mpsp) ELSE Top.state
      /\ DOMAIN moved = DOMAIN Call("", <<>>, 0, 0)
  <2> HIDE DEF mid
  <2>1. /\ moved.items = mid.items /\ moved.section = mid.section
        /\ moved.seen = mid.seen /\ moved.todo = mid.todo /\ moved.nodes = mid.nodes
        /\ DOMAIN moved = DOMAIN mid
        /\ moved.state = IF Result.move \in {"step", "quiet"}
                         THEN Advance(mid.state, mid.items, mpsp) ELSE mid.state
    BY <1>2, MovedIs
  <2>2. DOMAIN mid = DOMAIN Call("", <<>>, 0, 0)
    BY <1>2, FrameKeys
  <2> HIDE DEF moved
  <2> QED BY <1>6, <2>1, <2>2
<1> HIDE DEF moved
<1>9. /\ fr.items = Top.items /\ fr.section = Top.section
      /\ fr.seen = Top.seen \cup {mpsp} /\ fr.todo = Top.todo
      /\ fr.nodes = Top.nodes /\ fr.state = moved.state
  BY <1>8, EndedIs
<1> HIDE DEF fr
<1>10. Top' = fr
  BY <1>7, TopIs
<1>11. ASSUME phase' # "yes", NEW n \in Numberings, NEW a \in Addresses, a = mpsp
       PROVE  GoesOn(n, a)' /\ (phase' = "walk" => Awaited(n, fr.state, mpsp'))
  <2> DEFINE k == Top.state.s
             on == IF Result.move = "none" THEN k ELSE k + 1
  <2>1. n[a] = k /\ k \in 1..Last
    BY <1>1, <1>11, HereAwaited
  <2>2. /\ Result = Verdict(search, search.items[k], Here, search.stg, search.section)
        /\ Moves(Result, search.items[k])
    BY <1>1, <1>2, <1>11, <2>1, SimpleTest
  <2>3. Flows(a) = {a + 1}
    BY <1>1, <1>11 DEF Flows, Here, Follows
  <2>4. Onward(a, n[a]) = IF Result.leave THEN {} ELSE Flows(a) \X {on}
    BY <1>1, <1>11, <2>1, <2>2 DEF Onward, Here
  <2>5. Result.move \in {"step", "quiet"} => k # Last
    <3>1. Result.move = "step" => k # Last
      BY <1>5, <1>6, <1>7, <1>11 DEF Returns, Last
    <3>2. Result.move = "quiet" => k # Last
      BY <2>2 DEF Moves, Asked, Findable
    <3> QED BY <3>1, <3>2
  <2>6. on \in Nat /\ on <= Last
    BY <1>4, <1>5, <2>5 DEF Moves
  <2>7. fr.state.iter = on /\ fr.state.s = on
    <3>1. CASE Result.move \in {"step", "quiet"}
      <4>1. Advance(Top.state, Top.items, mpsp).iter = k + 1
            /\ Advance(Top.state, Top.items, mpsp).s = k + 1
        BY <1>5, <2>5, <3>1 DEF Advance, Last
      <4> QED BY <1>8, <1>9, <3>1, <4>1
    <3>2. CASE Result.move \notin {"step", "quiet"}
      BY <1>4, <1>5, <1>8, <1>9, <3>2 DEF Moves
    <3> QED BY <3>1, <3>2
  <2> HIDE DEF on
  <2>8. Result.leave => GoesOn(n, a)'
    BY <1>1, <2>1, <2>4, SameQuestion DEF GoesOn
  <2>9. ASSUME ~Result.leave
        PROVE  GoesOn(n, a)' /\ Awaited(n, fr.state, mpsp')
    <3>1. phase' = "walk" /\ Onward(a, n[a]) = {<<a + 1, on>>}
      BY <1>7, <1>11, <2>3, <2>4, <2>9
    <3>2. a + 1 \in Addresses => n[a + 1] = on
      <4>1. /\ <<a + 1, on>> \in Onward(a, n[a])
            /\ <<a + 1, on>>[1] = a + 1 /\ <<a + 1, on>>[2] = on
        BY <3>1
      <4>2. n[a] \in 1..Last
        BY <2>1
      <4> QED BY <1>11, <4>1, <4>2, NumberedOn
    <3>3. Noted(a + 1)'
      BY <1>1, <1>11, <3>1 DEF Noted
    <3>4. Onward(a, n[a])' = {<<a + 1, on>>} /\ Last' = Last
      BY <1>1, <3>1, SameQuestion
    <3>5. GoesOn(n, a)'
      BY <2>1, <2>6, <3>3, <3>4 DEF GoesOn
    <3>6. Awaited(n, fr.state, mpsp')
      BY <1>1, <1>11, <2>7, <3>2 DEF Awaited
    <3> QED BY <3>5, <3>6
  <2> QED BY <1>7, <1>11, <2>8, <2>9
<1>12. phase' \in {"list", "walk", "yes"}
  BY <1>7
<1> QED BY <1>1, <1>2, <1>7, <1>9, <1>11, <1>12, WalkFound

(* A simple search never points to what it stored, nor calls try_apply.    *)
LEMMA NoNesting ==
  ASSUME Inv, FoundInv, Asked
  PROVE  ~TestPointer /\ ~EnterRule /\ ~StackOverflow /\ ~LeaveRule
<1>1. PICK m \in Numberings : TRUE
  BY DEF Asked
<1>2. phase = "walk" /\ Readable(mpsp) => Pointer = Skip /\ Result.move # "rule"
  BY OneCall, ReadableIsCode, SimpleTest DEF Inv
<1>3. ~TestPointer
  BY <1>2 DEF TestPointer, Decode, Ends, Returns, Skip
<1>4. ~EnterRule /\ ~StackOverflow
  BY <1>2 DEF EnterRule, StackOverflow, Decode
<1>5. ~LeaveRule
  <2>1. Len(stack) = 1
    BY OneCall
  <2> QED BY <2>1 DEF LeaveRule
<1> QED BY <1>3, <1>4, <1>5

-----------------------------------------------------------------------------
LEMMA EndGenerationFound ==
  ASSUME Inv, FoundInv, Asked, EndGeneration
  PROVE  FoundInv'
<1> DEFINE fr == [Top EXCEPT !.edgeGen = @ + 1]
<1>1. Top \in Frame
  BY OneCall
<1>2. /\ fr.todo = Top.todo /\ fr.nodes = Top.nodes /\ fr.seen = Top.seen
      /\ fr.items = Top.items /\ fr.section = Top.section
  BY <1>1 DEF Frame
<1>3. /\ SetTop(fr) /\ search' = search /\ phase = "list" /\ phase' = "merge"
      /\ DOMAIN Top.todo = {}
  BY DEF EndGeneration
<1> HIDE DEF fr
<1>4. \A b \in Nat : Noted(b) => Noted(b)'
  BY <1>2, <1>3, TopIs, SameQuestion DEF Noted
<1> QED BY <1>2, <1>3, <1>4, FoundSteps DEF Numbered

LEMMA DeleteFound ==
  ASSUME Inv, FoundInv, Asked, DeleteRange
  PROVE  FoundInv'
<1> DEFINE r == Head(Top.ranges)
           nodes == Where(Top.nodes, {a \in DOMAIN Top.nodes : ~Holds(r, a)})
           fr == [Top EXCEPT !.nodes = nodes, !.mranges = Insert(Top.mranges, r),
                             !.ranges = Tail(Top.ranges)]
<1>1. /\ Top \in Frame
      /\ \A a \in Nat : InRanges(Top.ranges, a) => a \in Top.seen
  BY OneCall
<1>2. /\ SetTop(fr) /\ search' = search /\ phase' = phase /\ phase = "merge"
      /\ Top.ranges # <<>>
  BY <1>1 DEF DeleteRange, Frame
<1>3. \A a : Holds(r, a) => InRanges(Top.ranges, a)
  <2>1. Top.ranges \in Seq(CodeArea)
    BY <1>1 DEF Frame
  <2>2. r = Top.ranges[1] /\ 1 \in 1..Len(Top.ranges)
    BY <1>2, <2>1
  <2> HIDE DEF r
  <2> QED BY <2>2 DEF InRanges
<1> HIDE DEF r
<1>4. /\ DOMAIN nodes = {a \in DOMAIN Top.nodes : ~Holds(r, a)}
      /\ \A a \in DOMAIN nodes : nodes[a] = Top.nodes[a]
  BY DEF Where
<1> HIDE DEF nodes
<1>5. /\ fr.todo = Top.todo /\ fr.nodes = nodes /\ fr.seen = Top.seen
      /\ fr.items = Top.items /\ fr.section = Top.section
  BY <1>1 DEF Frame
<1> HIDE DEF fr
<1>6. \A b \in Nat : Noted(b) => Noted(b)'
  BY <1>1, <1>2, <1>3, <1>4, <1>5, TopIs, SameQuestion DEF Noted
<1>7. \A n : MapAwaited(n, Top.nodes) => MapAwaited(n, fr.nodes)
  BY <1>4, <1>5 DEF MapAwaited
<1>8. DOMAIN fr.todo = {}
  BY <1>2, <1>5 DEF FoundInv, NothingLeft
<1> QED BY <1>2, <1>5, <1>6, <1>7, <1>8, FoundSteps DEF Numbered

LEMMA NextGenerationFound ==
  ASSUME Inv, FoundInv, Asked, NextGeneration
  PROVE  FoundInv'
<1> DEFINE todo == Where(Top.nodes, Left)
           fr == [Top EXCEPT !.todo = todo]
<1>1. Top \in Frame
  BY OneCall
<1>2. /\ SetTop(fr) /\ search' = search /\ phase = "merge"
      /\ phase' = IF Left = {} \/ Top.edgeGen = MaxGen THEN "no" ELSE "list"
  BY DEF NextGeneration
<1>3. DOMAIN todo = Left /\ \A a \in DOMAIN todo : todo[a] = Top.nodes[a]
  BY DEF Where
<1> HIDE DEF todo
<1>4. /\ fr.todo = todo /\ fr.nodes = Top.nodes /\ fr.seen = Top.seen
      /\ fr.items = Top.items /\ fr.section = Top.section
      /\ fr.edgeGen = Top.edgeGen /\ fr.mranges = Top.mranges
      /\ Top.edgeGen \in Nat
  BY <1>1 DEF Frame
<1> HIDE DEF fr
<1>5. DOMAIN Top.todo = {}
  BY <1>2 DEF FoundInv, NothingLeft
<1>6. \A b \in Nat : Noted(b) => Noted(b)'
  BY <1>2, <1>4, <1>5, TopIs, SameQuestion DEF Noted
<1>7. \A n : MapAwaited(n, Top.nodes) => MapAwaited(n, fr.todo)
  BY <1>3, <1>4 DEF MapAwaited, Left
<1>8. ASSUME phase' = "no", fr.edgeGen < MaxGen
      PROVE  /\ DOMAIN fr.todo = {}
             /\ \A a \in DOMAIN fr.nodes : InRanges(fr.mranges, a)
  <2>1. Top.edgeGen # MaxGen
    BY <1>4, <1>8, RuleMatchAssumption DEF RuleMatchAssumption
  <2>2. Left = {}
    BY <1>2, <1>8, <2>1
  <2>3. DOMAIN fr.todo = {}
    BY <1>3, <1>4, <2>2
  <2>4. \A a \in DOMAIN Top.nodes : InRanges(Top.mranges, a)
    BY <2>2 DEF Left
  <2> QED BY <1>4, <2>3, <2>4
<1> QED BY <1>2, <1>4, <1>6, <1>7, <1>8, FoundSteps DEF Numbered

LEMMA NextFound == Inv /\ FoundInv /\ [Next]_vars => FoundInv'
<1> SUFFICES ASSUME Inv, FoundInv, [Next]_vars PROVE FoundInv'
  OBVIOUS
<1>1. search' = search
  BY DEF Next, Progress, Done, vars, SkipAddr, StartBlock, Unreadable, StopInstr,
         CondJump, Jump, TestPointer, Test, EnterRule, StackOverflow, LeaveRule,
         EndGeneration, DeleteRange, NextGeneration, Decode
<1>2. CASE ~Asked
  BY <1>1, <1>2, SameQuestion DEF FoundInv
<1>3. CASE Asked
  <2>1. CASE \E a \in DOMAIN Top.todo : SkipAddr(a) \/ StartBlock(a)
    BY <1>3, <2>1, SkipFound, StartFound
  <2>2. CASE Unreadable \/ StopInstr \/ CondJump \/ Jump
    BY <1>3, <2>2, UnreadableFound, StopFound, CondJumpFound, JumpFound
  <2>3. CASE TestPointer \/ Test \/ EnterRule \/ StackOverflow \/ LeaveRule
    BY <1>3, <2>3, TestFound, NoNesting
  <2>4. CASE EndGeneration \/ DeleteRange \/ NextGeneration
    BY <1>3, <2>4, EndGenerationFound, DeleteFound, NextGenerationFound
  <2>5. CASE UNCHANGED vars
    <3>1. Top' = Top /\ phase' = phase /\ mpsp' = mpsp /\ Len(stack') = Len(stack)
      BY <2>5 DEF vars, Top
    <3>2. Alone' /\ NothingLeft'
      BY <1>1, <1>3, <3>1 DEF FoundInv, Alone, NothingLeft
    <3>3. \A b : Noted(b)' <=> Noted(b)
      BY <3>1, SameQuestion, <1>1 DEF Noted
    <3>4. \A n : Numbered(n) => Numbered(n)'
      <4>1. \A n, a : GoesOn(n, a) => GoesOn(n, a)'
        BY <1>1, <3>3, SameQuestion DEF GoesOn
      <4> QED BY <1>1, <3>1, <3>3, <4>1 DEF Numbered
    <3> QED BY <1>1, <3>1, <3>2, <3>4, SameQuestion DEF FoundInv
  <2> QED BY <2>1, <2>2, <2>3, <2>4, <2>5 DEF Next, Progress, Done
<1> QED BY <1>2, <1>3

(* A simple rule is found wherever it can be met: when a search ends with  *)
(* nothing and generations were left, a numbering restricted to what was   *)
(* walked is one by which the last item is met on no way.                  *)
THEOREM FoundIfMet == Spec => []MatchIsFound
<1>1. Inv /\ FoundInv => MatchIsFound
  <2> SUFFICES ASSUME Inv, FoundInv, Over, phase = "no", Top.edgeGen < MaxGen,
                      Findable, Numberings # {}
               PROVE  \E n \in Numberings : ~MetBy(n)
    BY DEF MatchIsFound
  <2>1. PICK n \in Numberings : Numbered(n)
    BY DEF FoundInv, Asked
  <2>2. \A b \in Addresses : Noted(b) => b \in Top.seen
    <3>1. /\ DOMAIN Top.todo = {} /\ \A a \in DOMAIN Top.nodes : InRanges(Top.mranges, a)
      BY DEF FoundInv, NothingLeft, Asked
    <3>2. \A a \in Nat : InRanges(Top.mranges, a) => a \in Top.seen
      BY OneCall DEF Asked
    <3> QED BY <3>1, <3>2, InSectionsIsPlace DEF Noted
  <2> DEFINE walked == [a \in Addresses |-> IF a \in Top.seen THEN n[a] ELSE 0]
  <2>3. /\ n \in [Addresses -> 0..(Last + 1)] /\ Last \in Nat
        /\ search.entry \in Addresses => n[search.entry] = 1
    BY OneCall DEF Numberings, IsNumbering, Asked
  <2>4. walked \in [Addresses -> 0..(Last + 1)]
    BY <2>3
  <2>5. \A a \in Addresses : walked[a] \in 1..Last => a \in Top.seen /\ walked[a] = n[a]
    BY <2>3
  <2>6. \A a \in Addresses : a \in Top.seen => walked[a] = n[a]
    OBVIOUS
  <2> HIDE DEF walked
  <2>7. search.entry \in Addresses => walked[search.entry] = 1
    BY <2>1, <2>2, <2>3, <2>6 DEF Numbered
  <2>8. ASSUME NEW a \in Addresses, walked[a] \in 1..Last, NEW p \in Onward(a, walked[a])
        PROVE  p[2] <= Last /\ (p[1] \in Addresses => walked[p[1]] = p[2])
    <3>1. a \in Top.seen /\ walked[a] = n[a]
      BY <2>5, <2>8
    <3>2. p[2] <= Last /\ (p[1] \in Addresses => Noted(p[1]))
      BY <2>1, <2>8, <3>1 DEF Numbered, GoesOn
    <3>3. p[1] \in Addresses => n[p[1]] = p[2]
      BY <2>8, <3>1, NumberedOn
    <3> QED BY <2>2, <2>6, <3>2, <3>3
  <2>9. walked \in Numberings
    BY <2>4, <2>7, <2>8 DEF Numberings, IsNumbering
  <2>10. \A a, k : \A p \in Onward(a, k) : p[2] \in {k, k + 1}
    BY DEF Onward
  <2>11. ~MetBy(walked)
    BY <2>3, <2>8, <2>10 DEF MetBy
  <2> QED BY <2>9, <2>11
<1> QED BY <1>1, InitInv, NextInv, InitFound, NextFound, PTL DEF Spec
=============================================================================
