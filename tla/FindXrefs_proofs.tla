-------------------------- MODULE FindXrefs_proofs --------------------------
(***************************************************************************)
(* Proofs about FindXrefs (deriv_hack::find_xrefs of ldr/deriv.cpp and the *)
(* derive loop of ldr.cpp) for modules, call graphs and command lines of   *)
(* any size.                                                               *)
(***************************************************************************)
EXTENDS FindXrefs, ProofLemmas

ExportItem == [rva : Funcs, code : BOOLEAN]

ScanRecord == [addr : Funcs, phase : Phases]

Typing ==
  /\ target \in Modules /\ gCE \in BOOLEAN /\ returned \in BOOLEAN
  /\ derives \in Seq(Modules)
  /\ phase \in Phases
  /\ phase = "exports" => source \in Seq(ExportItem)
  /\ phase # "exports" => source \in Seq(Funcs)
  /\ current \in SUBSET Funcs /\ IsFiniteSet(current)
  /\ processed \in SUBSET Funcs
  /\ scans \in Seq(ScanRecord)
  /\ outRes \in Seq(Funcs)

-----------------------------------------------------------------------------
(* The scans of f by the rounds.                                           *)
RoundScans(f) ==
  {k \in 1..Len(scans) : scans[k] = [addr |-> f, phase |-> "rounds"]}

(* How often the rounds have scanned f or are bound to scan it.            *)
Due(f) ==
  Cardinality(RoundScans(f)) + (IF f \in current THEN 1 ELSE 0)
    + (IF phase = "rounds" /\ f \in ElementsOf(source) THEN 1 ELSE 0)

(* What no round has finished is not processed; what is processed cannot   *)
(* be pushed again, so that the scans due to it only become fewer.         *)
Rounds ==
  /\ phase = "rounds" =>
       \A a, b \in 1..Len(source) : source[a] = source[b] => a = b
  /\ \A f \in Funcs : f \notin processed => RoundScans(f) = {}
  /\ \A f \in Funcs : f \in processed => Due(f) <= 2

TwiceInv == Typing /\ Rounds

-----------------------------------------------------------------------------
Scanned == {s.addr : s \in ElementsOf(scans)}

Pdata == ElementsOf(target.pdata)

(* Nothing is handed out that the search is not to scan.                   *)
OnlyWanted ==
  /\ phase = "pdata" => ElementsOf(source) \subseteq Pdata
  /\ phase = "exports" =>
       /\ ElementsOf(source) \subseteq ElementsOf(target.exports)
       /\ source # <<>> => gCE
  /\ phase = "rounds" =>
       ElementsOf(source) \subseteq Search!Discovered(target, Scanned)
  /\ current \subseteq Search!Discovered(target, Scanned)
  /\ processed \subseteq Scanned

(* What was to be scanned has been, or is still to be handed out.          *)
NothingForgotten ==
  /\ \A f \in Pdata :
       f \in Scanned \/ (phase = "pdata" /\ f \in ElementsOf(source))
  /\ gCE => \A e \in ElementsOf(target.exports) : e.code =>
       \/ e.rva \in Scanned
       \/ phase = "pdata"
       \/ phase = "exports" /\ e \in ElementsOf(source)
  /\ \A f \in Scanned : \A c \in ElementsOf(target.calls[f]) :
       \/ c \in Pdata \cup Scanned \cup current
       \/ phase = "rounds" /\ c \in ElementsOf(source)

(* Every hit is in out_res and nothing else.                               *)
Hits == ElementsOf(outRes) = Scanned \cap target.refs

Promise ==
  /\ OnlyWanted /\ NothingForgotten /\ Hits
  /\ returned => source = <<>> /\ phase # "pdata" /\ current = {}

-----------------------------------------------------------------------------
LEMMA ElementsOfTail ==
  ASSUME NEW S, NEW q \in Seq(S), q # <<>>
  PROVE  /\ ElementsOf(q) = {Head(q)} \cup ElementsOf(Tail(q))
         /\ (\A a, b \in 1..Len(q) : q[a] = q[b] => a = b) =>
              /\ \A a, b \in 1..Len(Tail(q)) : Tail(q)[a] = Tail(q)[b] => a = b
              /\ Head(q) \notin ElementsOf(Tail(q))
<1>1. {q[k] : k \in 1..Len(q)} = {Head(q)} \cup {Tail(q)[k] : k \in 1..Len(Tail(q))}
  BY ONLY q \in Seq(S), q # <<>>, TailElements
<1>2. (\A a, b \in 1..Len(q) : q[a] = q[b] => a = b) =>
        /\ \A a, b \in 1..Len(Tail(q)) : Tail(q)[a] = Tail(q)[b] => a = b
        /\ Head(q) \notin {Tail(q)[k] : k \in 1..Len(Tail(q))}
  BY ONLY q \in Seq(S), q # <<>>, TailElements
<1> QED BY ONLY <1>1, <1>2, Zenon DEF ElementsOf

LEMMA ElementsOfAppend ==
  ASSUME NEW S, NEW q \in Seq(S), NEW e \in S
  PROVE  ElementsOf(Append(q, e)) = ElementsOf(q) \cup {e}
<1>1. {Append(q, e)[k] : k \in 1..Len(Append(q, e))} = {q[k] : k \in 1..Len(q)} \cup {e}
  BY ONLY q \in Seq(S), e \in S, AppendElements
<1> QED BY ONLY <1>1, Zenon DEF ElementsOf

(* exchange hands out each function that was pushed once.                  *)
LEMMA SortedProperties ==
  ASSUME NEW S \in SUBSET Funcs, IsFiniteSet(S)
  PROVE  /\ Sorted(S) \in Seq(Funcs)
         /\ \A a, b \in 1..Len(Sorted(S)) : Sorted(S)[a] = Sorted(S)[b] => a = b
         /\ ElementsOf(Sorted(S)) = S
<1>1. S \in SUBSET Nat
  BY FindXrefsAssumption DEF FindXrefsAssumption
<1>2. /\ Sorted(S) \in [1..Cardinality(S) -> S]
      /\ \A a, b \in 1..Cardinality(S) : a < b => Sorted(S)[a] < Sorted(S)[b]
  BY <1>1, AscendingExists DEF Sorted
<1>3. /\ Sorted(S) \in Seq(S)
      /\ \A a, b \in 1..Len(Sorted(S)) : Sorted(S)[a] = Sorted(S)[b] => a = b
      /\ {Sorted(S)[k] : k \in 1..Len(Sorted(S))} = S
  <2> HIDE DEF Sorted
  <2> QED BY <1>1, <1>2, AscendingIsComplete
<1> QED BY <1>3 DEF ElementsOf

LEMMA ModuleFacts ==
  ASSUME NEW mod \in Modules
  PROVE  /\ mod.pdata \in Seq(Funcs)
         /\ mod.exports \in Seq(ExportItem)
         /\ mod.calls \in [Funcs -> Seq(Funcs)]
         /\ mod.refs \in SUBSET Funcs
  BY FindXrefsAssumption DEF FindXrefsAssumption, ExportItem

(* What the loops hand out are functions.                                  *)
LEMMA SourceFacts ==
  ASSUME Typing, source # <<>>
  PROVE  /\ Addr \in Funcs
         /\ phase = "exports" => Tail(source) \in Seq(ExportItem)
         /\ phase # "exports" => Tail(source) \in Seq(Funcs)
         /\ ElementsOf(source) = {Head(source)} \cup ElementsOf(Tail(source))
<1>1. CASE phase = "exports"
  <2>1. source \in Seq(ExportItem)
    BY <1>1 DEF Typing
  <2>2. Head(source) \in ExportItem /\ Tail(source) \in Seq(ExportItem)
    BY <2>1
  <2>3. Head(source).rva \in Funcs
    BY <2>2 DEF ExportItem
  <2>4. ElementsOf(source) = {Head(source)} \cup ElementsOf(Tail(source))
    BY ONLY <2>1, source # <<>>, ElementsOfTail
  <2> QED BY <1>1, <2>2, <2>3, <2>4 DEF Addr
<1>2. CASE phase # "exports"
  <2>1. source \in Seq(Funcs)
    BY <1>2 DEF Typing
  <2>2. ElementsOf(source) = {Head(source)} \cup ElementsOf(Tail(source))
    BY ONLY <2>1, source # <<>>, ElementsOfTail
  <2> QED BY <1>2, <2>1, <2>2 DEF Addr
<1> QED BY <1>1, <1>2

(* A scan pushes finitely many functions.                                  *)
LEMMA PushedFacts ==
  ASSUME Typing, NEW f \in Funcs
  PROVE  Pushed(f) \in SUBSET Funcs /\ IsFiniteSet(Pushed(f))
<1>1. target.calls[f] \in Seq(Funcs)
  <2>1. target.calls \in [Funcs -> Seq(Funcs)]
    BY ModuleFacts DEF Typing
  <2> QED BY <2>1
<1>2. ElementsOf(target.calls[f]) \in SUBSET Funcs /\ IsFiniteSet(ElementsOf(target.calls[f]))
  BY <1>1, ElementsAreFinite DEF ElementsOf
<1>3. Pushed(f) \in SUBSET ElementsOf(target.calls[f])
  BY DEF Pushed
<1> QED BY <1>2, <1>3, FS_Subset

-----------------------------------------------------------------------------
LEMMA InitTyping == Init => Typing
<1> SUFFICES ASSUME Init PROVE Typing
  OBVIOUS
<1>1. PICK files \in Sessions : \E k \in DOMAIN files :
        target = files[k] /\ derives = SubSeq(files, k + 1, Len(files))
  BY DEF Init
<1>2. files \in Seq(Modules)
  BY FindXrefsAssumption DEF FindXrefsAssumption
<1>3. target \in Modules /\ derives \in Seq(Modules)
  <2>1. PICK k \in 1..Len(files) :
          target = files[k] /\ derives = SubSeq(files, k + 1, Len(files))
    BY <1>1, <1>2
  <2>2. \A j \in (k + 1)..Len(files) : files[j] \in Modules
    BY <1>2
  <2> QED BY <1>2, <2>1, <2>2
<1>4. target.pdata \in Seq(Funcs)
  BY <1>3, ModuleFacts
<1>5. gCE \in BOOLEAN /\ returned \in BOOLEAN
  BY Zenon DEF Init
<1>6. /\ source = target.pdata /\ phase = "pdata" /\ current = {} /\ processed = {}
      /\ scans \in Seq(ScanRecord) /\ outRes \in Seq(Funcs)
  BY DEF Init
<1> QED BY <1>3, <1>4, <1>5, <1>6, FS_EmptySet DEF Typing, Phases

LEMMA NextTyping == Typing /\ [Next]_vars => Typing'
<1> SUFFICES ASSUME Typing, [Next]_vars PROVE Typing'
  OBVIOUS
<1> USE DEF holder
<1>1. CASE SkipExport
  BY <1>1, SourceFacts DEF SkipExport, Typing
<1>2. CASE ScanFunction
  <2>1. /\ source # <<>> /\ current' = current \cup Pushed(Addr)
        /\ scans' = Append(scans, [addr |-> Addr, phase |-> phase])
        /\ outRes' = IF Addr \in target.refs THEN Append(outRes, Addr) ELSE outRes
        /\ processed' = IF phase = "rounds" THEN processed \cup {Addr} ELSE processed
        /\ source' = Tail(source)
        /\ UNCHANGED <<gCE, derives, target, phase, returned>>
    BY <1>2 DEF ScanFunction
  <2>2. Addr \in Funcs /\ [addr |-> Addr, phase |-> phase] \in ScanRecord
    BY <2>1, SourceFacts DEF Typing, ScanRecord
  <2>3. current' \in SUBSET Funcs /\ IsFiniteSet(current')
    BY <2>1, <2>2, PushedFacts, FS_Union DEF Typing
  <2>4. scans' \in Seq(ScanRecord) /\ outRes' \in Seq(Funcs)
    BY <2>1, <2>2 DEF Typing
  <2>5. /\ phase' = "exports" => source' \in Seq(ExportItem)
        /\ phase' # "exports" => source' \in Seq(Funcs)
    BY <2>1, SourceFacts
  <2> QED BY <2>1, <2>2, <2>3, <2>4, <2>5 DEF Typing
<1>3. CASE ExportsLoop
  <2>1. target.exports \in Seq(ExportItem) /\ <<>> \in Seq(ExportItem)
    <3>1. <<>> \in Seq(ExportItem)
      OBVIOUS
    <3> QED BY <3>1, ModuleFacts DEF Typing
  <2> QED BY <1>3, <2>1 DEF ExportsLoop, Typing, Phases
<1>4. CASE Exchange
  <2>1. Sorted(current) \in Seq(Funcs)
    BY SortedProperties DEF Typing
  <2> HIDE DEF Sorted
  <2> QED BY <1>4, <2>1, FS_EmptySet DEF Exchange, Typing, Phases
<1>5. CASE Return
  BY <1>5 DEF Return, Typing
<1>6. CASE NextFile
  <2>1. Head(derives) \in Modules /\ Tail(derives) \in Seq(Modules)
    BY <1>6 DEF NextFile, Typing
  <2>2. /\ target' = Head(derives) /\ derives' = Tail(derives) /\ phase' = "pdata"
        /\ source' = target'.pdata /\ current' = {} /\ processed' = {}
        /\ scans' = <<>> /\ outRes' = <<>>
    BY <1>6 DEF NextFile, Begin
  <2>3. gCE' \in BOOLEAN /\ returned' \in BOOLEAN
    BY <1>6, Zenon DEF NextFile, Begin
  <2>4. target'.pdata \in Seq(Funcs)
    BY <2>1, <2>2, ModuleFacts
  <2>5. scans' \in Seq(ScanRecord) /\ outRes' \in Seq(Funcs)
    BY <2>2
  <2> QED BY <2>1, <2>2, <2>3, <2>4, <2>5, FS_EmptySet DEF Typing, Phases
<1>7. CASE SkipFile
  BY <1>7 DEF SkipFile, Typing
<1>8. CASE UNCHANGED vars
  BY <1>8 DEF vars, Typing
<1> QED BY <1>1, <1>2, <1>3, <1>4, <1>5, <1>6, <1>7, <1>8 DEF Next, Step, Done

LEMMA RoundScansFacts ==
  ASSUME Typing, NEW f
  PROVE  IsFiniteSet(RoundScans(f)) /\ Cardinality(RoundScans(f)) \in Nat
<1>1. Len(scans) \in Nat /\ IsFiniteSet(1..Len(scans))
  BY FS_Interval DEF Typing
<1>2. RoundScans(f) \in SUBSET (1..Len(scans))
  BY DEF RoundScans
<1> QED BY <1>1, <1>2, FS_Subset, FS_CardinalityType

(* What a scan does to the counts of every function.                       *)
LEMMA ScanCounts ==
  ASSUME Typing, ScanFunction, NEW f \in Funcs
  PROVE  RoundScans(f)' = RoundScans(f) \cup
           (IF phase = "rounds" /\ f = Addr THEN {Len(scans) + 1} ELSE {})
<1> DEFINE n == Len(scans) + 1
           e == [addr |-> Addr, phase |-> phase]
           r == [addr |-> f, phase |-> "rounds"]
<1>1. scans' = Append(scans, e) /\ scans \in Seq(ScanRecord) /\ Len(scans) \in Nat
  BY DEF ScanFunction, Typing
<1>2. /\ Len(scans') = n /\ scans'[n] = e
      /\ \A k \in 1..Len(scans) : scans'[k] = scans[k]
  <2> HIDE DEF e
  <2> QED BY <1>1
<1>3. e = r <=> phase = "rounds" /\ f = Addr
  <2>1. e = r => e.addr = r.addr /\ e.phase = r.phase
    BY Zenon
  <2> QED BY <2>1
<1>4. 1..n = 1..Len(scans) \cup {n} /\ n \notin 1..Len(scans)
  BY <1>1
<1> HIDE DEF n, e, r
<1>5. {k \in 1..n : scans'[k] = r} =
        {k \in 1..Len(scans) : scans[k] = r} \cup (IF e = r THEN {n} ELSE {})
  BY <1>2, <1>4
<1> QED BY <1>2, <1>3, <1>5 DEF RoundScans, n, r

LEMMA NextRounds == TwiceInv /\ [Next]_vars => Rounds'
<1> SUFFICES ASSUME TwiceInv, [Next]_vars PROVE Rounds'
  OBVIOUS
<1> USE DEF TwiceInv
<1>1. ASSUME NEW f PROVE Cardinality(RoundScans(f)) \in Nat /\ IsFiniteSet(RoundScans(f))
  BY RoundScansFacts
<1>2. ASSUME scans' = scans, NEW f PROVE RoundScans(f)' = RoundScans(f)
  BY <1>2 DEF RoundScans
<1>3. CASE ScanFunction
  <2>1. /\ source # <<>> /\ ~Skipped /\ current' = current \cup Pushed(Addr)
        /\ processed' = IF phase = "rounds" THEN processed \cup {Addr} ELSE processed
        /\ source' = Tail(source) /\ phase' = phase
    BY <1>3 DEF ScanFunction
  <2>2. Addr \in Funcs
    BY <2>1, SourceFacts
  <2>3. \A f \in processed : f \notin Pushed(Addr)
    BY DEF Pushed
  <2>4. ElementsOf(source) = {Head(source)} \cup ElementsOf(source')
    BY <2>1, SourceFacts
  <2>5. phase = "rounds" =>
          /\ \A a, b \in 1..Len(source') : source'[a] = source'[b] => a = b
          /\ Addr = Head(source) /\ Addr \notin ElementsOf(source')
    <3> SUFFICES ASSUME phase = "rounds"
                 PROVE  /\ \A a, b \in 1..Len(source') : source'[a] = source'[b] => a = b
                        /\ Addr = Head(source) /\ Addr \notin ElementsOf(source')
      OBVIOUS
    <3>1. source \in Seq(Funcs) /\ \A a, b \in 1..Len(source) : source[a] = source[b] => a = b
      BY DEF Typing, Rounds
    <3>2. /\ \A a, b \in 1..Len(Tail(source)) : Tail(source)[a] = Tail(source)[b] => a = b
          /\ Head(source) \notin ElementsOf(Tail(source))
      BY ONLY <2>1, <3>1, ElementsOfTail
    <3>3. Addr = Head(source)
      BY DEF Addr
    <3> QED BY <2>1, <3>2, <3>3
  <2>6. ASSUME NEW f \in Funcs
        PROVE  /\ f \notin processed' => RoundScans(f)' = {}
               /\ f \in processed' => Due(f)' <= 2
    <3>1. CASE phase = "rounds" /\ f = Addr
      <4>1. RoundScans(f)' = RoundScans(f) \cup {Len(scans) + 1}
        BY <1>3, <3>1, ScanCounts
      <4>2. Len(scans) + 1 \notin RoundScans(f)
        BY DEF RoundScans, Typing
      <4>3. Cardinality(RoundScans(f)') = Cardinality(RoundScans(f)) + 1
        BY <1>1, <4>1, <4>2, FS_AddElement
      <4>4. f \in processed'
        BY <2>1, <3>1
      <4>5. CASE f \in processed
        <5>1. f \in ElementsOf(source) /\ f \notin ElementsOf(source')
          BY <2>4, <2>5, <3>1
        <5>2. f \in current' <=> f \in current
          BY <2>1, <2>3, <4>5
        <5>3. Due(f) <= 2
          BY <4>5 DEF Rounds
        <5> QED BY <1>1, <2>1, <3>1, <4>3, <4>4, <5>1, <5>2, <5>3 DEF Due
      <4>6. CASE f \notin processed
        <5>1. Cardinality(RoundScans(f)) = 0
          BY <4>6, FS_EmptySet DEF Rounds
        <5>2. f \notin ElementsOf(source')
          BY <2>5, <3>1
        <5> QED BY <4>3, <4>4, <5>1, <5>2 DEF Due
      <4> QED BY <4>5, <4>6
    <3>2. CASE ~(phase = "rounds" /\ f = Addr)
      <4>1. RoundScans(f)' = RoundScans(f)
        BY <1>3, <3>2, ScanCounts
      <4>2. f \in processed' <=> f \in processed
        BY <2>1, <3>2
      <4>3. CASE f \notin processed
        BY <4>1, <4>2, <4>3 DEF Rounds
      <4>4. CASE f \in processed
        <5>1. f \in current' <=> f \in current
          BY <2>1, <2>3, <4>4
        <5>2. f \in ElementsOf(source') => f \in ElementsOf(source)
          BY <2>4
        <5>3. Due(f) <= 2
          BY <4>4 DEF Rounds
        <5>4. Cardinality(RoundScans(f)') = Cardinality(RoundScans(f))
          BY <4>1
        <5>5. Due(f)' <= 2
          BY <1>1, <2>1, <5>1, <5>2, <5>3, <5>4 DEF Due
        <5> QED BY <4>2, <4>4, <5>5
      <4> QED BY <4>3, <4>4
    <3> QED BY <3>1, <3>2
  <2> QED BY <2>1, <2>5, <2>6 DEF Rounds
<1>4. CASE Exchange
  <2>1. /\ source = <<>> /\ phase' = "rounds" /\ source' = Sorted(current) /\ current' = {}
        /\ UNCHANGED <<processed, scans>>
    BY <1>4 DEF Exchange
  <2>2. /\ \A a, b \in 1..Len(source') : source'[a] = source'[b] => a = b
        /\ ElementsOf(source') = current
    <3>1. current \in SUBSET Funcs /\ IsFiniteSet(current)
      BY DEF Typing
    <3> QED BY ONLY <2>1, <3>1, SortedProperties
  <2>3. ASSUME NEW f \in Funcs
        PROVE  /\ f \notin processed' => RoundScans(f)' = {}
               /\ f \in processed' => Due(f)' <= 2
    <3>1. RoundScans(f)' = RoundScans(f)
      BY <1>2, <2>1
    <3>2. CASE f \notin processed
      BY <2>1, <3>1, <3>2 DEF Rounds
    <3>3. CASE f \in processed
      <4>1. Due(f) <= 2
        BY <3>3 DEF Rounds
      <4>2. Due(f)' = Cardinality(RoundScans(f)) + (IF f \in current THEN 1 ELSE 0)
        BY <1>1, <2>1, <2>2, <3>1 DEF Due
      <4> QED BY <1>1, <2>1, <3>3, <4>1, <4>2 DEF Due
    <3> QED BY <3>2, <3>3
  <2> QED BY <2>1, <2>2, <2>3 DEF Rounds
<1>5. CASE NextFile
  <2>1. scans' = <<>> /\ phase' = "pdata" /\ processed' = {}
    BY <1>5 DEF NextFile, Begin
  <2>2. \A f \in Funcs : RoundScans(f)' = {}
    BY <2>1 DEF RoundScans
  <2> QED BY <2>1, <2>2 DEF Rounds
<1>6. ASSUME UNCHANGED <<scans, processed, current>>, phase' = "rounds" => UNCHANGED <<phase, source>>
      PROVE  Rounds'
  <2>1. ASSUME NEW f \in Funcs
        PROVE  /\ f \notin processed' => RoundScans(f)' = {}
               /\ f \in processed' => Due(f)' <= 2
    <3>1. RoundScans(f)' = RoundScans(f)
      BY <1>2, <1>6
    <3>2. CASE f \notin processed
      BY <1>6, <3>1, <3>2 DEF Rounds
    <3>3. CASE f \in processed
      <4>1. Due(f) <= 2
        BY <3>3 DEF Rounds
      <4>2. Cardinality(RoundScans(f)') = Cardinality(RoundScans(f))
        BY <3>1
      <4>3. phase' = "rounds" /\ f \in ElementsOf(source') => phase = "rounds" /\ f \in ElementsOf(source)
        BY <1>6
      <4> QED BY <1>1, <1>6, <3>3, <4>1, <4>2, <4>3 DEF Due
    <3> QED BY <3>2, <3>3
  <2> QED BY <1>6, <2>1 DEF Rounds
<1>7. CASE SkipExport \/ ExportsLoop
  BY <1>6, <1>7 DEF SkipExport, ExportsLoop, Skipped, holder
<1>8. CASE Return \/ SkipFile \/ UNCHANGED vars
  BY <1>6, <1>8 DEF Return, SkipFile, vars, holder
<1> QED BY <1>3, <1>4, <1>5, <1>7, <1>8 DEF Next, Step, Done

THEOREM Invariance == Spec => []TwiceInv
<1>1. Init => TwiceInv
  <2> SUFFICES ASSUME Init PROVE Rounds
    BY InitTyping DEF TwiceInv
  <2>1. scans = <<>> /\ phase = "pdata" /\ processed = {}
    BY DEF Init
  <2>2. \A f \in Funcs : RoundScans(f) = {}
    BY <2>1 DEF RoundScans
  <2> QED BY <2>1, <2>2 DEF Rounds
<1>2. TwiceInv /\ [Next]_vars => TwiceInv'
  BY NextTyping, NextRounds DEF TwiceInv
<1> QED BY <1>1, <1>2, PTL DEF Spec

(* Functions that call themselves or each other are scanned again, but     *)
(* never a third time in the rounds of one search.                         *)
THEOREM ScannedTwice == Spec => []DiscoveredScannedTwiceAtMost
<1>1. TwiceInv => DiscoveredScannedTwiceAtMost
  <2> SUFFICES ASSUME TwiceInv, NEW s \in ElementsOf(scans)
               PROVE  Cardinality(RoundScans(s.addr)) <= 2
    BY DEF DiscoveredScannedTwiceAtMost, RoundScans
  <2>1. s.addr \in Funcs
    <3>1. s \in ScanRecord
      BY DEF TwiceInv, Typing, ElementsOf
    <3> QED BY <3>1 DEF ScanRecord
  <2> DEFINE f == s.addr
  <2>2. Cardinality(RoundScans(f)) \in Nat
    BY RoundScansFacts DEF TwiceInv
  <2> HIDE DEF f
  <2>3. CASE f \in processed
    <3>1. Due(f) <= 2
      BY <2>1, <2>3 DEF TwiceInv, Rounds, f
    <3> QED BY <2>2, <3>1 DEF Due, f
  <2>4. CASE f \notin processed
    <3>1. RoundScans(f) = {}
      BY <2>1, <2>4 DEF TwiceInv, Rounds, f
    <3>2. Cardinality(RoundScans(f)) = 0
      BY <3>1, FS_EmptySet
    <3> QED BY <3>2 DEF f
  <2> QED BY <2>3, <2>4
<1> QED BY <1>1, Invariance, PTL

-----------------------------------------------------------------------------
LEMMA SameElements == \A s : Search!Elems(s) = ElementsOf(s)
  BY DEF Search!Elems, ElementsOf

(* A call of what was scanned is discovered unless .pdata lists it.        *)
LEMMA DiscoveredCallee ==
  ASSUME NEW done, NEW g \in done, NEW f \in ElementsOf(target.calls[g])
  PROVE  f \in Pdata \cup Search!Discovered(target, done)
<1>1. f \in UNION {Search!Elems(target.calls[h]) : h \in done}
  BY SameElements
<1> QED BY <1>1, SameElements DEF Search!Discovered, Search!Pdata, Pdata

LEMMA DiscoveredGrows ==
  ASSUME NEW mod, NEW less, NEW more, less \subseteq more
  PROVE  Search!Discovered(mod, less) \subseteq Search!Discovered(mod, more)
  BY DEF Search!Discovered

LEMMA ScannedGrows ==
  ASSUME Typing, ScanFunction
  PROVE  Scanned' = Scanned \cup {Addr}
<1> DEFINE e == [addr |-> Addr, phase |-> phase]
<1>1. e \in ScanRecord /\ scans' = Append(scans, e) /\ scans \in Seq(ScanRecord)
  BY SourceFacts DEF ScanFunction, Typing, ScanRecord
<1>2. ElementsOf(scans') = ElementsOf(scans) \cup {e}
  <2> HIDE DEF e
  <2> QED BY ONLY <1>1, ElementsOfAppend
<1>3. e.addr = Addr
  OBVIOUS
<1> HIDE DEF e
<1> QED BY <1>2, <1>3 DEF Scanned

LEMMA InitPromise == Init => Promise
<1> SUFFICES ASSUME Init PROVE Promise
  OBVIOUS
<1>1. /\ phase = "pdata" /\ source = target.pdata /\ current = {} /\ processed = {}
      /\ scans = <<>> /\ outRes = <<>> /\ returned = FALSE
  BY DEF Init
<1>2. Scanned = {} /\ ElementsOf(source) = Pdata /\ ElementsOf(outRes) = {}
  BY <1>1 DEF Scanned, ElementsOf, Pdata
<1>3. OnlyWanted /\ NothingForgotten /\ Hits
  BY <1>1, <1>2 DEF OnlyWanted, NothingForgotten, Hits
<1> QED BY <1>1, <1>3 DEF Promise

(* Each function handed out is scanned with all its calls pushed; nothing  *)
(* else adds to the sets of the search.                                    *)
LEMMA ScanKeepsPromise == Typing /\ Promise /\ ScanFunction => Promise'
<1> SUFFICES ASSUME Typing, Promise, ScanFunction PROVE Promise'
  OBVIOUS
<1> DEFINE Discovered == Search!Discovered(target, Scanned)
           Rest == ElementsOf(source)
<1>1. /\ ~returned /\ source # <<>> /\ ~Skipped /\ current' = current \cup Pushed(Addr)
      /\ outRes' = IF Addr \in target.refs THEN Append(outRes, Addr) ELSE outRes
      /\ processed' = IF phase = "rounds" THEN processed \cup {Addr} ELSE processed
      /\ source' = Tail(source) /\ UNCHANGED <<gCE, target, phase, returned>>
  BY DEF ScanFunction
<1>2. Scanned' = Scanned \cup {Addr} /\ Addr \in Funcs
  BY <1>1, ScannedGrows, SourceFacts
<1>3. Rest = {Head(source)} \cup ElementsOf(source')
  BY <1>1, SourceFacts
<1>4. Discovered \subseteq Discovered'
  BY <1>1, <1>2, DiscoveredGrows
<1>5. Pushed(Addr) \subseteq Discovered'
  <2> SUFFICES ASSUME NEW c \in Pushed(Addr) PROVE c \in Discovered'
    OBVIOUS
  <2>1. c \in ElementsOf(target.calls[Addr]) /\ c \notin Pdata
    BY DEF Pushed, Pdata
  <2> QED BY <1>1, <1>2, <2>1, DiscoveredCallee
<1> HIDE DEF Scanned, Discovered
<1>6. OnlyWanted'
  <2>1. /\ phase' = "pdata" => ElementsOf(source') \subseteq Pdata'
        /\ phase' = "exports" =>
             /\ ElementsOf(source') \subseteq ElementsOf(target'.exports)
             /\ source' # <<>> => gCE'
    BY <1>1, <1>3 DEF Promise, OnlyWanted, Pdata
  <2>2. phase' = "rounds" => ElementsOf(source') \subseteq Discovered'
    BY <1>1, <1>3, <1>4 DEF Promise, OnlyWanted, Discovered
  <2>3. current' \subseteq Discovered'
    BY <1>1, <1>4, <1>5 DEF Promise, OnlyWanted, Discovered
  <2>4. processed' \subseteq Scanned'
    BY <1>1, <1>2 DEF Promise, OnlyWanted
  <2> QED BY <2>1, <2>2, <2>3, <2>4 DEF OnlyWanted, Discovered
<1>7. NothingForgotten'
  <2>1. phase # "exports" => Addr = Head(source)
    BY DEF Addr
  <2>2. phase = "exports" => Addr = Head(source).rva
    BY DEF Addr
  <2>3. \A f \in Pdata' :
          f \in Scanned' \/ (phase' = "pdata" /\ f \in ElementsOf(source'))
    BY <1>1, <1>2, <1>3, <2>1 DEF Promise, NothingForgotten, Pdata
  <2>4. gCE' => \A e \in ElementsOf(target'.exports) : e.code =>
          \/ e.rva \in Scanned' \/ phase' = "pdata"
          \/ phase' = "exports" /\ e \in ElementsOf(source')
    BY <1>1, <1>2, <1>3, <2>2 DEF Promise, NothingForgotten
  <2>5. ASSUME NEW f \in Scanned', NEW c \in ElementsOf(target.calls[f])
        PROVE  \/ c \in Pdata \cup Scanned' \cup current'
               \/ phase' = "rounds" /\ c \in ElementsOf(source')
    <3>1. CASE f \in Scanned
      BY <1>1, <1>2, <1>3, <2>1, <3>1 DEF Promise, NothingForgotten
    <3>2. CASE f = Addr
      <4>1. c \in Pdata \/ c \in processed \/ c \in Pushed(Addr)
        BY <3>2 DEF Pushed, Pdata
      <4> QED BY <1>1, <1>2, <4>1 DEF Promise, OnlyWanted
    <3> QED BY <1>2, <3>1, <3>2
  <2>6. Pdata' = Pdata
    BY <1>1 DEF Pdata
  <2> QED BY <1>1, <2>3, <2>4, <2>5, <2>6 DEF NothingForgotten
<1>8. Hits'
  <2>1. ElementsOf(outRes') = ElementsOf(outRes) \cup ({Addr} \cap target.refs)
    <3>1. outRes \in Seq(Funcs)
      BY DEF Typing
    <3>2. CASE Addr \in target.refs
      BY <1>1, <1>2, <3>1, <3>2, ElementsOfAppend
    <3>3. CASE Addr \notin target.refs
      BY <1>1, <3>3
    <3> QED BY <3>2, <3>3
  <2> QED BY <1>1, <1>2, <2>1 DEF Promise, Hits
<1> QED BY <1>1, <1>6, <1>7, <1>8 DEF Promise

LEMMA NextPromise == Typing /\ Promise /\ [Next]_vars => Promise'
<1> SUFFICES ASSUME Typing, Promise, [Next]_vars PROVE Promise'
  OBVIOUS
<1>1. ASSUME UNCHANGED <<target, gCE, scans, outRes>>
      PROVE  Scanned' = Scanned /\ Pdata' = Pdata /\ Hits'
  BY <1>1 DEF Scanned, Pdata, Promise, Hits
<1> USE DEF holder
<1>2. CASE ScanFunction
  BY <1>2, ScanKeepsPromise
<1>3. CASE SkipExport
  <2>1. /\ ~returned /\ source # <<>> /\ phase = "exports" /\ source' = Tail(source)
        /\ ~Head(source).code \/ Head(source).rva \in processed
        /\ UNCHANGED <<gCE, target, phase, current, processed, scans, outRes, returned>>
    BY <1>3 DEF SkipExport, Skipped, Addr
  <2>2. ElementsOf(source) = {Head(source)} \cup ElementsOf(source')
    BY <2>1, SourceFacts
  <2> HIDE DEF Scanned, Pdata
  <2> QED BY <1>1, <2>1, <2>2 DEF Promise, OnlyWanted, NothingForgotten
<1>4. CASE ExportsLoop
  <2>1. /\ ~returned /\ source = <<>> /\ phase = "pdata" /\ phase' = "exports"
        /\ source' = IF gCE THEN target.exports ELSE <<>>
        /\ UNCHANGED <<gCE, target, current, processed, scans, outRes, returned>>
    BY <1>4 DEF ExportsLoop
  <2>2. ElementsOf(<<>>) = {}
    BY DEF ElementsOf
  <2> HIDE DEF Scanned, Pdata
  <2> QED BY <1>1, <2>1, <2>2 DEF Promise, OnlyWanted, NothingForgotten
<1>5. CASE Exchange
  <2>1. /\ ~returned /\ source = <<>> /\ phase # "pdata" /\ phase' = "rounds"
        /\ source' = Sorted(current) /\ current' = {}
        /\ UNCHANGED <<gCE, target, processed, scans, outRes, returned>>
    BY <1>5 DEF Exchange
  <2>2. ElementsOf(<<>>) = {}
    BY DEF ElementsOf
  <2>3. ElementsOf(source') = current
    BY <2>1, SortedProperties DEF Typing
  <2> HIDE DEF Scanned, Pdata
  <2> QED BY <1>1, <2>1, <2>2, <2>3 DEF Promise, OnlyWanted, NothingForgotten
<1>6. CASE Return
  <2>1. /\ source = <<>> /\ phase # "pdata" /\ current = {}
        /\ UNCHANGED <<gCE, target, phase, source, current, processed, scans, outRes>>
    BY <1>6 DEF Return
  <2> HIDE DEF Scanned, Pdata
  <2> QED BY <1>1, <2>1 DEF Promise, OnlyWanted, NothingForgotten
<1>7. CASE NextFile
  <2>1. /\ phase' = "pdata" /\ source' = target'.pdata /\ current' = {} /\ processed' = {}
        /\ scans' = <<>> /\ outRes' = <<>> /\ returned' = FALSE
    BY <1>7 DEF NextFile, Begin
  <2>2. Scanned' = {} /\ ElementsOf(source') = Pdata' /\ ElementsOf(outRes') = {}
    BY <2>1 DEF Scanned, ElementsOf, Pdata
  <2> HIDE DEF Scanned
  <2>3. OnlyWanted' /\ NothingForgotten' /\ Hits'
    BY <2>1, <2>2 DEF OnlyWanted, NothingForgotten, Hits
  <2> QED BY <2>1, <2>3 DEF Promise
<1>8. CASE SkipFile \/ UNCHANGED vars
  <2>1. UNCHANGED <<gCE, target, phase, source, current, processed, scans, outRes, returned>>
    BY <1>8 DEF SkipFile, vars
  <2> HIDE DEF Scanned, Pdata
  <2> QED BY <1>1, <2>1 DEF Promise, OnlyWanted, NothingForgotten
<1> QED BY <1>2, <1>3, <1>4, <1>5, <1>6, <1>7, <1>8 DEF Next, Step, Done

(* A step of the loops scans a function of the promise, begins or ends a   *)
(* search, or is invisible to the caller.                                  *)
LEMMA StepRefines ==
  ASSUME Typing, Promise, [Next]_vars
  PROVE  [Search!Next]_(Search!xvars)
<1>1. CASE ScanFunction
  <2>1. /\ ~returned /\ source # <<>> /\ ~Skipped
        /\ outRes' = IF Addr \in target.refs THEN Append(outRes, Addr) ELSE outRes
        /\ UNCHANGED <<gCE, target, phase, returned>>
    BY <1>1 DEF ScanFunction
  <2>2. Scanned' = Scanned \cup {Addr} /\ Addr \in Funcs
    BY <1>1, <2>1, ScannedGrows, SourceFacts
  <2>3. ElementsOf(outRes') = Scanned' \cap target.refs
    BY <2>1, NextPromise DEF Promise, Hits
  <2>4. ElementsOf(outRes') = ElementsOf(outRes) \cup ({Addr} \cap target.refs)
    BY <2>2, <2>3 DEF Promise, Hits
  <2>5. Addr \in Search!Wanted(target, gCE, Scanned)
    <3>1. Head(source) \in ElementsOf(source)
      BY <2>1, SourceFacts
    <3>2. CASE phase = "pdata"
      BY <3>1, <3>2, SameElements
      DEF Addr, Promise, OnlyWanted, Pdata, Search!Wanted, Search!Roots, Search!Pdata
    <3>3. CASE phase = "exports"
      <4>1. gCE /\ Head(source) \in ElementsOf(target.exports) /\ Head(source).code
        BY <2>1, <3>1, <3>3 DEF Skipped, Promise, OnlyWanted
      <4>2. Head(source).rva \in Search!CodeExports(target)
        BY <4>1, SameElements DEF Search!CodeExports
      <4> QED BY <3>3, <4>1, <4>2 DEF Addr, Search!Wanted, Search!Roots
    <3>4. CASE phase = "rounds"
      BY <3>1, <3>4 DEF Addr, Promise, OnlyWanted, Search!Wanted
    <3> QED BY <3>2, <3>3, <3>4 DEF Typing, Phases
  <2>6. Search!Scan
    BY <2>1, <2>2, <2>4, <2>5 DEF Search!Scan, Scanned
  <2> QED BY <2>6 DEF Search!Next
<1>2. CASE Return
  <2>1. /\ ~returned /\ source = <<>> /\ phase # "pdata" /\ current = {} /\ returned' = TRUE
        /\ UNCHANGED <<gCE, target, scans, outRes>>
    BY <1>2 DEF Return
  <2>2. ElementsOf(source) = {}
    BY <2>1 DEF ElementsOf
  <2>3. Search!Wanted(target, gCE, Scanned) \subseteq Scanned
    <3>1. Pdata \subseteq Scanned
      BY <2>1 DEF Promise, NothingForgotten
    <3>2. Search!Pdata(target) \subseteq Scanned
      BY <3>1, SameElements DEF Pdata, Search!Pdata
    <3>3. gCE => Search!CodeExports(target) \subseteq Scanned
      BY <2>1, <2>2, SameElements DEF Promise, NothingForgotten, Search!CodeExports
    <3>4. ASSUME NEW f \in Search!Discovered(target, Scanned) PROVE f \in Scanned
      <4>1. PICK g \in Scanned : f \in Search!Elems(target.calls[g])
        BY <3>4 DEF Search!Discovered
      <4>2. f \in ElementsOf(target.calls[g])
        BY <4>1, SameElements
      <4> QED BY <2>1, <2>2, <3>1, <4>2 DEF Promise, NothingForgotten
    <3> QED BY <3>2, <3>3, <3>4 DEF Search!Wanted, Search!Roots
  <2>4. ElementsOf(outRes) = Scanned \cap target.refs
    BY DEF Promise, Hits
  <2>5. Search!Finish
    BY <2>1, <2>3, <2>4 DEF Search!Finish, Scanned
  <2> QED BY <2>5 DEF Search!Next
<1>3. CASE NextFile
  <2>1. /\ returned /\ target' \in Modules /\ scans' = <<>> /\ outRes' = <<>> /\ returned' = FALSE
    BY <1>3 DEF NextFile, Begin, Typing
  <2>2. gCE' \in BOOLEAN
    BY NextTyping DEF Typing
  <2>3. ElementsOf(scans') = {} /\ ElementsOf(outRes') = {}
    BY <2>1 DEF ElementsOf
  <2>4. Search!NextModule
    BY <2>1, <2>2, <2>3 DEF Search!NextModule
  <2> QED BY <2>4 DEF Search!Next
<1>4. CASE UNCHANGED <<target, gCE, scans, outRes, returned>>
  BY <1>4 DEF Search!xvars
<1> QED
  BY <1>1, <1>2, <1>3, <1>4
  DEF Next, Step, Done, vars, SkipExport, ExportsLoop, Exchange, SkipFile

(* Whatever the order of the work sets and however often a function is     *)
(* scanned, each search of the command line scans what it promises,        *)
(* reports all hits and nothing else, and returns only then.               *)
THEOREM SearchRefinement == Spec => ImplementsXrefSearch
<1>1. Init => Search!Init
  <2> SUFFICES ASSUME Init PROVE Search!Init
    OBVIOUS
  <2>1. target \in Modules /\ gCE \in BOOLEAN
    BY InitTyping DEF Typing
  <2>2. scans = <<>> /\ outRes = <<>> /\ returned = FALSE
    BY DEF Init
  <2> QED BY <2>1, <2>2 DEF Search!Init, ElementsOf
<1>2. Spec => [](Typing /\ Promise)
  BY InitTyping, NextTyping, InitPromise, NextPromise, PTL DEF Spec
<1>3. Typing /\ Promise /\ [Next]_vars => [Search!Next]_(Search!xvars)
  BY StepRefines
<1> QED BY <1>1, <1>2, <1>3, PTL DEF Spec, Search!Spec, ImplementsXrefSearch
=============================================================================
