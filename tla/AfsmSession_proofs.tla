-------------------------- MODULE AfsmSession_proofs --------------------------
(***************************************************************************)
(* Theorems about AfsmSession, for every rule file.                        *)
(*                                                                         *)
(* The text of the file is fixed.  First come facts about it: to which     *)
(* rule a line belongs, and what reading one more line changes.  Then one  *)
(* invariant per question: what the reader holds of the rule it is in      *)
(* (Written), whether a rule is plain (Unnumbered), which function the     *)
(* symbol stands for (Selected), what was applied (Logged).                *)
(***************************************************************************)
EXTENDS AfsmSession, ProofLemmas, SequenceTheorems

(* The names in the files.                                                 *)
Names == {""} \cup UNION {{f[p].arg : p \in DOMAIN f} : f \in Files}

PathItem == [type : ItemTypes, name : Names, stg : Nat, reg : Int, value : Int,
             at : Int, wait : BOOLEAN]
PathEdge == [type : {"none", "entry"}, rule : Nat, fpoi : Nat,
             list : Seq(PathItem), scan : Seq(PathItem)]
FoundXref == [exported : Names, section : Names, yara : Names, stg : Nat, ord : Nat]
KeptRule == [path : PathEdge, nth : Nat]
Function == [kind : SelectorWords \cup {"ordinal"}, name : Names, n : Nat]
Application == [rule : Nat, by : Nat, type : {"none", "entry"}, target : Function]

Phases == {"read", "apply", "scan", "loops", "over"}

TypeOK ==
  /\ file \in Files
  /\ pos \in Nat /\ pos \in 1..(Len(file) + 1)
  /\ phase \in Phases
  /\ mState \in 0..5
  /\ item \in PathItem
  /\ symbol \in FoundXref
  /\ path \in PathEdge
  /\ DOMAIN rules \subseteq Nat /\ rules \in [DOMAIN rules -> KeptRule]
  /\ results \subseteq DOMAIN rules
  /\ strayOrd \in StrayOrds
  /\ nth \in Nat
  /\ log \in Seq(Application)

-----------------------------------------------------------------------------
(* The text                                                                *)
Counted == nth = Cardinality({q \in Sections : q < pos})

(* The line in curr begins a rule, or there is none.                       *)
AtBreak == pos > Len(file) \/ file[pos].word = "section"

(* The item lines of the rule that were read.                              *)
Read == {p \in Items(nth) : p < pos}

LEMMA FileFits ==
  ASSUME TypeOK
  PROVE  /\ file \in Seq(Line) /\ Len(file) \in Nat /\ DOMAIN file = 1..Len(file)
         /\ \A p \in DOMAIN file : file[p] \in Line /\ p \in Nat
         /\ pos \in Nat /\ nth \in Nat
         /\ pos <= Len(file) => pos \in DOMAIN file
<1>1. file \in Seq(Line) /\ pos \in 1..(Len(file) + 1) /\ pos \in Nat /\ nth \in Nat
  BY AfsmSessionAssumption DEF TypeOK, AfsmSessionAssumption
<1> QED BY <1>1

(* Sets of lines are finite.                                               *)
LEMMA LinesAreFinite ==
  ASSUME TypeOK, NEW S \in SUBSET DOMAIN file
  PROVE  IsFiniteSet(S) /\ Cardinality(S) \in Nat
<1>1. IsFiniteSet(DOMAIN file)
  BY FileFits, FS_Interval
<1>2. IsFiniteSet(S)
  BY <1>1, FS_Subset
<1> QED BY <1>2, FS_CardinalityType

LEMMA MoreLines ==
  ASSUME TypeOK, NEW S \in SUBSET DOMAIN file, NEW T \in SUBSET S
  PROVE  Cardinality(T) <= Cardinality(S)
BY LinesAreFinite, FS_Subset

LEMMA OneMoreLine ==
  ASSUME TypeOK, NEW S \in SUBSET DOMAIN file, NEW p \in DOMAIN file, p \notin S
  PROVE  Cardinality(S \cup {p}) = Cardinality(S) + 1
BY LinesAreFinite, FS_AddElement

LEMMA RulesAscend ==
  ASSUME TypeOK, NEW p \in Nat, NEW q \in Nat, p <= q
  PROVE  RuleOf(p) \in Nat /\ RuleOf(q) \in Nat /\ RuleOf(p) <= RuleOf(q)
<1> DEFINE S == {r \in Sections : r <= p}
           T == {r \in Sections : r <= q}
<1>1. S \in SUBSET DOMAIN file /\ T \in SUBSET DOMAIN file
  BY DEF Sections
<1>2. S \in SUBSET T
  <2>1. \A r \in DOMAIN file : r \in Nat
    BY FileFits
  <2> QED BY <2>1 DEF Sections
<1> HIDE DEF S, T
<1>3. Cardinality(S) \in Nat /\ Cardinality(T) \in Nat /\ Cardinality(S) <= Cardinality(T)
  BY <1>1, <1>2, LinesAreFinite, MoreLines
<1> QED BY <1>3 DEF S, T, RuleOf

(* The rule of the line that is read next.                                 *)
LEMMA RuleHere ==
  ASSUME TypeOK, Counted, pos <= Len(file)
  PROVE  /\ pos \in DOMAIN file
         /\ file[pos].word # "section" => RuleOf(pos) = nth
         /\ file[pos].word = "section" => RuleOf(pos) = nth + 1
         /\ Cardinality({q \in Sections : q < pos + 1}) = RuleOf(pos)
<1> DEFINE S == {q \in Sections : q < pos}
<1>1. pos \in DOMAIN file /\ pos \in Nat /\ \A r \in DOMAIN file : r \in Nat
  BY FileFits
<1>2. {q \in Sections : q <= pos} = {q \in Sections : q < pos + 1}
  BY <1>1 DEF Sections
<1>3. CASE file[pos].word # "section"
  <2>1. {q \in Sections : q <= pos} = S
    BY <1>1, <1>3 DEF Sections
  <2> QED BY <1>1, <1>2, <1>3, <2>1 DEF RuleOf, Counted
<1>4. CASE file[pos].word = "section"
  <2>1. {q \in Sections : q <= pos} = S \cup {pos}
    BY <1>1, <1>4 DEF Sections
  <2>2. S \in SUBSET DOMAIN file /\ pos \notin S
    BY <1>1 DEF Sections
  <2>3. Cardinality(S \cup {pos}) = Cardinality(S) + 1
    BY <1>1, <2>2, OneMoreLine
  <2> QED BY <1>1, <1>2, <1>4, <2>1, <2>3 DEF RuleOf, Counted
<1> QED BY <1>3, <1>4

(* The lines that were read, and those of the rules begun so far when the  *)
(* next one begins.                                                        *)
LEMMA ReadLines ==
  ASSUME TypeOK, Counted, NEW p \in DOMAIN file
  PROVE  /\ RuleOf(p) \in Nat
         /\ p < pos => RuleOf(p) <= nth
         /\ AtBreak /\ RuleOf(p) <= nth => p < pos
<1>1. pos \in Nat /\ p \in Nat /\ p <= Len(file) /\ Len(file) \in Nat
      /\ \A r \in DOMAIN file : r \in Nat
  BY FileFits
<1>2. RuleOf(p) \in Nat
  BY <1>1, RulesAscend
<1>3. ASSUME p < pos PROVE RuleOf(p) <= nth
  <2> DEFINE S == {r \in Sections : r <= p}
             T == {r \in Sections : r < pos}
  <2>1. S \in SUBSET T /\ T \in SUBSET DOMAIN file
    BY <1>1, <1>3 DEF Sections
  <2> HIDE DEF S, T
  <2>2. Cardinality(S) <= Cardinality(T)
    BY <2>1, MoreLines
  <2> QED BY <2>2 DEF S, T, RuleOf, Counted
<1>4. ASSUME AtBreak, RuleOf(p) <= nth, ~(p < pos) PROVE FALSE
  <2>1. pos <= p /\ pos <= Len(file)
    BY <1>1, <1>4
  <2>2. RuleOf(pos) = nth + 1 /\ nth \in Nat
    BY <1>4, <2>1, RuleHere, FileFits DEF AtBreak
  <2>3. RuleOf(pos) <= RuleOf(p)
    BY <1>1, <2>1, RulesAscend
  <2> QED BY <1>2, <1>4, <2>2, <2>3
<1> QED BY <1>2, <1>3, <1>4

(* What the file says does not change while it is read.                    *)
LEMMA SameText ==
  ASSUME file' = file, strayOrd' = strayOrd
  PROVE  /\ \A p : RuleOf(p)' = RuleOf(p) /\ Place(p)' = Place(p)
         /\ \A k : /\ Items(k)' = Items(k) /\ Words(k)' = Words(k)
                   /\ Selectors(k)' = Selectors(k)
                   /\ IsLaidOut(k)' = IsLaidOut(k) /\ IsFresh(k)' = IsFresh(k)
                   /\ IsPlain(k)' = IsPlain(k)
                   /\ IsUndisturbed(k)' = IsUndisturbed(k)
                   /\ \A t : IsOwnType(k, t)' = IsOwnType(k, t)
         /\ Sections' = Sections
<1>1. Sections' = Sections
  BY DEF Sections
<1>2. \A p : RuleOf(p)' = RuleOf(p)
  BY <1>1 DEF RuleOf
<1>3. \A k : /\ Items(k)' = Items(k) /\ Words(k)' = Words(k)
             /\ Selectors(k)' = Selectors(k)
  BY <1>2 DEF Items, Words, Selectors
<1>4. \A p : Place(p)' = Place(p)
  BY <1>2, <1>3 DEF Place
<1>5. \A k : IsLaidOut(k)' = IsLaidOut(k) /\ IsFresh(k)' = IsFresh(k)
  BY <1>2, <1>3 DEF IsLaidOut, IsFresh
<1>6. \A k : IsPlain(k)' = IsPlain(k)
  BY <1>3, <1>5 DEF IsPlain
<1>7. \A k : /\ IsUndisturbed(k)' = IsUndisturbed(k)
             /\ \A t : IsOwnType(k, t)' = IsOwnType(k, t)
  BY <1>2, <1>3, <1>5 DEF IsUndisturbed, IsOwnType
<1> QED BY <1>1, <1>2, <1>3, <1>4, <1>5, <1>6, <1>7

-----------------------------------------------------------------------------
(* The invariants                                                          *)

(* A rule is read from one section line to the next.                       *)
Phased ==
  /\ mState = 0 => pos = 1 \/ AtBreak
  /\ phase \in {"apply", "scan"} => mState = 0
  /\ pos = 1 => mState = 0 /\ phase \notin {"apply", "scan"}
  /\ mState \in {1, 2, 4} => nth >= 1

(* m_state tells which lines of the rule were read: none but the first     *)
(* keywords at 1, no item before 3 and 5, a scan line at 4 and 5.          *)
HeadsFirst ==
  phase = "read" =>
    /\ mState \in {1, 2, 4} => Read = {}
    /\ mState = 1 =>
         \A q \in DOMAIN file :
           q < pos /\ RuleOf(q) = nth => file[q].word \in {"section", "rule", "fpoi"}
    /\ mState \in {3, 5} => Read # {}
    /\ mState # 0 =>
         (mState \in {4, 5} <=>
            \E q \in DOMAIN file : q < pos /\ RuleOf(q) = nth /\ file[q].word = "scan")

(* All items that were read but the last were pushed.                      *)
Pending(items) ==
  /\ Len(items) + 1 = Cardinality(Read)
  /\ \A p \in Read :
       IF Place(p) <= Len(items) THEN Agrees(items[Place(p)], file[p])
                                 ELSE Agrees(item, file[p])

Written ==
  /\ phase = "read" =>
       /\ mState # 5 => path.scan = <<>>
       /\ mState # 3 => path.list = <<>>
       /\ mState = 3 /\ IsLaidOut(nth) => Pending(path.list)
       /\ mState = 5 /\ IsLaidOut(nth) => Pending(path.scan)
  /\ phase \in {"apply", "scan"} =>
       \/ path.list # <<>> /\ path.scan = <<>>
       \/ path.list = <<>> /\ path.scan # <<>> /\ "scan" \in Words(nth)
  /\ phase = "scan" => path.scan # <<>>
  /\ ItemsAreAsWritten

(* A plain rule is neither kept nor refused.                               *)
Naming == {"rule"} \cup Yara

NamesNothing(items) == \A n \in DOMAIN items : items[n].type \notin Naming

Unnumbered ==
  /\ phase \in {"read", "apply", "scan"} /\ path.rule # 0 =>
       Words(nth) \cap {"rule", "scan"} # {} \/ ~IsFresh(nth)
  /\ phase = "read" /\ mState = 0 => path.rule = 0 /\ path.fpoi = 0
  /\ phase = "read" /\ mState = 3 /\ IsPlain(nth) =>
       NamesNothing(path.list) /\ item.type \notin Naming
  /\ phase = "apply" /\ IsPlain(nth) => NamesNothing(path.list)
  /\ \A n \in DOMAIN rules :
       /\ ~IsPlain(rules[n].nth) /\ rules[n].nth <= nth
       /\ phase = "read" /\ mState = 1 => rules[n].nth < nth

(* What is in m_symbol was spelled by a line.                              *)
ExportIsSpelled ==
  symbol.exported # "" =>
    \E q \in DOMAIN file :
      q < pos /\ file[q].word = "func" /\ file[q].arg = symbol.exported

(* The rule k, with the path p, stands for a function it selects, until    *)
(* a line of a later rule selects another.                                 *)
StandsFor(k, p) ==
  /\ IsUndisturbed(k) /\ IsOwnType(k, p.type)
  /\ \E q \in Selectors(k) : q < pos
  /\ \A q \in DOMAIN file :
       q < pos /\ file[q].word \in SelectorWords => RuleOf(q) <= k
  => \E q \in Selectors(k) : Target(p, symbol) = Spelled(file[q])

Selected ==
  /\ ExportIsSpelled
  /\ symbol.yara # "" =>
       \E q \in DOMAIN file : q < pos /\ file[q].word = "yfunc"
  /\ strayOrd = 0 /\ symbol.ord # 0 =>
       \E q \in DOMAIN file :
         q < pos /\ file[q].word = "func" /\ OrdOf[file[q].arg] # 0
  /\ phase = "read" /\ path.fpoi # 0 /\ IsFresh(nth) =>
       \E q \in DOMAIN file :
         /\ q < pos /\ RuleOf(q) = nth
         /\ file[q].word = "fpoi" /\ file[q].n = path.fpoi
  /\ phase \in {"apply", "scan"} \/ (phase = "read" /\ mState # 0) =>
       StandsFor(nth, path)
  /\ \A n \in DOMAIN rules : StandsFor(rules[n].nth, rules[n].path)

(* A rule is open until it was applied, or done with otherwise.            *)
Open == phase = "apply" \/ (phase = "read" /\ (mState # 0 \/ pos = 1))

Finished ==
  \/ phase = "read" /\ mState = 0 /\ pos # 1
  \/ phase = "over" /\ pos > Len(file)

InOrder ==
  \A i, j \in DOMAIN log :
    i < j /\ IsPlain(log[i].rule) /\ IsPlain(log[j].rule)
      => log[i].rule < log[j].rule

Logged ==
  /\ \A i \in DOMAIN log :
       /\ log[i].rule <= nth
       /\ Open /\ IsPlain(nth) => log[i].rule # nth
  /\ InOrder
  /\ \A k \in 1..nth :
       IsPlain(k) /\ (k < nth \/ Finished) => \E i \in DOMAIN log : log[i].rule = k

Inv ==
  /\ TypeOK /\ Counted /\ Phased /\ HeadsFirst /\ Written /\ Unnumbered
  /\ Selected /\ Logged /\ RuleAppliesToItsOwnFunction

-----------------------------------------------------------------------------
(* What the keyword of an item line writes                                 *)
Entries == [type : ItemTypes, name : {"keep", "clear", "may", "must"},
            stg : {"keep", "prefix", "number"},
            reg : {"keep", "number", "index", "value"}]

LEMMA ConstsAre ==
  /\ Consts = {"const64", "const", "rdata", "guid"}
  /\ \A w \in Consts : ConstType[w] \in {"ldr64_off", "ldr_off", "ldr_rdata", "ldr_guid"}
<1>1. Consts = {"const64", "const", "rdata", "guid"}
  BY DEF Consts, ConstType
<1> QED BY <1>1 DEF ConstType

LEMMA KeywordKinds ==
  /\ "section" \notin ItemWords /\ "section" \notin HeadWords
  /\ \A w \in HeadWords : w \notin ItemWords
BY DEF HeadWords, ItemWords, Sectioned, Explicit, Stored, Indexed, Named, Yara,
       Consts, ConstType

LEMMA ParsedIs ==
  ASSUME NEW w \in ItemWords, NEW t \in ItemTypes
  PROVE  /\ Parsed(w, t) \in Entries
         /\ w \notin {"poi", "call_dimp"} => Parsed(w, t).type = DocumentedType(w)
         /\ w \in Sectioned \cup Explicit \cup Named \cup Yara \cup {"call", "call_dimp"}
              => Parsed(w, t).name \in {"may", "must"}
         /\ w \in Yara \cup {"poi", "check"} => Parsed(w, t).reg = "number"
         /\ w \in Indexed => Parsed(w, t).reg = "index"
         /\ w \in Consts => Parsed(w, t).reg = "value"
         /\ w \in Stored => Parsed(w, t).stg = "number"
         /\ w \in Sectioned \cup Explicit \cup Indexed \cup {"call"}
              => Parsed(w, t).stg = "prefix"
         /\ w \notin {"poi", "check"} \cup Yara => Parsed(w, t).type \notin Naming
<1>0. w \in ItemTypes /\ {"ldr_cookie", "rule", "call_imp"} \subseteq ItemTypes
      /\ (w \in Consts => ConstType[w] \in ItemTypes)
  BY DEF ItemTypes, ItemWords, Named
<1> USE ConstsAre, <1>0 DEF Entries, DocumentedType, Naming, Sectioned, Explicit,
            Stored, Indexed, Named, Yara
<1>1. CASE w \in Sectioned
  <2>1. Parsed(w, t) = [type |-> w, name |-> "may", stg |-> "prefix", reg |-> "keep"]
    BY <1>1 DEF Parsed, Entry
  <2> QED BY <1>1, <2>1
<1>2. CASE w \in Explicit
  <2>1. Parsed(w, t) = [type |-> w, name |-> "must", stg |-> "prefix", reg |-> "keep"]
    BY <1>2 DEF Parsed, Entry
  <2> QED BY <1>2, <2>1
<1>3. CASE w \in Stored
  <2>1. Parsed(w, t) = [type |-> w, name |-> "keep", stg |-> "number", reg |-> "keep"]
    BY <1>3 DEF Parsed, Entry
  <2> QED BY <1>3, <2>1
<1>4. CASE w \in Indexed
  <2>1. Parsed(w, t) = [type |-> w, name |-> "clear", stg |-> "prefix", reg |-> "index"]
    BY <1>4 DEF Parsed, Entry
  <2> QED BY <1>4, <2>1
<1>5. CASE w \in Named
  <2>1. Parsed(w, t) = [type |-> w, name |-> "must", stg |-> "keep", reg |-> "keep"]
    BY <1>5 DEF Parsed, Entry
  <2> QED BY <1>5, <2>1
<1>6. CASE w \in Yara
  <2>1. Parsed(w, t) = [type |-> w, name |-> "must", stg |-> "keep", reg |-> "number"]
    BY <1>6 DEF Parsed, Entry
  <2> QED BY <1>6, <2>1
<1>7. CASE w \in Consts
  <2>1. Parsed(w, t) = [type |-> ConstType[w], name |-> "keep", stg |-> "keep", reg |-> "value"]
    BY <1>7 DEF Parsed, Entry
  <2> QED BY <1>7, <2>1
<1>8. CASE w \in {"call_dimp", "call_icall", "call", "load_cookie", "poi", "check"}
  <2>1. CASE w = "call_dimp"
    <3>1. Parsed(w, t) = [type |-> "call_imp", name |-> "must", stg |-> "keep", reg |-> "keep"]
      BY <2>1 DEF Parsed, Entry
    <3> QED BY <2>1, <3>1
  <2>2. CASE w = "call_icall"
    <3>1. Parsed(w, t) = [type |-> "call_icall", name |-> "keep", stg |-> "keep", reg |-> "keep"]
      BY <2>2 DEF Parsed, Entry
    <3> QED BY <2>2, <3>1
  <2>3. CASE w = "call"
    <3>1. Parsed(w, t) = [type |-> "call", name |-> "may", stg |-> "prefix", reg |-> "keep"]
      BY <2>3 DEF Parsed, Entry
    <3> QED BY <2>3, <3>1
  <2>4. CASE w = "load_cookie"
    <3>1. Parsed(w, t) = [type |-> "ldr_cookie", name |-> "keep", stg |-> "keep", reg |-> "keep"]
      BY <2>4 DEF Parsed, Entry
    <3> QED BY <2>4, <3>1
  <2>5. CASE w = "poi"
    <3>1. Parsed(w, t) = [type |-> t, name |-> "keep", stg |-> "keep", reg |-> "number"]
      BY <2>5 DEF Parsed, Entry
    <3> QED BY <2>5, <3>1
  <2>6. CASE w = "check"
    <3>1. Parsed(w, t) = [type |-> "rule", name |-> "keep", stg |-> "keep", reg |-> "number"]
      BY <2>6 DEF Parsed, Entry
    <3> QED BY <2>6, <3>1
  <2> QED BY <1>8, <2>1, <2>2, <2>3, <2>4, <2>5, <2>6
<1> QED BY <1>1, <1>2, <1>3, <1>4, <1>5, <1>6, <1>7, <1>8 DEF ItemWords

LEMMA FillIs ==
  ASSUME NEW it \in PathItem, NEW line \in Line, line.word \in ItemWords,
         line.arg \in Names
  PROVE  /\ Fill(it, line) \in PathItem
         /\ Fill(it, line).type = Parsed(line.word, it.type).type
         /\ Fill(it, line).wait = it.wait /\ Fill(it, line).at = it.at
         /\ (line.word \in Stored => Number(line) # 0)
            /\ it.wait = line.wait /\ (line.at # NoAt => it.at = line.at)
              => Agrees(Fill(it, line), line)
<1> DEFINE e == Parsed(line.word, it.type)
           f == Fill(it, line)
<1>1. /\ it.type \in ItemTypes /\ line.stg \in Nat
      /\ "" \in Names
      /\ line.n \in Int /\ Number(line) \in Nat /\ Number(line) \in Int
  <2>1. it.type \in ItemTypes
    BY DEF PathItem
  <2>2. "" \in Names
    BY DEF Names
  <2>3. line.n \in Int /\ line.stg \in Nat /\ (line.n # NoNumber => line.n \in Nat)
    BY DEF Line, NoNumber
  <2>4. Number(line) \in Nat /\ Number(line) \in Int
    BY <2>3 DEF Number
  <2> QED BY <2>1, <2>2, <2>3, <2>4
<1>2. e \in Entries
  BY <1>1, ParsedIs
<1>3. /\ f \in PathItem
      /\ f.type = e.type /\ f.wait = it.wait /\ f.at = it.at
      /\ e.name \in {"may", "must"} => f.name = line.arg
      /\ e.reg = "number" => f.reg = Number(line)
      /\ e.reg = "index" => f.reg = line.n
      /\ e.reg = "value" => f.value = line.n
      /\ e.stg = "number" => f.stg = Number(line)
      /\ e.stg = "prefix" => f.stg = line.stg
  <2> DEFINE na == IF e.name = "keep" THEN it.name
                   ELSE IF e.name = "clear" THEN "" ELSE line.arg
             st == IF e.stg = "prefix" THEN line.stg
                   ELSE IF e.stg = "number" THEN Number(line) ELSE it.stg
             re == IF e.reg = "number" THEN Number(line)
                   ELSE IF e.reg = "index" THEN line.n ELSE it.reg
             va == IF e.reg = "value" THEN line.n ELSE it.value
  <2>1. /\ it = [type |-> it.type, name |-> it.name, stg |-> it.stg, reg |-> it.reg,
                 value |-> it.value, at |-> it.at, wait |-> it.wait]
        /\ it.name \in Names /\ it.stg \in Nat /\ it.reg \in Int /\ it.value \in Int
        /\ it.at \in Int /\ it.wait \in BOOLEAN
    BY DEF PathItem
  <2>2. f = [it EXCEPT !.type = e.type, !.name = na, !.stg = st, !.reg = re,
                       !.value = va]
    BY <1>2 DEF Fill, Entries
  <2>3. e.type \in ItemTypes /\ na \in Names /\ st \in Nat /\ re \in Int /\ va \in Int
    <3>1. e.type \in ItemTypes
      BY <1>2 DEF Entries
    <3>2. na \in Names
      BY <1>1, <2>1
    <3>3. st \in Nat
      BY <1>1, <2>1
    <3>4. re \in Int /\ va \in Int
      BY <1>1, <2>1
    <3> QED BY <3>1, <3>2, <3>3, <3>4
  <2> HIDE DEF e, f
  <2> QED BY <2>1, <2>2, <2>3 DEF PathItem
<1>4. ASSUME line.word \in Stored => Number(line) # 0, it.wait = line.wait,
             line.at # NoAt => it.at = line.at
      PROVE  Agrees(f, line)
  <2> HIDE DEF f
  <2>1. line.word \in Stored => Number(line) = line.n
    BY <1>4 DEF Number
  <2>2. e.type = DocumentedType(line.word)
        \/ line.word \in {"poi", "call_dimp"}
    BY <1>1, ParsedIs
  <2>3. line.word \in Sectioned \cup Explicit \cup Named \cup Yara \cup {"call", "call_dimp"}
          => e.name \in {"may", "must"}
    BY <1>1, ParsedIs
  <2>4. /\ line.word \in Yara \cup {"poi", "check"} => e.reg = "number"
        /\ line.word \in Indexed => e.reg = "index"
        /\ line.word \in Consts => e.reg = "value"
        /\ line.word \in Stored => e.stg = "number"
        /\ line.word \in Sectioned \cup Explicit \cup Indexed \cup {"call"}
             => e.stg = "prefix"
    BY <1>1, ParsedIs
  <2> HIDE DEF e
  <2> QED BY <1>3, <1>4, <2>1, <2>2, <2>3, <2>4 DEF Agrees
<1> QED BY <1>3, <1>4

-----------------------------------------------------------------------------
(* What an item line does to the reader                                    *)
Reader == [m : 0..5, item : PathItem, path : PathEdge]

SameHead(p, q) == p.type = q.type /\ p.rule = q.rule /\ p.fpoi = q.fpoi

LEMMA PushIs ==
  ASSUME NEW st \in Reader
  PROVE  /\ Cleared(st.item) \in PathItem
         /\ Append(st.path.list, st.item) \in Seq(PathItem)
         /\ Append(st.path.scan, st.item) \in Seq(PathItem)
         /\ PushList(st) \in Reader /\ PushList(st).m = st.m
         /\ PushScan(st) \in Reader /\ PushScan(st).m = st.m
         /\ SameHead(PushList(st).path, st.path) /\ SameHead(PushScan(st).path, st.path)
         /\ PushList(st).path.list =
              IF st.m = 3 THEN Append(st.path.list, st.item) ELSE st.path.list
         /\ PushList(st).path.scan = st.path.scan
         /\ PushScan(st).path.scan =
              IF st.m = 5 THEN Append(st.path.scan, st.item) ELSE st.path.scan
         /\ PushScan(st).path.list = st.path.list
<1>1. /\ st.m \in 0..5 /\ st.item \in PathItem /\ st.path \in PathEdge
      /\ st.path.list \in Seq(PathItem) /\ st.path.scan \in Seq(PathItem)
  BY DEF Reader, PathEdge
<1>2. Cleared(st.item) \in PathItem
  <2>1. "" \in Names
    BY DEF Names
  <2>2. ASSUME NEW it \in PathItem, NEW none \in Names
        PROVE  [it EXCEPT !.at = 0, !.reg = 0, !.name = none] \in PathItem
    <3>1. [it EXCEPT !.at = 0] \in PathItem
      BY DEF PathItem
    <3>2. \A i \in PathItem : [i EXCEPT !.reg = 0] \in PathItem
      BY DEF PathItem
    <3>3. \A i \in PathItem : [i EXCEPT !.name = none] \in PathItem
      BY DEF PathItem
    <3>4. [it EXCEPT !.at = 0, !.reg = 0, !.name = none]
            = [[[it EXCEPT !.at = 0] EXCEPT !.reg = 0] EXCEPT !.name = none]
      BY DEF PathItem
    <3> QED BY <3>1, <3>2, <3>3, <3>4
  <2> QED BY <1>1, <2>1, <2>2 DEF Cleared
<1>3. Append(st.path.list, st.item) \in Seq(PathItem)
      /\ Append(st.path.scan, st.item) \in Seq(PathItem)
  BY <1>1
<1>4. CASE st.m = 3
  <2>1. PushScan(st) = st
    BY <1>4 DEF PushScan
  <2> DEFINE l == Append(st.path.list, st.item)
             c == Cleared(st.item)
             p == [st.path EXCEPT !.list = l]
  <2>2. PushList(st) = [st EXCEPT !.path.list = l, !.item = c]
    BY <1>4 DEF PushList
  <2>3. p \in PathEdge /\ p.list = l /\ p.scan = st.path.scan /\ SameHead(p, st.path)
    <3> HIDE DEF l
    <3> QED BY <1>1, <1>3 DEF PathEdge, SameHead, l
  <2>4. PushList(st) = [st EXCEPT !.path = p, !.item = c]
    <3> HIDE DEF l, c
    <3> QED BY <2>2 DEF Reader
  <2> HIDE DEF p, l, c
  <2>5. PushList(st) \in Reader /\ PushList(st).m = st.m /\ PushList(st).path = p
    BY <1>1, <1>2, <2>3, <2>4 DEF Reader, c
  <2> QED BY <1>1, <1>2, <1>3, <1>4, <2>1, <2>3, <2>5 DEF l, SameHead
<1>5. CASE st.m = 5
  <2>1. PushList(st) = st
    BY <1>5 DEF PushList
  <2> DEFINE l == Append(st.path.scan, st.item)
             c == Cleared(st.item)
             p == [st.path EXCEPT !.scan = l]
  <2>2. PushScan(st) = [st EXCEPT !.path.scan = l, !.item = c]
    BY <1>5 DEF PushScan
  <2>3. p \in PathEdge /\ p.scan = l /\ p.list = st.path.list /\ SameHead(p, st.path)
    <3> HIDE DEF l
    <3> QED BY <1>1, <1>3 DEF PathEdge, SameHead, l
  <2>4. PushScan(st) = [st EXCEPT !.path = p, !.item = c]
    <3> HIDE DEF l, c
    <3> QED BY <2>2 DEF Reader
  <2> HIDE DEF p, l, c
  <2>5. PushScan(st) \in Reader /\ PushScan(st).m = st.m /\ PushScan(st).path = p
    BY <1>1, <1>2, <2>3, <2>4 DEF Reader, c
  <2> QED BY <1>1, <1>2, <1>3, <1>5, <2>1, <2>3, <2>5 DEF l, SameHead
<1>6. CASE st.m \notin {3, 5}
  BY <1>1, <1>2, <1>3, <1>6 DEF PushList, PushScan, SameHead
<1> QED BY <1>4, <1>5, <1>6

(* Slist and AtSlist, without what they push.                              *)
Waiting(st, wait) == [st EXCEPT !.m = IF @ > 3 THEN 5 ELSE 3, !.item.wait = wait]

LEMMA WaitingIs ==
  ASSUME NEW st \in Reader, NEW wait \in BOOLEAN
  PROVE  /\ Waiting(st, wait) \in Reader
         /\ Waiting(st, wait).m = IF st.m > 3 THEN 5 ELSE 3
         /\ Waiting(st, wait).path = st.path
         /\ Waiting(st, wait).item.wait = wait
         /\ Waiting(st, wait).item.at = st.item.at
<1> DEFINE i == [st.item EXCEPT !.wait = wait]
           m == IF st.m > 3 THEN 5 ELSE 3
<1>1. st.m \in 0..5 /\ st.item \in PathItem /\ st.path \in PathEdge
  BY DEF Reader
<1>2. i \in PathItem /\ i.wait = wait /\ i.at = st.item.at
  BY <1>1 DEF PathItem
<1>3. m \in 0..5
  BY <1>1
<1>4. Waiting(st, wait) = [st EXCEPT !.m = m, !.item = i]
  BY DEF Waiting, Reader
<1> HIDE DEF i, m
<1>5. Waiting(st, wait) \in Reader /\ Waiting(st, wait).m = m
      /\ Waiting(st, wait).item = i /\ Waiting(st, wait).path = st.path
  BY <1>1, <1>2, <1>3, <1>4 DEF Reader
<1> QED BY <1>2, <1>5 DEF m

LEMMA WithItemIs ==
  ASSUME NEW st \in Reader, NEW line \in Line, line.word \in ItemWords,
         line.arg \in Names
  PROVE  LET r == WithItem(st, line) IN
         /\ r \in Reader /\ SameHead(r.path, st.path)
         /\ r.m = IF st.m > 3 THEN 5 ELSE 3
         /\ st.m > 3 => r.path.list = st.path.list
         /\ st.m # 5 => r.path.scan = st.path.scan
         /\ line.at # NoAt <=> st.m > 3 =>
              /\ r.path.list = IF st.m = 3 THEN Append(st.path.list, st.item)
                                           ELSE st.path.list
              /\ r.path.scan = IF st.m = 5 THEN Append(st.path.scan, st.item)
                                           ELSE st.path.scan
              /\ (line.word \in Stored => Number(line) # 0) => Agrees(r.item, line)
         /\ line.word \notin {"poi", "check"} \cup Yara => r.item.type \notin Naming
<1> DEFINE r == WithItem(st, line)
           a == AtPrefix(st, line)
           b == Waiting(PushList(a), line.wait)
<1>1. st.m \in 0..5 /\ line.wait \in BOOLEAN /\ line.at \in Int
  BY DEF Reader, Line
<1>2. /\ a \in Reader /\ SameHead(a.path, st.path)
      /\ a.m = IF line.at = NoAt THEN st.m ELSE IF st.m > 3 THEN 5 ELSE 3
      /\ st.m > 3 => a.path.list = st.path.list
      /\ st.m # 5 => a.path.scan = st.path.scan
      /\ line.at # NoAt <=> st.m > 3 =>
           /\ a.path.list = st.path.list
           /\ a.path.scan = IF st.m = 5 THEN Append(st.path.scan, st.item)
                                        ELSE st.path.scan
           /\ line.at # NoAt => a.item.at = line.at
           /\ line.at = NoAt => a.item = st.item
  <2>1. CASE line.at = NoAt
    BY <1>1, <2>1 DEF AtPrefix, SameHead
  <2>2. CASE line.at # NoAt
    <3> DEFINE c == PushList(st)
               d == PushScan(c)
               w == Waiting(d, line.wait)
    <3>1. c \in Reader /\ c.m = st.m /\ SameHead(c.path, st.path)
          /\ c.path.list = (IF st.m = 3 THEN Append(st.path.list, st.item) ELSE st.path.list)
          /\ c.path.scan = st.path.scan
      BY <1>1, PushIs
    <3>0. st.m > 3 => c = st
      BY <1>1 DEF PushList
    <3> HIDE DEF c
    <3>2. d \in Reader /\ d.m = c.m /\ SameHead(d.path, c.path)
          /\ d.path.list = c.path.list
          /\ d.path.scan = IF c.m = 5 THEN Append(c.path.scan, c.item) ELSE c.path.scan
      BY <3>1, PushIs
    <3> HIDE DEF d
    <3>3. w \in Reader /\ w.path = d.path /\ w.m = IF d.m > 3 THEN 5 ELSE 3
      BY <1>1, <3>2, WaitingIs
    <3>4. a = [w EXCEPT !.item.at = line.at]
      BY <2>2 DEF AtPrefix, AtSlist, Waiting, c, d
    <3> HIDE DEF w, a
    <3>5. a \in Reader /\ a.path = w.path /\ a.m = w.m /\ a.item.at = line.at
      <4> DEFINE i == [w.item EXCEPT !.at = line.at]
      <4>1. i \in PathItem /\ i.at = line.at
        <5>1. w.item \in PathItem
          BY <3>3 DEF Reader
        <5> QED BY <1>1, <5>1 DEF PathItem
      <4>2. a = [w EXCEPT !.item = i]
        BY <3>3, <3>4 DEF Reader
      <4> HIDE DEF i
      <4> QED BY <3>3, <4>1, <4>2 DEF Reader
    <3>6. SameHead(a.path, st.path)
      BY <3>1, <3>2, <3>3, <3>5 DEF SameHead
    <3> QED BY <1>1, <2>2, <3>0, <3>1, <3>2, <3>3, <3>5, <3>6
  <2> QED BY <2>1, <2>2
<1> HIDE DEF a
<1>3. /\ b \in Reader /\ SameHead(b.path, a.path)
      /\ b.m = IF a.m > 3 THEN 5 ELSE 3
      /\ b.path.scan = a.path.scan
      /\ b.path.list = IF a.m = 3 THEN Append(a.path.list, a.item) ELSE a.path.list
      /\ b.item.wait = line.wait
      /\ a.m # 3 => b.item.at = a.item.at
  <2> DEFINE c == PushList(a)
  <2>1. c \in Reader /\ c.m = a.m /\ SameHead(c.path, a.path)
        /\ c.path.list = (IF a.m = 3 THEN Append(a.path.list, a.item) ELSE a.path.list)
        /\ c.path.scan = a.path.scan
    BY <1>2, PushIs
  <2>0. a.m # 3 => c = a
    BY DEF PushList
  <2> HIDE DEF c
  <2>2. b = Waiting(c, line.wait)
    BY DEF c
  <2> HIDE DEF b
  <2> QED BY <1>1, <2>0, <2>1, <2>2, WaitingIs
<1>4. r = [b EXCEPT !.item = Fill(b.item, line)]
  BY DEF WithItem, Slist, Waiting, a, Reader
<1> HIDE DEF b, r
<1>5. b.item \in PathItem
  BY <1>3 DEF Reader
<1>6. Fill(b.item, line) \in PathItem
  BY <1>5, FillIs
<1>7. r \in Reader /\ r.m = b.m /\ r.path = b.path /\ r.item = Fill(b.item, line)
  BY <1>3, <1>4, <1>6 DEF Reader
<1>8. ASSUME line.at # NoAt <=> st.m > 3, line.word \in Stored => Number(line) # 0
      PROVE  Agrees(r.item, line)
  <2>1. line.at # NoAt => b.item.at = line.at
    BY <1>1, <1>2, <1>3, <1>8
  <2> QED BY <1>3, <1>5, <1>7, <1>8, <2>1, FillIs
<1>9. ASSUME line.word \notin {"poi", "check"} \cup Yara
      PROVE  r.item.type \notin Naming
  <2>1. b.item.type \in ItemTypes
    BY <1>5 DEF PathItem
  <2> QED BY <1>5, <1>7, <1>9, <2>1, FillIs, ParsedIs
<1>10. ASSUME line.at # NoAt <=> st.m > 3
       PROVE  /\ r.path.list = IF st.m = 3 THEN Append(st.path.list, st.item)
                                           ELSE st.path.list
              /\ r.path.scan = IF st.m = 5 THEN Append(st.path.scan, st.item)
                                           ELSE st.path.scan
  BY <1>1, <1>2, <1>3, <1>7, <1>10
<1>11. /\ SameHead(r.path, st.path)
       /\ r.m = IF st.m > 3 THEN 5 ELSE 3
       /\ st.m > 3 => r.path.list = st.path.list
       /\ st.m # 5 => r.path.scan = st.path.scan
  BY <1>1, <1>2, <1>3, <1>7 DEF SameHead
<1> QED BY <1>7, <1>8, <1>9, <1>10, <1>11 DEF r

-----------------------------------------------------------------------------
(* The steps, by what they do to the reader                                *)
AtLine == phase = "read" /\ pos <= Len(file) /\ ~Refused(file[pos])

BeginsRule ==
  /\ AtLine /\ file[pos].word = "section" /\ mState <= 1
  /\ mState' = 1 /\ pos' = pos + 1 /\ nth' = nth + 1
  /\ UNCHANGED <<phase, item, path, symbol>> /\ Kept

ReadsHead(word) ==
  /\ AtLine /\ file[pos].word = word /\ mState = 1
  /\ mState' = IF word \in {"fpoi", "rule"} THEN 1 ELSE IF word = "scan" THEN 4 ELSE 2
  /\ path' = [type |-> IF word = "entry" THEN "entry" ELSE path.type,
              rule |-> IF word \in {"scan", "rule"} THEN Number(file[pos]) ELSE path.rule,
              fpoi |-> IF word = "fpoi" THEN file[pos].n ELSE path.fpoi,
              list |-> path.list, scan |-> path.scan]
  /\ pos' = pos + 1
  /\ UNCHANGED <<phase, item, nth>> /\ Kept

ReadsItem ==
  /\ AtLine /\ file[pos].word \in ItemWords
  /\ SetParser(WithItem(Parser, file[pos]))
  /\ pos' = pos + 1
  /\ UNCHANGED <<phase, symbol, nth>> /\ Kept

EndsRule ==
  /\ phase = "read" /\ mState > 1 /\ AtBreak
  /\ RuleEnds
  /\ UNCHANGED <<pos, symbol, nth>> /\ Kept

Stops ==
  /\ phase = "read" /\ phase' = "over"
  /\ pos > Len(file) => mState <= 1
  /\ UNCHANGED <<pos, reader, path, nth>> /\ Kept

GoesOn ==
  /\ phase \in {"apply", "scan"} /\ NextIteration
  /\ UNCHANGED <<file, strayOrd, pos, mState, item, nth>>

StaysAtRule ==
  /\ \/ phase = "apply" /\ phase' \in {"loops", "scan"}
     \/ phase = "scan" /\ phase' = "scan"
  /\ phase = "apply" /\ phase' = "scan" => path.scan # <<>>
  /\ UNCHANGED <<file, strayOrd, pos, mState, item, path, nth>>

LEMMA LineHere ==
  ASSUME TypeOK, pos <= Len(file)
  PROVE  /\ pos \in DOMAIN file /\ file[pos] \in Line
         /\ file[pos].arg \in Names /\ "" \in Names
         /\ file[pos].word = "func" => OrdOf[file[pos].arg] \in Nat
         /\ file[pos].n \in Nat \cup {NoNumber}
         /\ Number(file[pos]) \in Nat
         /\ Number(file[pos]) # 0 => file[pos].n \in Nat /\ Number(file[pos]) = file[pos].n
<1>1. pos \in DOMAIN file /\ file[pos] \in Line /\ file \in Files
  BY FileFits DEF TypeOK
<1>2. file[pos].arg \in Names /\ "" \in Names
  <2>1. file[pos].arg \in {file[p].arg : p \in DOMAIN file}
    BY <1>1
  <2>2. {file[p].arg : p \in DOMAIN file} \in {{f[p].arg : p \in DOMAIN f} : f \in Files}
    BY <1>1
  <2> HIDE DEF TypeOK
  <2>3. file[pos].arg \in UNION {{f[p].arg : p \in DOMAIN f} : f \in Files}
    BY <2>1, <2>2
  <2> QED BY <2>3 DEF Names
<1>3. file[pos].word = "func" => OrdOf[file[pos].arg] \in Nat
  BY <1>1, AfsmSessionAssumption DEF AfsmSessionAssumption
<1>4. file[pos].n \in Nat \cup {NoNumber}
  BY <1>1 DEF Line
<1>5. file[pos].n # NoNumber => file[pos].n \in Nat
  BY <1>4
<1> QED BY <1>1, <1>2, <1>3, <1>4, <1>5 DEF Number

LEMMA ReaderHere ==
  ASSUME TypeOK PROVE Parser \in Reader
BY DEF TypeOK, Parser, Reader

LEMMA HeadKinds ==
  ASSUME TypeOK, NEW m, NEW p, NEW s, NEW word \in HeadWords,
         HeadLine(word, m, p, s)
  PROVE  AtLine /\ mState = 1 /\ file[pos].word = word
BY DEF HeadLine, Current, AtLine, Refused

LEMMA Kinds ==
  ASSUME TypeOK, [Next]_vars
  PROVE  \/ BeginsRule \/ (\E word \in HeadWords : ReadsHead(word)) \/ ReadsItem
         \/ EndsRule \/ Stops \/ GoesOn \/ StaysAtRule \/ UNCHANGED vars
<1>0. path \in PathEdge /\ mState \in 0..5 /\ pos \in Nat /\ Len(file) \in Nat
  BY FileFits DEF TypeOK
<1>1. CASE Section
  <2>1. CASE mState > 1
    BY <1>1, <2>1 DEF Section, EndsRule, Current, AtBreak
  <2>2. CASE ~(mState > 1)
    BY <1>0, <1>1, <2>2 DEF Section, BeginsRule, AtLine, Current
  <2> QED BY <2>1, <2>2
<1>2. CASE EntryLine
  <2>1. ReadsHead("entry")
    BY <1>0, <1>2, HeadKinds DEF EntryLine, HeadLine, ReadsHead, HeadWords, PathEdge
  <2> QED BY <2>1 DEF HeadWords
<1>3. CASE ScanLine
  <2>1. ReadsHead("scan")
    BY <1>0, <1>3, HeadKinds DEF ScanLine, HeadLine, ReadsHead, HeadWords, PathEdge
  <2> QED BY <2>1 DEF HeadWords
<1>4. CASE FpoiLine
  <2>1. ReadsHead("fpoi")
    BY <1>0, <1>4, HeadKinds DEF FpoiLine, HeadLine, ReadsHead, HeadWords, PathEdge
  <2> QED BY <2>1 DEF HeadWords
<1>5. CASE RuleLine
  <2>1. ReadsHead("rule")
    BY <1>0, <1>5, HeadKinds DEF RuleLine, HeadLine, ReadsHead, HeadWords, PathEdge
  <2> QED BY <2>1 DEF HeadWords
<1>6. CASE FuncLine \/ YfuncLine \/ SfuncLine \/ FsectionLine
  <2>1. CASE FuncLine
    <3>1. ReadsHead("func")
      BY <1>0, <2>1, HeadKinds DEF FuncLine, HeadLine, ReadsHead, HeadWords, PathEdge
    <3> QED BY <3>1 DEF HeadWords
  <2>2. CASE YfuncLine
    <3>1. ReadsHead("yfunc")
      BY <1>0, <2>2, HeadKinds DEF YfuncLine, HeadLine, ReadsHead, HeadWords, PathEdge
    <3> QED BY <3>1 DEF HeadWords
  <2>3. CASE SfuncLine
    <3>1. ReadsHead("sfunc")
      BY <1>0, <2>3, HeadKinds DEF SfuncLine, HeadLine, ReadsHead, HeadWords, PathEdge
    <3> QED BY <3>1 DEF HeadWords
  <2>4. CASE FsectionLine
    <3>1. ReadsHead("fsection")
      BY <1>0, <2>4, HeadKinds DEF FsectionLine, HeadLine, ReadsHead, HeadWords, PathEdge
    <3> QED BY <3>1 DEF HeadWords
  <2> QED BY <1>6, <2>1, <2>2, <2>3, <2>4
<1>7. CASE ItemLine
  BY <1>7 DEF ItemLine, ReadsItem, AtLine
<1>8. CASE ParseError
  BY <1>0, <1>8 DEF ParseError, Stops
<1>9. CASE EndOfFile
  <2>1. CASE mState >= 2
    BY <1>0, <1>9, <2>1 DEF EndOfFile, EndsRule, AtBreak
  <2>2. CASE ~(mState >= 2)
    BY <1>0, <1>9, <2>2 DEF EndOfFile, Stops, reader
  <2> QED BY <2>1, <2>2
<1>10. CASE KeepRule
  BY <1>10 DEF KeepRule, GoesOn, reader
<1>11. CASE ResolveForever
  BY <1>11 DEF ResolveForever, StaysAtRule, reader, Kept
<1>12. CASE SkipRule
  BY <1>12 DEF SkipRule, GoesOn, reader
<1>13. CASE ApplyRule
  BY <1>13 DEF ApplyRule, GoesOn
<1>14. CASE BeginScan
  BY <1>14 DEF BeginScan, ScanResolved, StaysAtRule
<1>15. CASE RefuseScan
  BY <1>15 DEF RefuseScan, ScanResolved, GoesOn
<1>16. CASE EndScan
  BY <1>16 DEF EndScan, GoesOn, reader
<1>17. CASE \E n \in DOMAIN rules : EvaluateRule(n)
  BY <1>17 DEF EvaluateRule, StaysAtRule
<1>18. CASE Done \/ UNCHANGED vars
  BY <1>18 DEF Done
<1> QED BY <1>1, <1>2, <1>3, <1>4, <1>5, <1>6, <1>7, <1>8, <1>9, <1>10, <1>11,
            <1>12, <1>13, <1>14, <1>15, <1>16, <1>17, <1>18 DEF Next, ReadLine

(* The last item of a rule is pushed.                                      *)
LEMMA RuleEndsIs ==
  ASSUME TypeOK, RuleEnds
  PROVE  /\ mState' = 0 /\ phase' = "apply" /\ item' = item
         /\ path' \in PathEdge /\ SameHead(path', path)
         /\ path'.list = IF mState > 3 THEN path.list ELSE Append(path.list, item)
         /\ path'.scan = IF mState > 3 THEN Append(path.scan, item) ELSE path.scan
<1>1. /\ path \in PathEdge /\ item \in PathItem
      /\ path.list \in Seq(PathItem) /\ path.scan \in Seq(PathItem)
      /\ Append(path.list, item) \in Seq(PathItem)
      /\ Append(path.scan, item) \in Seq(PathItem)
  <2>1. path \in PathEdge /\ item \in PathItem
    BY DEF TypeOK
  <2>2. path.list \in Seq(PathItem) /\ path.scan \in Seq(PathItem)
    BY <2>1 DEF PathEdge
  <2> QED BY <2>1, <2>2
<1> DEFINE l == Append(path.list, item)
           s == Append(path.scan, item)
<1>2. CASE mState > 3
  <2>1. Completed(Parser) = [m |-> mState, item |-> item, path |-> [path EXCEPT !.scan = s]]
    BY <1>2 DEF Completed, Parser
  <2>2. mState' = 0 /\ phase' = "apply" /\ item' = item /\ path' = [path EXCEPT !.scan = s]
    BY <2>1 DEF RuleEnds, SetParser
  <2> HIDE DEF s
  <2>3. path' \in PathEdge /\ path'.scan = s /\ path'.list = path.list /\ SameHead(path', path)
    BY <1>1, <2>2 DEF PathEdge, SameHead, s
  <2> QED BY <1>2, <2>2, <2>3 DEF s
<1>3. CASE ~(mState > 3)
  <2>1. Completed(Parser) = [m |-> mState, item |-> item, path |-> [path EXCEPT !.list = l]]
    BY <1>3 DEF Completed, Parser
  <2>2. mState' = 0 /\ phase' = "apply" /\ item' = item /\ path' = [path EXCEPT !.list = l]
    BY <2>1 DEF RuleEnds, SetParser
  <2> HIDE DEF l
  <2>3. path' \in PathEdge /\ path'.list = l /\ path'.scan = path.scan /\ SameHead(path', path)
    BY <1>1, <2>2 DEF PathEdge, SameHead, l
  <2> QED BY <1>3, <2>2, <2>3 DEF l
<1> QED BY <1>2, <1>3

LEMMA FreshPathIs ==
  ASSUME NEW t \in StrayTypes
  PROVE  /\ FreshPath(t) \in PathEdge /\ FreshPath(t).type = t
         /\ FreshPath(t).rule = 0 /\ FreshPath(t).fpoi = 0
         /\ FreshPath(t).list = <<>> /\ FreshPath(t).scan = <<>>
<1>1. t \in {"none", "entry"} /\ <<>> \in Seq(PathItem)
  BY AfsmSessionAssumption DEF AfsmSessionAssumption
<1> QED BY <1>1 DEF FreshPath, PathEdge

LEMMA ReaderTypes ==
  ASSUME TypeOK, [Next]_vars
  PROVE  /\ file' = file /\ file' \in Files
         /\ strayOrd' = strayOrd /\ strayOrd' \in StrayOrds
         /\ pos' \in Nat /\ pos' \in 1..(Len(file) + 1)
         /\ phase' \in Phases /\ mState' \in 0..5 /\ item' \in PathItem
         /\ path' \in PathEdge /\ nth' \in Nat
<1>1. /\ file \in Files /\ pos \in Nat /\ pos \in 1..(Len(file) + 1) /\ Len(file) \in Nat
      /\ phase \in Phases /\ mState \in 0..5 /\ item \in PathItem /\ path \in PathEdge
      /\ nth \in Nat /\ strayOrd \in StrayOrds
  BY FileFits DEF TypeOK
<1>2. CASE BeginsRule
  BY <1>1, <1>2 DEF BeginsRule, AtLine, Kept
<1>3. ASSUME NEW word \in HeadWords, ReadsHead(word)
      PROVE  path' \in PathEdge /\ mState' \in 0..5
  <2> DEFINE t == IF word = "entry" THEN "entry" ELSE path.type
             r == IF word \in {"scan", "rule"} THEN Number(file[pos]) ELSE path.rule
             n == IF word = "fpoi" THEN file[pos].n ELSE path.fpoi
  <2>1. t \in {"none", "entry"} /\ path.list \in Seq(PathItem) /\ path.scan \in Seq(PathItem)
    BY <1>1 DEF PathEdge
  <2>2. pos <= Len(file) /\ file[pos].word = word /\ ~Refused(file[pos])
    BY <1>3 DEF ReadsHead, AtLine
  <2>3. r \in Nat
    BY <1>1, <2>2, LineHere DEF PathEdge
  <2>4. n \in Nat
    <3>1. word = "fpoi" => Number(file[pos]) # 0
      BY <2>2 DEF Refused
    <3> QED BY <1>1, <2>2, <3>1, LineHere DEF PathEdge
  <2>5. path' = [type |-> t, rule |-> r, fpoi |-> n, list |-> path.list, scan |-> path.scan]
    BY <1>3 DEF ReadsHead
  <2> HIDE DEF t, r, n
  <2> QED BY <1>3, <2>1, <2>3, <2>4, <2>5 DEF PathEdge, ReadsHead
<1>4. CASE \E word \in HeadWords : ReadsHead(word)
  BY <1>1, <1>3, <1>4 DEF ReadsHead, AtLine, Kept
<1>5. CASE ReadsItem
  <2> DEFINE r == WithItem(Parser, file[pos])
  <2>1. r \in Reader
    <3>1. pos <= Len(file) /\ file[pos].word \in ItemWords
      BY <1>5 DEF ReadsItem, AtLine
    <3> QED BY <3>1, ReaderHere, LineHere, WithItemIs
  <2>2. mState' = r.m /\ item' = r.item /\ path' = r.path
    BY <1>5 DEF ReadsItem, SetParser
  <2> HIDE DEF r
  <2>3. mState' \in 0..5 /\ item' \in PathItem /\ path' \in PathEdge
    BY <2>1, <2>2 DEF Reader
  <2> QED BY <1>1, <1>5, <2>3 DEF ReadsItem, AtLine, Kept
<1>6. CASE EndsRule
  BY <1>1, <1>6, RuleEndsIs DEF EndsRule, Kept, Phases
<1>7. CASE Stops
  BY <1>1, <1>7 DEF Stops, Kept, reader, Phases
<1>8. CASE GoesOn
  BY <1>1, <1>8, FreshPathIs DEF GoesOn, NextIteration, Phases
<1>9. CASE StaysAtRule
  BY <1>1, <1>9 DEF StaysAtRule, Phases
<1>10. CASE UNCHANGED vars
  BY <1>1, <1>10 DEF vars, reader
<1> QED BY <1>2, <1>4, <1>5, <1>6, <1>7, <1>8, <1>9, <1>10, Kinds

-----------------------------------------------------------------------------
(* What the steps do to m_symbol                                           *)
LEMMA FunctionsAreSelected ==
  ASSUME NEW p \in PathEdge, NEW s \in FoundXref
  PROVE  Target(p, s) \in Function
<1>1. "" \in Names /\ {"yfunc", "entry", "func", "ordinal", "fpoi", "sfunc", "fsection"}
        \subseteq SelectorWords \cup {"ordinal"}
  BY DEF Names, SelectorWords
<1>2. /\ s.exported \in Names /\ s.section \in Names /\ s.yara \in Names
      /\ s.stg \in Nat /\ s.ord \in Nat /\ p.fpoi \in Nat
  BY DEF FoundXref, PathEdge
<1>3. \A k \in SelectorWords \cup {"ordinal"}, name \in Names, n \in Nat :
        [kind |-> k, name |-> name, n |-> n] \in Function
  BY DEF Function
<1> QED BY <1>1, <1>2, <1>3 DEF Target

(* The number that is left in m_symbol is of no use to the rule itself.    *)
LEMMA PreparedIs ==
  ASSUME NEW p \in PathEdge, NEW s \in FoundXref,
         s.exported # "" => OrdOf[s.exported] \in Nat
  PROVE  /\ Prepared(p, s) \in FoundXref
         /\ Prepared(p, s).exported = s.exported /\ Prepared(p, s).yara = s.yara
         /\ \/ Prepared(p, s).ord = s.ord
            \/ s.exported # "" /\ OrdOf[s.exported] # 0
         /\ \A q : Target(q, Prepared(p, s)) = Target(q, s)
<1>1. CASE p.type # "entry" /\ s.exported # "" /\ OrdOf[s.exported] # 0
  <2> DEFINE r == [s EXCEPT !.ord = OrdOf[s.exported]]
  <2>1. /\ r \in FoundXref /\ r.exported = s.exported /\ r.yara = s.yara
        /\ r.section = s.section /\ r.stg = s.stg
    BY <1>1 DEF FoundXref
  <2>2. Prepared(p, s) = r
    BY <1>1 DEF Prepared
  <2> HIDE DEF r
  <2> QED BY <1>1, <2>1, <2>2 DEF Target
<1>2. CASE ~(p.type # "entry" /\ s.exported # "" /\ OrdOf[s.exported] # 0)
  BY <1>2 DEF Prepared
<1> QED BY <1>1, <1>2

Prepares == \E p \in PathEdge : symbol' = Prepared(p, symbol) /\ pos' = pos

(* What the lines that select a function write.                            *)
Selects(word) ==
  LET line == file[pos] IN
  /\ ReadsHead(word)
  /\ symbol' = [exported |-> IF word = "func" THEN line.arg ELSE "",
                section |-> IF word = "fsection" THEN line.arg ELSE "",
                yara |-> IF word = "yfunc" THEN line.arg
                         ELSE IF word = "fsection" THEN symbol.yara ELSE "",
                stg |-> IF word = "sfunc" THEN line.n
                        ELSE IF word \in {"func", "fsection"} THEN 0 ELSE symbol.stg,
                ord |-> symbol.ord]

SymbolWords == {"func", "yfunc", "sfunc", "fsection", "fpoi"}

LEMMA SelectorLines ==
  ASSUME TypeOK
  PROVE  /\ FuncLine => Selects("func")
         /\ YfuncLine => Selects("yfunc")
         /\ SfuncLine => Selects("sfunc")
         /\ FsectionLine => Selects("fsection")
         /\ FpoiLine => Selects("fpoi")
<1>0. symbol \in FoundXref /\ path \in PathEdge
  BY DEF TypeOK
<1> USE HeadKinds DEF HeadLine, ReadsHead, HeadWords, PathEdge, Selects, FoundXref
<1>1. FuncLine => Selects("func")
  BY <1>0 DEF FuncLine
<1>2. YfuncLine => Selects("yfunc")
  BY <1>0 DEF YfuncLine
<1>3. SfuncLine => Selects("sfunc")
  BY <1>0 DEF SfuncLine
<1>4. FsectionLine => Selects("fsection")
  BY <1>0 DEF FsectionLine
<1>5. FpoiLine => Selects("fpoi")
  BY <1>0 DEF FpoiLine
<1> QED BY <1>1, <1>2, <1>3, <1>4, <1>5

LEMMA SymbolKinds ==
  ASSUME TypeOK, [Next]_vars
  PROVE  symbol' = symbol \/ Prepares \/ \E word \in SymbolWords : Selects(word)
<1>0. path \in PathEdge /\ \A n \in DOMAIN rules : rules[n].path \in PathEdge
  BY DEF TypeOK, KeptRule
<1>1. CASE ReadLine /\ ~(FuncLine \/ YfuncLine \/ SfuncLine \/ FsectionLine \/ FpoiLine)
  BY <1>1 DEF ReadLine, Section, EntryLine, ScanLine, RuleLine, HeadLine, ItemLine,
              ParseError, EndOfFile, reader
<1>2. CASE FpoiLine \/ FuncLine \/ YfuncLine \/ SfuncLine \/ FsectionLine
  BY <1>2, SelectorLines DEF SymbolWords
<1>3. CASE KeepRule \/ ResolveForever \/ SkipRule \/ EndScan \/ Done \/ UNCHANGED vars
  BY <1>3 DEF KeepRule, ResolveForever, SkipRule, EndScan, Done, reader, vars
<1>4. CASE ApplyRule \/ BeginScan \/ RefuseScan
  BY <1>0, <1>4 DEF ApplyRule, BeginScan, RefuseScan, ScanResolved, Prepares
<1>5. CASE \E n \in DOMAIN rules : EvaluateRule(n)
  BY <1>0, <1>5 DEF EvaluateRule, Prepares
<1> QED BY <1>1, <1>2, <1>3, <1>4, <1>5 DEF Next, ReadLine

LEMMA HeadSelects ==
  ASSUME TypeOK, [Next]_vars, NEW word \in HeadWords, ReadsHead(word)
  PROVE  IF word \in SymbolWords THEN Selects(word) ELSE symbol' = symbol
<1>1. /\ phase = "read" /\ pos <= Len(file) /\ file[pos].word = word /\ ~Refused(file[pos])
      /\ word # "section" /\ word \notin ItemWords /\ pos' # pos
      /\ pos \in Nat /\ Len(file) \in Nat
  BY FileFits, KeywordKinds DEF ReadsHead, AtLine
<1>2. /\ ~Section /\ ~ItemLine /\ ~ParseError /\ ~EndOfFile /\ ReadLine
  BY <1>1 DEF Next, Section, Current, ItemLine, ParseError, EndOfFile, KeepRule,
      ResolveForever, SkipRule, ApplyRule, BeginScan, ScanResolved, RefuseScan,
      EvaluateRule, EndScan, Done, vars
<1>3. CASE word \in SymbolWords
  BY <1>1, <1>2, <1>3, SelectorLines DEF ReadLine, SymbolWords, EntryLine, ScanLine,
     RuleLine, FuncLine, YfuncLine, SfuncLine, FsectionLine, FpoiLine, HeadLine, Current
<1>4. CASE word \notin SymbolWords
  BY <1>1, <1>2, <1>4 DEF ReadLine, SymbolWords, EntryLine, ScanLine,
     RuleLine, FuncLine, YfuncLine, SfuncLine, FsectionLine, FpoiLine, HeadLine, Current
<1> QED BY <1>3, <1>4

LEMMA ExportHere ==
  ASSUME TypeOK, ExportIsSpelled
  PROVE  symbol.exported # "" => OrdOf[symbol.exported] \in Nat
<1>1. SUFFICES ASSUME symbol.exported # "" PROVE OrdOf[symbol.exported] \in Nat
  OBVIOUS
<1>2. PICK q \in DOMAIN file : file[q].word = "func" /\ file[q].arg = symbol.exported
  BY <1>1 DEF ExportIsSpelled
<1>3. file \in Files
  BY DEF TypeOK
<1> QED BY <1>2, <1>3, AfsmSessionAssumption DEF AfsmSessionAssumption

LEMMA SymbolTypes ==
  ASSUME TypeOK, ExportIsSpelled, [Next]_vars
  PROVE  symbol' \in FoundXref
<1>1. /\ symbol \in FoundXref /\ symbol.yara \in Names /\ symbol.stg \in Nat
      /\ symbol.ord \in Nat
  BY DEF TypeOK, FoundXref
<1>2. CASE Prepares
  BY <1>1, <1>2, PreparedIs, ExportHere DEF Prepares
<1>3. ASSUME NEW word \in SymbolWords, Selects(word) PROVE symbol' \in FoundXref
  <2> DEFINE e == IF word = "func" THEN file[pos].arg ELSE ""
             s == IF word = "fsection" THEN file[pos].arg ELSE ""
             y == IF word = "yfunc" THEN file[pos].arg
                  ELSE IF word = "fsection" THEN symbol.yara ELSE ""
             g == IF word = "sfunc" THEN file[pos].n
                  ELSE IF word \in {"func", "fsection"} THEN 0 ELSE symbol.stg
  <2>1. pos <= Len(file) /\ file[pos].word = word /\ ~Refused(file[pos])
    BY <1>3 DEF Selects, ReadsHead, AtLine
  <2>2. word = "sfunc" => Number(file[pos]) # 0
    BY <2>1 DEF Refused
  <2>3. e \in Names /\ s \in Names /\ y \in Names
    BY <1>1, <2>1, LineHere
  <2>4. g \in Nat
    BY <1>1, <2>1, <2>2, LineHere
  <2>5. symbol' = [exported |-> e, section |-> s, yara |-> y, stg |-> g,
                   ord |-> symbol.ord]
    BY <1>3 DEF Selects
  <2> HIDE DEF e, s, y, g
  <2> QED BY <1>1, <2>3, <2>4, <2>5 DEF FoundXref
<1> QED BY <1>1, <1>2, <1>3, SymbolKinds

-----------------------------------------------------------------------------
(* What the steps do to the rules and the log                              *)
LEMMA LogKinds ==
  ASSUME [Next]_vars
  PROVE  /\ rules' = rules \/ KeepRule
         /\ results' = results \/ \E n \in DOMAIN rules : results' = results \cup {n}
         /\ log' = log \/ ApplyRule \/ \E n \in DOMAIN rules : EvaluateRule(n)
<1>1. CASE ReadLine
  BY <1>1 DEF ReadLine, Section, EntryLine, ScanLine, RuleLine, FpoiLine, FuncLine,
              YfuncLine, SfuncLine, FsectionLine, HeadLine, ItemLine, ParseError,
              EndOfFile, Kept
<1>2. CASE KeepRule
  BY <1>2 DEF KeepRule
<1>3. CASE ResolveForever \/ SkipRule \/ BeginScan \/ RefuseScan \/ EndScan \/ Done
           \/ UNCHANGED vars
  BY <1>3 DEF ResolveForever, SkipRule, BeginScan, RefuseScan, EndScan, Done, Kept, vars
<1>4. CASE ApplyRule
  BY <1>4 DEF ApplyRule
<1>5. CASE \E n \in DOMAIN rules : EvaluateRule(n)
  BY <1>5 DEF EvaluateRule
<1> QED BY <1>1, <1>2, <1>3, <1>4, <1>5 DEF Next

LEMMA KeepRuleIs ==
  ASSUME TypeOK, KeepRule
  PROVE  /\ DOMAIN rules' = DOMAIN rules \cup {path.rule} /\ path.rule \in Nat
         /\ \A n \in DOMAIN rules' :
              rules'[n] = IF n = path.rule THEN [path |-> path, nth |-> nth] ELSE rules[n]
         /\ rules' \in [DOMAIN rules' -> KeptRule]
<1>1. path \in PathEdge /\ path.rule \in Nat /\ nth \in Nat
      /\ rules \in [DOMAIN rules -> KeptRule]
  BY DEF TypeOK, PathEdge
<1>2. [path |-> path, nth |-> nth] \in KeptRule
  BY <1>1 DEF KeptRule
<1>3. rules' = [n \in DOMAIN rules \cup {path.rule} |->
                  IF n = path.rule THEN [path |-> path, nth |-> nth] ELSE rules[n]]
  BY DEF KeepRule
<1>4. DOMAIN rules' = DOMAIN rules \cup {path.rule}
  BY <1>3
<1>5. \A n \in DOMAIN rules' :
        rules'[n] = IF n = path.rule THEN [path |-> path, nth |-> nth] ELSE rules[n]
  BY <1>3, <1>4
<1>6. \A n \in DOMAIN rules' : rules'[n] \in KeptRule
  BY <1>1, <1>2, <1>4, <1>5
<1>7. rules' = [n \in DOMAIN rules' |-> rules'[n]]
  BY <1>3, <1>4, <1>5
<1> QED BY <1>1, <1>4, <1>5, <1>6, <1>7

(* One entry more.                                                         *)
Applies(p, own) ==
  log' = Append(log, [rule |-> own, by |-> nth, type |-> p.type,
                      target |-> Target(p, symbol)])

LEMMA LogIs ==
  ASSUME TypeOK, NEW p \in PathEdge, NEW own \in Nat, Applies(p, own)
  PROVE  /\ log' \in Seq(Application)
         /\ DOMAIN log = 1..Len(log) /\ DOMAIN log' = 1..(Len(log) + 1)
         /\ Len(log) \in Nat
         /\ \A i \in DOMAIN log : log'[i] = log[i]
         /\ log'[Len(log) + 1].rule = own /\ log'[Len(log) + 1].by = nth
         /\ log'[Len(log) + 1].target = Target(p, symbol)
         /\ log'[Len(log) + 1].type = p.type
<1> DEFINE e == [rule |-> own, by |-> nth, type |-> p.type, target |-> Target(p, symbol)]
<1>1. p.type \in {"none", "entry"} /\ log \in Seq(Application) /\ symbol \in FoundXref /\ nth \in Nat
  BY DEF TypeOK, PathEdge
<1>2. /\ e \in Application /\ e.rule = own /\ e.by = nth /\ e.type = p.type
      /\ e.target = Target(p, symbol)
  BY <1>1, FunctionsAreSelected DEF Application
<1>3. log' = Append(log, e)
  BY DEF Applies
<1> HIDE DEF e
<1> QED BY <1>1, <1>2, <1>3

LEMMA Applications ==
  ASSUME TypeOK, [Next]_vars
  PROVE  \/ log' = log
         \/ ApplyRule /\ path \in PathEdge /\ nth \in Nat /\ Applies(path, nth)
         \/ \E n \in DOMAIN rules :
              /\ phase = "scan" /\ rules[n] \in KeptRule
              /\ rules[n].path \in PathEdge /\ rules[n].nth \in Nat
              /\ Applies(rules[n].path, rules[n].nth)
<1>1. path \in PathEdge /\ nth \in Nat
      /\ \A n \in DOMAIN rules : rules[n] \in KeptRule
  BY DEF TypeOK
<1>2. \A n \in DOMAIN rules : rules[n].path \in PathEdge /\ rules[n].nth \in Nat
  BY <1>1 DEF KeptRule
<1> QED BY <1>1, <1>2, LogKinds DEF ApplyRule, EvaluateRule, Log, Applies

LEMMA TypeStep ==
  ASSUME TypeOK, ExportIsSpelled, [Next]_vars
  PROVE  TypeOK'
<1>1. /\ DOMAIN rules \subseteq Nat /\ rules \in [DOMAIN rules -> KeptRule]
      /\ results \subseteq DOMAIN rules /\ log \in Seq(Application)
  BY DEF TypeOK
<1>2. /\ DOMAIN rules' \subseteq Nat /\ rules' \in [DOMAIN rules' -> KeptRule]
      /\ DOMAIN rules \subseteq DOMAIN rules'
  BY <1>1, LogKinds, KeepRuleIs
<1>3. results' \subseteq DOMAIN rules'
  BY <1>1, <1>2, LogKinds
<1>4. log' \in Seq(Application)
  BY <1>1, Applications, LogIs
<1> QED BY <1>2, <1>3, <1>4, ReaderTypes, SymbolTypes DEF TypeOK

-----------------------------------------------------------------------------
(* What the reader was in when it read its lines                           *)
LEMMA CountedStep ==
  ASSUME TypeOK, Counted, [Next]_vars
  PROVE  Counted'
<1>1. file' = file /\ Sections' = Sections
  BY ReaderTypes, SameText
<1>2. CASE pos' = pos /\ nth' = nth
  BY <1>1, <1>2 DEF Counted
<1>3. CASE BeginsRule \/ (\E word \in HeadWords : ReadsHead(word)) \/ ReadsItem
  <2>1. pos <= Len(file) /\ pos' = pos + 1
        /\ nth' = IF file[pos].word = "section" THEN nth + 1 ELSE nth
    BY <1>3 DEF BeginsRule, ReadsHead, ReadsItem, AtLine, HeadWords, ItemWords,
        Sectioned, Explicit, Stored, Indexed, Named, Yara, Consts, ConstType
  <2>2. nth' = Cardinality({q \in Sections : q < pos + 1})
    BY <2>1, RuleHere
  <2> QED BY <1>1, <2>1, <2>2 DEF Counted
<1> QED BY <1>2, <1>3, Kinds DEF EndsRule, Stops, GoesOn, StaysAtRule, vars

LEMMA PhasedStep ==
  ASSUME TypeOK, Phased, [Next]_vars
  PROVE  Phased'
<1>1. /\ file' = file /\ pos \in Nat /\ pos >= 1 /\ mState \in 0..5 /\ nth \in Nat
      /\ phase \in Phases
  BY ReaderTypes, FileFits DEF TypeOK
<1>2. CASE BeginsRule
  BY <1>1, <1>2 DEF BeginsRule, Phased, AtLine
<1>3. ASSUME NEW word \in HeadWords, ReadsHead(word) PROVE Phased'
  BY <1>1, <1>3 DEF ReadsHead, Phased, AtLine
<1>4. CASE ReadsItem
  <2>1. mState' \in {3, 5} /\ pos' = pos + 1 /\ phase' = "read"
    BY <1>1, <1>4, ReaderHere, LineHere, WithItemIs DEF ReadsItem, AtLine, SetParser, Parser
  <2> QED BY <1>1, <2>1 DEF Phased
<1>5. CASE EndsRule
  BY <1>1, <1>5, RuleEndsIs DEF EndsRule, Phased, AtBreak
<1>6. CASE Stops \/ UNCHANGED vars
  BY <1>1, <1>6 DEF Stops, vars, reader, Phased, AtBreak
<1>7. CASE GoesOn \/ StaysAtRule
  BY <1>1, <1>7 DEF GoesOn, StaysAtRule, NextIteration, Phased, AtBreak
<1> QED BY <1>2, <1>3, <1>4, <1>5, <1>6, <1>7, Kinds

(* The item lines of the rule after one more line.                         *)
LEMMA ReadAfter ==
  ASSUME TypeOK, Counted, pos <= Len(file), file' = file, pos' = pos + 1
  PROVE  /\ pos \notin Read /\ Read \in SUBSET DOMAIN file
         /\ file[pos].word = "section" /\ nth' = nth + 1 => Read' = {}
         /\ file[pos].word # "section" /\ nth' = nth =>
              Read' = IF file[pos].word \in ItemWords THEN Read \cup {pos} ELSE Read
<1>1. /\ pos \in DOMAIN file /\ pos \in Nat /\ nth \in Nat
      /\ \A p \in DOMAIN file : p \in Nat
      /\ \A k : Items(k)' = Items(k)
  BY FileFits DEF Items, RuleOf, Sections
<1>2. Read' = {p \in Items(nth') : p < pos + 1}
  BY <1>1 DEF Read
<1>3. "section" \notin ItemWords
  BY DEF ItemWords, Sectioned, Explicit, Stored, Indexed, Named, Yara, Consts, ConstType
<1>4. ASSUME file[pos].word = "section", nth' = nth + 1 PROVE Read' = {}
  <2>1. ASSUME NEW p \in Read' PROVE FALSE
    <3>1. p \in DOMAIN file /\ RuleOf(p) = nth + 1 /\ p < pos + 1 /\ file[p].word \in ItemWords
      BY <1>2, <1>4, <2>1 DEF Items
    <3>2. p # pos
      BY <1>3, <1>4, <3>1
    <3>3. p < pos
      BY <1>1, <3>1, <3>2
    <3> QED BY <1>1, <3>1, <3>3, ReadLines
  <2> QED BY <2>1
<1>5. ASSUME file[pos].word # "section", nth' = nth
      PROVE  Read' = IF file[pos].word \in ItemWords THEN Read \cup {pos} ELSE Read
  <2>1. RuleOf(pos) = nth
    BY <1>5, RuleHere, <1>1
  <2>2. \A p \in DOMAIN file : p < pos + 1 <=> p < pos \/ p = pos
    BY <1>1
  <2> QED BY <1>1, <1>2, <1>5, <2>1, <2>2 DEF Read, Items
<1> QED BY <1>1, <1>4, <1>5 DEF Read, Items

LEMMA PlacesRead ==
  ASSUME TypeOK, Counted
  PROVE  /\ Read \in SUBSET DOMAIN file /\ pos \notin Read /\ Cardinality(Read) \in Nat
         /\ \A p \in Read : Place(p) \in 1..Cardinality(Read)
<1>1. pos \in Nat /\ \A p \in DOMAIN file : p \in Nat
  BY FileFits
<1>2. Read \in SUBSET DOMAIN file /\ pos \notin Read
  BY <1>1 DEF Read, Items
<1>3. Cardinality(Read) \in Nat
  BY <1>2, LinesAreFinite
<1>4. ASSUME NEW p \in Read PROVE Place(p) \in 1..Cardinality(Read)
  <2> DEFINE S == {q \in Items(RuleOf(p)) : q <= p}
  <2>1. p \in DOMAIN file /\ p \in Nat /\ RuleOf(p) = nth /\ p < pos /\ p \in S
    BY <1>1 DEF Read, Items
  <2>2. S \in SUBSET Read
    BY <1>1, <2>1 DEF Read, Items
  <2> HIDE DEF S
  <2>3. Cardinality(S) \in Nat /\ Cardinality(S) <= Cardinality(Read) /\ IsFiniteSet(S)
    BY <1>2, <2>2, LinesAreFinite, MoreLines
  <2>4. Cardinality(S) # 0
    BY <2>1, <2>3, FS_EmptySet
  <2> QED BY <1>3, <2>3, <2>4 DEF Place, S
<1> QED BY <1>2, <1>3, <1>4

LEMMA PlaceHere ==
  ASSUME TypeOK, Counted, pos <= Len(file), file[pos].word \in ItemWords
  PROVE  /\ Place(pos) = Cardinality(Read) + 1
         /\ Cardinality(Read \cup {pos}) = Cardinality(Read) + 1
<1>1. /\ pos \in DOMAIN file /\ pos \in Nat /\ nth \in Nat
      /\ \A p \in DOMAIN file : p \in Nat
  BY FileFits
<1>2. file[pos].word # "section"
  BY DEF ItemWords, Sectioned, Explicit, Stored, Indexed, Named, Yara, Consts, ConstType
<1>3. RuleOf(pos) = nth
  BY <1>1, <1>2, RuleHere
<1>4. Cardinality(Read \cup {pos}) = Cardinality(Read) + 1
  BY <1>1, PlacesRead, OneMoreLine
<1>5. {q \in Items(RuleOf(pos)) : q <= pos} = Read \cup {pos}
  <2>1. \A q \in DOMAIN file : q <= pos <=> q < pos \/ q = pos
    BY <1>1
  <2> QED BY <1>1, <1>3, <2>1 DEF Read, Items
<1> QED BY <1>4, <1>5 DEF Place

LEMMA HeadsFirstStep ==
  ASSUME TypeOK, Counted, Phased, HeadsFirst, [Next]_vars
  PROVE  HeadsFirst'
<1> DEFINE Own(q) == q < pos /\ RuleOf(q) = nth
<1>0. /\ file' = file /\ \A q : RuleOf(q)' = RuleOf(q)
      /\ mState \in 0..5 /\ pos \in Nat /\ nth \in Nat
      /\ \A q \in DOMAIN file : q \in Nat /\ (Own(q) => RuleOf(q) <= nth)
  BY ReaderTypes, SameText, FileFits DEF TypeOK
<1>1. CASE BeginsRule
  <2>1. pos <= Len(file) /\ file[pos].word = "section" /\ mState' = 1 /\ pos' = pos + 1
        /\ nth' = nth + 1
    BY <1>1 DEF BeginsRule, AtLine
  <2>2. Read' = {}
    BY <1>0, <2>1, ReadAfter
  <2>3. \A q \in DOMAIN file : q < pos + 1 /\ RuleOf(q) = nth + 1 => q = pos
    <3>1. ASSUME NEW q \in DOMAIN file, q < pos + 1, RuleOf(q) = nth + 1, q # pos
          PROVE  FALSE
      <4>1. q < pos
        BY <1>0, <3>1
      <4> QED BY <1>0, <3>1, <4>1, ReadLines
    <3> QED BY <3>1
  <2> QED BY <1>0, <2>1, <2>2, <2>3 DEF HeadsFirst
<1>2. ASSUME NEW word \in HeadWords, ReadsHead(word) PROVE HeadsFirst'
  <2>1. /\ pos <= Len(file) /\ file[pos].word = word /\ mState = 1 /\ phase = "read"
        /\ mState' = (IF word \in {"fpoi", "rule"} THEN 1 ELSE IF word = "scan" THEN 4 ELSE 2)
        /\ pos' = pos + 1 /\ nth' = nth /\ word # "section" /\ word \notin ItemWords
    BY <1>2, KeywordKinds DEF ReadsHead, AtLine
  <2>2. Read' = Read
    BY <1>0, <2>1, ReadAfter
  <2>3. pos \in DOMAIN file /\ RuleOf(pos) = nth
    BY <2>1, RuleHere
  <2>4. \A q \in DOMAIN file : q < pos + 1 <=> q < pos \/ q = pos
    BY <1>0
  <2> QED BY <1>0, <2>1, <2>2, <2>3, <2>4 DEF HeadsFirst
<1>3. CASE ReadsItem
  <2>1. /\ pos <= Len(file) /\ file[pos].word \in ItemWords /\ phase = "read"
        /\ mState' = (IF mState > 3 THEN 5 ELSE 3)
        /\ pos' = pos + 1 /\ nth' = nth
    BY <1>3, ReaderHere, LineHere, WithItemIs DEF ReadsItem, AtLine, SetParser, Parser
  <2>2. Read' = Read \cup {pos}
    BY <1>0, <2>1, ReadAfter, KeywordKinds
  <2>3. pos \in DOMAIN file /\ RuleOf(pos) = nth /\ file[pos].word # "scan"
    BY <2>1, RuleHere, KeywordKinds DEF HeadWords
  <2>4. \A q \in DOMAIN file : q < pos + 1 <=> q < pos \/ q = pos
    BY <1>0
  <2>5. mState = 0 => pos = 1
    BY <1>0, <2>1, FileFits, KeywordKinds DEF Phased, AtBreak
  <2>6. mState > 3 <=> \E q \in DOMAIN file : q < pos /\ RuleOf(q) = nth /\ file[q].word = "scan"
    <3>1. CASE mState = 0
      BY <1>0, <2>5, <3>1, FileFits
    <3> QED BY <1>0, <2>1, <3>1 DEF HeadsFirst
  <2> QED BY <1>0, <2>1, <2>2, <2>3, <2>4, <2>6 DEF HeadsFirst
<1>4. CASE EndsRule \/ Stops
  BY <1>4, RuleEndsIs DEF EndsRule, Stops, HeadsFirst
<1>5. CASE GoesOn
  BY <1>0, <1>5 DEF GoesOn, Phased, HeadsFirst
<1>6. CASE StaysAtRule
  BY <1>6 DEF StaysAtRule, HeadsFirst
<1>7. CASE UNCHANGED vars
  BY <1>0, <1>7, SameText DEF vars, reader, HeadsFirst, Read
<1> QED BY <1>1, <1>2, <1>3, <1>4, <1>5, <1>6, <1>7, Kinds

-----------------------------------------------------------------------------
(* The items of a rule                                                     *)

(* Where the offsets stand, m_state tells whether there is one.            *)
LEMMA AtHere ==
  ASSUME TypeOK, Counted, Phased, HeadsFirst, IsLaidOut(nth), phase = "read",
         pos <= Len(file), file[pos].word \in ItemWords
  PROVE  file[pos].at # NoAt <=> mState > 3
<1>1. /\ pos \in DOMAIN file /\ RuleOf(pos) = nth /\ pos \in Nat /\ mState \in 0..5
      /\ Len(file) \in Nat /\ DOMAIN file = 1..Len(file)
  BY RuleHere, FileFits, KeywordKinds DEF TypeOK
<1>2. file[pos].at # NoAt <=>
        \E q \in DOMAIN file : q < pos /\ RuleOf(q) = nth /\ file[q].word = "scan"
  BY <1>1 DEF IsLaidOut, Items
<1>3. CASE mState = 0
  <2>1. pos = 1
    BY <1>1, <1>3, KeywordKinds DEF Phased, AtBreak
  <2> QED BY <1>1, <1>2, <1>3, <2>1
<1>4. CASE mState # 0
  BY <1>1, <1>2, <1>4 DEF HeadsFirst
<1> QED BY <1>3, <1>4

(* One item more is pushed when the next is read.                          *)
LEMMA PendingStep ==
  ASSUME TypeOK, Counted, pos <= Len(file), file[pos].word \in ItemWords,
         NEW items \in Seq(PathItem), NEW next,
         \/ Read = {} /\ items = <<>> /\ next = <<>>
         \/ Pending(items) /\ next = Append(items, item),
         file' = file, pos' = pos + 1, nth' = nth, Agrees(item', file[pos])
  PROVE  /\ Len(next) + 1 = Cardinality(Read')
         /\ \A p \in Read' : IF Place(p) <= Len(next) THEN Agrees(next[Place(p)], file[p])
                                                     ELSE Agrees(item', file[p])
<1>1. /\ Read' = Read \cup {pos} /\ Cardinality(Read) \in Nat
      /\ Cardinality(Read') = Cardinality(Read) + 1
      /\ Place(pos) = Cardinality(Read) + 1
      /\ \A p \in Read : Place(p) \in 1..Cardinality(Read)
  BY ReadAfter, PlaceHere, PlacesRead, KeywordKinds
<1>2. CASE Read = {} /\ items = <<>> /\ next = <<>>
  BY <1>1, <1>2, FS_EmptySet
<1>3. CASE Pending(items) /\ next = Append(items, item)
  <2>1. Len(items) \in Nat /\ Len(next) = Len(items) + 1 /\ item \in PathItem
        /\ next[Len(items) + 1] = item
        /\ \A k \in 1..Len(items) : next[k] = items[k]
    BY <1>3 DEF TypeOK
  <2>2. Len(items) + 1 = Cardinality(Read)
    BY <1>3 DEF Pending
  <2>3. ASSUME NEW p \in Read
        PROVE  Place(p) <= Len(next) /\ Agrees(next[Place(p)], file[p])
    <3>1. Place(p) \in 1..(Len(items) + 1)
      BY <1>1, <2>1, <2>2
    <3>2. CASE Place(p) <= Len(items)
      BY <1>3, <2>1, <3>1, <3>2 DEF Pending
    <3>3. CASE ~(Place(p) <= Len(items))
      BY <1>3, <2>1, <3>1, <3>3 DEF Pending
    <3> QED BY <2>1, <3>1, <3>2, <3>3
  <2> QED BY <1>1, <2>1, <2>2, <2>3
<1> QED BY <1>2, <1>3

(* All items of the rule were read when it ends.                           *)
LEMMA AllRead ==
  ASSUME TypeOK, Counted, AtBreak
  PROVE  Read = Items(nth)
BY ReadLines, FileFits DEF Read, Items

(* The last one is pushed when the rule ends.                              *)
LEMMA PendingEnds ==
  ASSUME TypeOK, Counted, AtBreak, NEW items \in Seq(PathItem), Pending(items)
  PROVE  /\ Len(Append(items, item)) = Cardinality(Items(nth))
         /\ \A p \in Items(nth) : Agrees(Append(items, item)[Place(p)], file[p])
<1>1. /\ Read = Items(nth) /\ item \in PathItem /\ Len(items) \in Nat
      /\ Len(items) + 1 = Cardinality(Read)
  BY AllRead DEF Pending, TypeOK
<1>2. Len(Append(items, item)) = Len(items) + 1
  BY <1>1
<1>3. ASSUME NEW p \in Items(nth)
      PROVE  Agrees(Append(items, item)[Place(p)], file[p])
  <2>1. Place(p) \in 1..(Len(items) + 1)
    BY <1>1, PlacesRead
  <2>2. CASE Place(p) <= Len(items)
    BY <1>1, <2>1, <2>2 DEF Pending
  <2>3. CASE Place(p) = Len(items) + 1
    BY <1>1, <2>3 DEF Pending
  <2> QED BY <1>1, <2>1, <2>2, <2>3
<1> QED BY <1>1, <1>2, <1>3

LEMMA WrittenStep ==
  ASSUME TypeOK, Counted, Phased, HeadsFirst, Written, [Next]_vars
  PROVE  Written'
<1>0. /\ file' = file /\ mState \in 0..5 /\ path \in PathEdge /\ item \in PathItem
      /\ path.list \in Seq(PathItem) /\ path.scan \in Seq(PathItem)
      /\ \A p : Place(p)' = Place(p)
      /\ \A k : Items(k)' = Items(k) /\ Words(k)' = Words(k) /\ IsLaidOut(k)' = IsLaidOut(k)
  BY ReaderTypes, SameText DEF TypeOK, PathEdge
<1>1. CASE BeginsRule
  <2>1. phase = "read" /\ phase' = "read" /\ mState \in {0, 1} /\ mState' = 1 /\ path' = path
    BY <1>0, <1>1 DEF BeginsRule, AtLine
  <2> QED BY <2>1 DEF Written, ItemsAreAsWritten
<1>2. ASSUME NEW word \in HeadWords, ReadsHead(word) PROVE Written'
  <2>1. /\ phase = "read" /\ phase' = "read" /\ mState = 1 /\ mState' \in {1, 2, 4}
        /\ path'.list = path.list /\ path'.scan = path.scan
    BY <1>2 DEF ReadsHead, AtLine
  <2> QED BY <2>1 DEF Written, ItemsAreAsWritten
<1>3. CASE ReadsItem
  <2> DEFINE line == file[pos]
             r == WithItem(Parser, line)
  <2>1. /\ phase = "read" /\ phase' = "read" /\ pos <= Len(file) /\ line.word \in ItemWords
        /\ ~Refused(line) /\ pos' = pos + 1 /\ nth' = nth
        /\ mState' = r.m /\ item' = r.item /\ path' = r.path
    BY <1>3 DEF ReadsItem, AtLine, SetParser
  <2>2. Parser \in Reader /\ line \in Line /\ line.arg \in Names
        /\ Parser.m = mState /\ Parser.item = item /\ Parser.path = path
    BY <2>1, ReaderHere, LineHere DEF Parser
  <2>3. line.word \in Stored => Number(line) # 0
    BY <2>1 DEF Refused
  <2>4. /\ mState' = IF mState > 3 THEN 5 ELSE 3
        /\ mState > 3 => path'.list = path.list
        /\ mState # 5 => path'.scan = path.scan
        /\ line.at # NoAt <=> mState > 3 =>
             /\ path'.list = IF mState = 3 THEN Append(path.list, item) ELSE path.list
             /\ path'.scan = IF mState = 5 THEN Append(path.scan, item) ELSE path.scan
             /\ Agrees(item', line)
    <3> HIDE DEF line
    <3> QED BY <2>1, <2>2, <2>3, WithItemIs
  <2> HIDE DEF r
  <2>5. /\ mState # 3 => path.list = <<>>
        /\ mState # 5 => path.scan = <<>>
        /\ mState' = 3 => path'.scan = <<>>
        /\ mState' = 5 => path'.list = <<>>
    BY <1>0, <2>1, <2>4 DEF Written
  <2>6. ASSUME IsLaidOut(nth), mState' = 3 PROVE Pending(path.list)'
    <3>1. line.at # NoAt <=> mState > 3
      BY <2>1, <2>6, AtHere
    <3>2. /\ \/ Read = {} /\ path.list = <<>> /\ path'.list = <<>>
             \/ Pending(path.list) /\ path'.list = Append(path.list, item)
          /\ Agrees(item', file[pos])
      <4>1. mState \in {0, 1, 2, 3} /\ (mState = 0 => Read = {})
        <5>1. mState \in {0, 1, 2, 3}
          BY <1>0, <2>4, <2>6
        <5>2. ASSUME mState = 0 PROVE Read = {}
          <6>1. pos = 1
            BY <2>1, <5>2, FileFits, KeywordKinds DEF Phased, AtBreak
          <6> QED BY <6>1, FileFits DEF Read, Items
        <5> QED BY <5>1, <5>2
      <4>2. CASE mState = 3
        BY <2>1, <2>4, <2>6, <3>1, <4>2 DEF Written
      <4>3. CASE mState # 3
        BY <2>1, <2>4, <2>5, <3>1, <4>1, <4>3 DEF HeadsFirst
      <4> QED BY <4>2, <4>3
    <3>3. /\ Len(path'.list) + 1 = Cardinality(Read')
          /\ \A p \in Read' :
               IF Place(p) <= Len(path'.list) THEN Agrees((path'.list)[Place(p)], file[p])
                                              ELSE Agrees(item', file[p])
      BY <1>0, <2>1, <3>2, PendingStep
    <3> QED BY <1>0, <3>3 DEF Pending
  <2>7. ASSUME IsLaidOut(nth), mState' = 5 PROVE Pending(path.scan)'
    <3>1. line.at # NoAt <=> mState > 3
      BY <2>1, <2>7, AtHere
    <3>2. /\ \/ Read = {} /\ path.scan = <<>> /\ path'.scan = <<>>
             \/ Pending(path.scan) /\ path'.scan = Append(path.scan, item)
          /\ Agrees(item', file[pos])
      <4>1. mState \in {4, 5}
        BY <1>0, <2>4, <2>7
      <4>2. CASE mState = 5
        BY <2>1, <2>4, <2>7, <3>1, <4>2 DEF Written
      <4>3. CASE mState = 4
        BY <2>1, <2>4, <2>5, <3>1, <4>1, <4>3 DEF HeadsFirst
      <4> QED BY <4>1, <4>2, <4>3
    <3>3. /\ Len(path'.scan) + 1 = Cardinality(Read')
          /\ \A p \in Read' :
               IF Place(p) <= Len(path'.scan) THEN Agrees((path'.scan)[Place(p)], file[p])
                                              ELSE Agrees(item', file[p])
      BY <1>0, <2>1, <3>2, PendingStep
    <3> QED BY <1>0, <3>3 DEF Pending
  <2>8. IsLaidOut(nth)' <=> IsLaidOut(nth)
    BY <1>0, <2>1
  <2>9. mState' \in {3, 5}
    BY <2>4
  <2> QED BY <2>1, <2>5, <2>6, <2>7, <2>8, <2>9 DEF Written, ItemsAreAsWritten
<1>4. CASE EndsRule
  <2>1. /\ phase = "read" /\ phase' = "apply" /\ mState \in {2, 3, 4, 5} /\ mState' = 0
        /\ path'.list = (IF mState > 3 THEN path.list ELSE Append(path.list, item))
        /\ path'.scan = (IF mState > 3 THEN Append(path.scan, item) ELSE path.scan)
        /\ AtBreak /\ nth' = nth
    BY <1>0, <1>4, RuleEndsIs DEF EndsRule
  <2>2. /\ mState # 3 => path.list = <<>>
        /\ mState # 5 => path.scan = <<>>
    BY <1>0, <2>1 DEF Written
  <2>6. /\ Append(path.list, item) \in Seq(PathItem) /\ Append(path.list, item) # <<>>
        /\ Append(path.scan, item) \in Seq(PathItem) /\ Append(path.scan, item) # <<>>
    <3>1. /\ Append(path.list, item) \in Seq(PathItem) /\ Len(Append(path.list, item)) # 0
          /\ Append(path.scan, item) \in Seq(PathItem) /\ Len(Append(path.scan, item)) # 0
      BY <1>0
    <3> QED BY <3>1, EmptySeq
  <2>3. mState > 3 => "scan" \in Words(nth)
    BY <1>0, <2>1 DEF HeadsFirst, Words
  <2>4. \/ path'.list # <<>> /\ path'.scan = <<>>
        \/ path'.list = <<>> /\ path'.scan # <<>> /\ "scan" \in Words(nth)
    BY <1>0, <2>1, <2>2, <2>3, <2>6
  <2>5. ASSUME Items(nth) # {}, IsLaidOut(nth)
        PROVE  /\ Len(path'.list \o path'.scan) = Cardinality(Items(nth))
               /\ \A p \in Items(nth) : Agrees((path'.list \o path'.scan)[Place(p)], file[p])
    <3>1. mState \in {3, 5}
      BY <2>1, <2>5, AllRead DEF HeadsFirst
    <3>2. CASE mState = 3
      <4>0. path'.list = Append(path.list, item) /\ path'.scan = <<>>
        BY <2>1, <2>2, <3>2
      <4>1. path'.list \o path'.scan = Append(path.list, item)
        BY <2>6, <4>0, ConcatEmptySeq
      <4>2. Pending(path.list)
        BY <2>1, <2>5, <3>2 DEF Written
      <4> QED BY <1>0, <2>1, <4>1, <4>2, PendingEnds
    <3>3. CASE mState = 5
      <4>0. path'.list = <<>> /\ path'.scan = Append(path.scan, item)
        BY <2>1, <2>2, <3>3
      <4>1. path'.list \o path'.scan = Append(path.scan, item)
        BY <2>6, <4>0, ConcatEmptySeq
      <4>2. Pending(path.scan)
        BY <2>1, <2>5, <3>3 DEF Written
      <4> QED BY <1>0, <2>1, <4>1, <4>2, PendingEnds
    <3> QED BY <3>1, <3>2, <3>3
  <2> QED BY <1>0, <2>1, <2>4, <2>5 DEF Written, ItemsAreAsWritten
<1>5. CASE Stops
  BY <1>5 DEF Stops, Written, ItemsAreAsWritten
<1>6. CASE GoesOn
  BY <1>6, FreshPathIs DEF GoesOn, NextIteration, Phased, Written, ItemsAreAsWritten
<1>7. CASE StaysAtRule
  BY <1>0, <1>7 DEF StaysAtRule, Written, ItemsAreAsWritten
<1>8. CASE UNCHANGED vars
  BY <1>0, <1>8 DEF vars, reader, Written, ItemsAreAsWritten, Pending, Read
<1> QED BY <1>1, <1>2, <1>3, <1>4, <1>5, <1>6, <1>7, <1>8, Kinds

-----------------------------------------------------------------------------
(* Plain rules                                                             *)
LEMMA NthStep ==
  ASSUME TypeOK, [Next]_vars
  PROVE  \/ BeginsRule /\ nth' = nth + 1
         \/ nth' = nth /\ (mState' = 1 => mState = 1)
<1>1. CASE BeginsRule
  BY <1>1 DEF BeginsRule
<1>2. CASE \E word \in HeadWords : ReadsHead(word)
  BY <1>2 DEF ReadsHead
<1>3. CASE ReadsItem
  <2>1. mState' \in {3, 5} /\ nth' = nth
    BY <1>3, ReaderHere, LineHere, WithItemIs DEF ReadsItem, AtLine, SetParser, Parser
  <2> QED BY <2>1
<1>4. CASE EndsRule
  BY <1>4, RuleEndsIs DEF EndsRule
<1>5. CASE Stops \/ GoesOn \/ StaysAtRule \/ UNCHANGED vars
  BY <1>5 DEF Stops, GoesOn, StaysAtRule, vars, reader
<1> QED BY <1>1, <1>2, <1>3, <1>4, <1>5, Kinds

(* A rule that is kept is numbered.                                        *)
LEMMA KeptStep ==
  ASSUME TypeOK, Phased, Unnumbered, [Next]_vars
  PROVE  \A n \in DOMAIN rules' :
           /\ ~IsPlain(rules'[n].nth) /\ rules'[n].nth <= nth'
           /\ phase' = "read" /\ mState' = 1 => rules'[n].nth < nth'
<1>1. /\ nth \in Nat /\ \A n \in DOMAIN rules : rules[n] \in KeptRule
  BY DEF TypeOK
<1>2. \A n \in DOMAIN rules :
        /\ rules[n].nth \in Nat /\ ~IsPlain(rules[n].nth) /\ rules[n].nth <= nth
        /\ phase = "read" /\ mState = 1 => rules[n].nth < nth
  BY <1>1 DEF Unnumbered, KeptRule
<1>3. CASE rules' = rules
  <2>1. CASE BeginsRule /\ nth' = nth + 1
    BY <1>1, <1>2, <1>3, <2>1
  <2>2. CASE nth' = nth /\ ~(phase' = "read" /\ mState' = 1)
    BY <1>1, <1>2, <1>3, <2>2
  <2>3. CASE nth' = nth /\ phase' = "read" /\ mState' = 1
    <3>1. mState = 1
      BY <1>1, <2>3, NthStep
    <3>2. phase = "read"
      BY <1>1, <2>3, <3>1, Kinds DEF BeginsRule, ReadsHead, ReadsItem, EndsRule, Stops,
          GoesOn, StaysAtRule, AtLine, Phased, vars
    <3> QED BY <1>2, <1>3, <2>3, <3>1, <3>2
  <2> QED BY <2>1, <2>2, <2>3, NthStep
<1>4. CASE KeepRule
  <2>1. /\ phase = "apply" /\ path.rule # 0 /\ nth' = nth /\ mState' = mState
    BY <1>4 DEF KeepRule, reader
  <2>2. ~IsPlain(nth) /\ mState' = 0
    BY <2>1 DEF Unnumbered, IsPlain, Phased
  <2>3. \A n \in DOMAIN rules' :
          rules'[n].nth = (IF n = path.rule THEN nth ELSE rules[n].nth)
          /\ (n # path.rule => n \in DOMAIN rules)
    BY <1>4, KeepRuleIs
  <2> QED BY <1>1, <1>2, <2>1, <2>2, <2>3
<1> QED BY <1>3, <1>4, LogKinds

LEMMA UnnumberedStep ==
  ASSUME TypeOK, Counted, Phased, HeadsFirst, Written, Unnumbered, [Next]_vars
  PROVE  Unnumbered'
<1> DEFINE Excused(k) == Words(k) \cap {"rule", "scan"} # {} \/ ~IsFresh(k)
           U1 == phase \in {"read", "apply", "scan"} /\ path.rule # 0 => Excused(nth)
           U2 == phase = "read" /\ mState = 0 => path.rule = 0 /\ path.fpoi = 0
           U3 == phase = "read" /\ mState = 3 /\ IsPlain(nth) =>
                   NamesNothing(path.list) /\ item.type \notin Naming
           U4 == phase = "apply" /\ IsPlain(nth) => NamesNothing(path.list)
           U5 == \A n \in DOMAIN rules :
                   /\ ~IsPlain(rules[n].nth) /\ rules[n].nth <= nth
                   /\ phase = "read" /\ mState = 1 => rules[n].nth < nth
<1>0. /\ file' = file /\ mState \in 0..5 /\ path \in PathEdge /\ item \in PathItem
      /\ path.list \in Seq(PathItem) /\ path.scan \in Seq(PathItem) /\ nth \in Nat
      /\ \A k : /\ Words(k)' = Words(k) /\ IsFresh(k)' = IsFresh(k)
                /\ IsPlain(k)' = IsPlain(k)
  BY ReaderTypes, SameText DEF TypeOK, PathEdge
<1>1. U1 /\ U2 /\ U3 /\ U4
  BY DEF Unnumbered
<1>2. U5'
  BY <1>0, KeptStep
<1>3. SUFFICES U1' /\ U2' /\ U3' /\ U4'
  BY <1>2 DEF Unnumbered
<1>4. CASE BeginsRule
  <2>1. /\ phase = "read" /\ phase' = "read" /\ mState \in {0, 1} /\ mState' = 1
        /\ path' = path /\ nth' = nth + 1 /\ AtBreak
    BY <1>0, <1>4 DEF BeginsRule, AtLine, AtBreak
  <2>2. CASE mState = 0
    BY <1>1, <2>1, <2>2
  <2>3. CASE mState = 1
    <3>1. Items(nth) = {} /\ nth >= 1
      BY <2>1, <2>3, AllRead DEF HeadsFirst, Phased
    <3>2. ~IsFresh(nth + 1)
      BY <1>0, <3>1 DEF IsFresh
    <3> QED BY <1>0, <2>1, <3>2
  <2> QED BY <2>1, <2>2, <2>3
<1>5. ASSUME NEW word \in HeadWords, ReadsHead(word) PROVE U1' /\ U2' /\ U3' /\ U4'
  <2>1. /\ phase = "read" /\ phase' = "read" /\ mState' \in {1, 2, 4} /\ nth' = nth
        /\ pos <= Len(file) /\ file[pos].word = word
        /\ word \notin {"scan", "rule"} => path'.rule = path.rule
    BY <1>5 DEF ReadsHead, AtLine
  <2>2. word \in Words(nth)
    BY <2>1, RuleHere, KeywordKinds DEF Words
  <2>3. U1'
    BY <1>0, <1>1, <2>1, <2>2
  <2> QED BY <2>1, <2>3
<1>6. CASE ReadsItem
  <2> DEFINE line == file[pos]
             r == WithItem(Parser, line)
  <2>1. /\ phase = "read" /\ phase' = "read" /\ pos <= Len(file) /\ line.word \in ItemWords
        /\ pos' = pos + 1 /\ nth' = nth
        /\ mState' = r.m /\ item' = r.item /\ path' = r.path
    BY <1>6 DEF ReadsItem, AtLine, SetParser
  <2>2. Parser \in Reader /\ line \in Line /\ line.arg \in Names
        /\ Parser.m = mState /\ Parser.item = item /\ Parser.path = path
    BY <2>1, ReaderHere, LineHere DEF Parser
  <2>3. /\ mState' = IF mState > 3 THEN 5 ELSE 3
        /\ SameHead(path', path)
        /\ line.at # NoAt <=> mState > 3 =>
             path'.list = IF mState = 3 THEN Append(path.list, item) ELSE path.list
        /\ line.word \notin {"poi", "check"} \cup Yara => item'.type \notin Naming
    <3> HIDE DEF line
    <3> QED BY <2>1, <2>2, WithItemIs
  <2> HIDE DEF r
  <2>4. U1' /\ U2' /\ U4'
    BY <1>0, <1>1, <2>1, <2>3 DEF SameHead
  <2>5. ASSUME mState' = 3, IsPlain(nth)
        PROVE  NamesNothing(path'.list) /\ item'.type \notin Naming
    <3>1. line.word \in Words(nth)
      BY <2>1, RuleHere, KeywordKinds DEF Words
    <3>2. item'.type \notin Naming
      BY <2>3, <2>5, <3>1 DEF IsPlain
    <3>3. line.at # NoAt <=> mState > 3
      BY <2>1, <2>5, AtHere DEF IsPlain
    <3>4. CASE mState = 3
      <4>1. path'.list = Append(path.list, item)
        BY <2>3, <3>3, <3>4
      <4>2. NamesNothing(path.list) /\ item.type \notin Naming
        BY <1>1, <2>1, <2>5, <3>4
      <4> QED BY <1>0, <3>2, <4>1, <4>2 DEF NamesNothing
    <3>5. CASE mState # 3
      <4>1. path'.list = <<>>
        BY <2>1, <2>3, <3>3, <3>5 DEF Written
      <4> QED BY <3>2, <4>1 DEF NamesNothing
    <3> QED BY <3>4, <3>5
  <2>6. U3'
    BY <1>0, <2>1, <2>5 DEF NamesNothing
  <2> QED BY <2>4, <2>6
<1>7. CASE EndsRule
  <2>1. /\ phase = "read" /\ phase' = "apply" /\ mState \in {2, 3, 4, 5} /\ mState' = 0
        /\ path'.list = (IF mState > 3 THEN path.list ELSE Append(path.list, item))
        /\ SameHead(path', path) /\ AtBreak /\ nth' = nth
    BY <1>0, <1>7, RuleEndsIs DEF EndsRule
  <2>2. ASSUME IsPlain(nth) PROVE NamesNothing(path'.list)
    <3>1. CASE mState = 2
      BY <2>1, <2>2, <3>1, AllRead DEF HeadsFirst, IsPlain
    <3>2. CASE mState = 3
      <4>1. NamesNothing(path.list) /\ item.type \notin Naming
        BY <1>1, <2>1, <2>2, <3>2
      <4> QED BY <1>0, <2>1, <3>2, <4>1 DEF NamesNothing
    <3>3. CASE mState > 3
      <4>1. path'.list = <<>>
        BY <2>1, <3>3 DEF Written
      <4> QED BY <4>1 DEF NamesNothing
    <3> QED BY <2>1, <3>1, <3>2, <3>3
  <2> QED BY <1>0, <1>1, <2>1, <2>2 DEF SameHead, NamesNothing
<1>8. CASE Stops
  BY <1>8 DEF Stops
<1>9. CASE GoesOn
  BY <1>0, <1>9, FreshPathIs DEF GoesOn, NextIteration, Phased
<1>10. CASE StaysAtRule
  BY <1>0, <1>1, <1>10 DEF StaysAtRule
<1>11. CASE UNCHANGED vars
  BY <1>0, <1>1, <1>11 DEF vars, reader, NamesNothing
<1> QED BY <1>4, <1>5, <1>6, <1>7, <1>8, <1>9, <1>10, <1>11, Kinds

-----------------------------------------------------------------------------
(* What was applied                                                        *)

(* A plain rule can only be applied.                                       *)
LEMMA PlainIsApplied ==
  ASSUME TypeOK, Written, Unnumbered, IsPlain(nth)
  PROVE  ~KeepRule /\ ~SkipRule /\ ~RefuseScan /\ ~EndScan
<1>1. Words(nth) \cap {"rule", "scan"} = {} /\ IsFresh(nth)
  BY DEF IsPlain
<1>2. phase \in {"apply", "scan"} => path.rule = 0
  BY <1>1 DEF Unnumbered
<1>3. phase \in {"apply", "scan"} => path.scan = <<>>
  BY <1>1 DEF Written
<1>4. phase = "apply" => NamesNothing(path.list)
  BY DEF Unnumbered
<1>5. ASSUME phase = "apply" PROVE ~SkipRule
  <2>1. \A k \in DOMAIN path.list : path.list[k].type # "rule" /\ path.list[k].type \notin Yara
    BY <1>4, <1>5 DEF NamesNothing, Naming
  <2>2. RulesNamed(path) = {}
    BY <1>3, <1>5, <2>1 DEF RulesNamed, Range
  <2>3. Resolved(path) = {path}
    BY <2>2 DEF Resolved
  <2> QED BY <2>1, <2>2, <2>3 DEF SkipRule
<1> QED BY <1>2, <1>3, <1>5 DEF KeepRule, SkipRule, RefuseScan, ScanResolved, EndScan, Written

LEMMA GoesOnBy ==
  ASSUME TypeOK, GoesOn, [Next]_vars
  PROVE  ApplyRule \/ (log' = log /\ (KeepRule \/ SkipRule \/ RefuseScan \/ EndScan))
<1>1. phase \in {"apply", "scan"} /\ phase' = "read"
  BY DEF GoesOn, NextIteration
<1> QED BY <1>1 DEF Next, ReadLine, Section, EntryLine, ScanLine, FpoiLine, RuleLine,
    FuncLine, YfuncLine, SfuncLine, FsectionLine, HeadLine, ItemLine, ParseError,
    EndOfFile, Current, KeepRule, SkipRule, ResolveForever, BeginScan, RefuseScan,
    EvaluateRule, EndScan, Done, vars

LEMMA NothingBefore ==
  ASSUME TypeOK, Counted, pos = 1
  PROVE  nth = 0
<1>1. {q \in Sections : q < pos} = {}
  BY FileFits DEF Sections
<1> QED BY <1>1, FS_EmptySet DEF Counted

(* The order survives an application of a rule that is behind the plain    *)
(* ones, or is not plain.                                                  *)
LEMMA InOrderGrows ==
  ASSUME InOrder, file' = file, \A k : IsPlain(k)' = IsPlain(k), NEW n \in Nat,
         Len(log) \in Nat, DOMAIN log = 1..Len(log), DOMAIN log' = 1..(Len(log) + 1),
         \A i \in DOMAIN log : log'[i] = log[i],
         log'[Len(log) + 1].rule = n,
         \A i \in DOMAIN log : IsPlain(log[i].rule) /\ IsPlain(n) => log[i].rule < n
  PROVE  InOrder'
<1>1. SUFFICES ASSUME NEW i \in DOMAIN log', NEW j \in DOMAIN log', i < j,
                      IsPlain(log'[i].rule), IsPlain(log'[j].rule)
               PROVE  log'[i].rule < log'[j].rule
  BY DEF InOrder
<1>2. i \in DOMAIN log /\ log'[i] = log[i]
  BY <1>1
<1>3. CASE j \in DOMAIN log
  <2>1. log'[j] = log[j]
    BY <1>3
  <2> QED BY <1>1, <1>2, <1>3, <2>1 DEF InOrder
<1>4. CASE j \notin DOMAIN log
  <2>1. j = Len(log) + 1
    BY <1>4
  <2>2. log'[j].rule = n
    BY <2>1
  <2> QED BY <1>1, <1>2, <2>2
<1> QED BY <1>3, <1>4

LEMMA LoggedStep ==
  ASSUME TypeOK, Counted, Phased, HeadsFirst, Written, Unnumbered, Logged, [Next]_vars
  PROVE  Logged'
<1> DEFINE L1 == \A i \in DOMAIN log :
                   /\ log[i].rule <= nth
                   /\ Open /\ IsPlain(nth) => log[i].rule # nth
           L3 == \A k \in 1..nth :
                   IsPlain(k) /\ (k < nth \/ Finished) => \E i \in DOMAIN log : log[i].rule = k
<1>0. /\ file' = file /\ \A k : IsPlain(k)' = IsPlain(k)
      /\ mState \in 0..5 /\ nth \in Nat /\ pos \in Nat /\ Len(file) \in Nat
      /\ log \in Seq(Application) /\ DOMAIN log = 1..Len(log) /\ Len(log) \in Nat
  BY ReaderTypes, SameText, FileFits DEF TypeOK
<1>1. L1 /\ L3 /\ InOrder /\ \A i \in DOMAIN log : log[i].rule \in Nat
  <2>1. \A i \in DOMAIN log : log[i] \in Application
    BY <1>0
  <2>2. \A i \in DOMAIN log : log[i].rule \in Nat
    BY <2>1 DEF Application
  <2> QED BY <2>2 DEF Logged
<1>2. SUFFICES L1' /\ L3' /\ InOrder'
  BY DEF Logged
<1>3. ASSUME log' = log PROVE InOrder'
  BY <1>0, <1>1, <1>3 DEF InOrder
<1>4. CASE BeginsRule
  <2>1. /\ phase = "read" /\ phase' = "read" /\ mState \in {0, 1} /\ mState' = 1
        /\ nth' = nth + 1 /\ AtBreak /\ log' = log
    BY <1>0, <1>4 DEF BeginsRule, AtLine, AtBreak, Kept
  <2>2. L1'
    BY <1>0, <1>1, <2>1
  <2>3. ~Finished'
    BY <2>1 DEF Finished
  <2>4. ASSUME nth \in 1..nth, IsPlain(nth) PROVE Finished
    <3>1. mState # 1
      BY <2>1, <2>4, AllRead DEF HeadsFirst, IsPlain
    <3>2. pos # 1
      BY <1>0, <2>4, NothingBefore
    <3> QED BY <2>1, <3>1, <3>2 DEF Finished
  <2>5. L3'
    <3>1. ASSUME NEW k \in 1..(nth + 1), IsPlain(k), k < nth + 1
          PROVE  \E i \in DOMAIN log : log[i].rule = k
      <4>1. CASE k < nth
        BY <1>0, <1>1, <3>1, <4>1
      <4>2. CASE k = nth
        BY <1>0, <1>1, <2>4, <3>1, <4>2
      <4> QED BY <1>0, <3>1, <4>1, <4>2
    <3> QED BY <1>0, <2>1, <2>3, <3>1
  <2> QED BY <1>3, <2>1, <2>2, <2>5
<1>5. CASE (\E word \in HeadWords : ReadsHead(word)) \/ ReadsItem
  <2>1. /\ phase = "read" /\ phase' = "read" /\ mState' # 0 /\ nth' = nth /\ log' = log
        /\ mState = 0 => pos = 1
    <3>1. CASE \E word \in HeadWords : ReadsHead(word)
      BY <3>1 DEF ReadsHead, AtLine, Kept
    <3>2. CASE ReadsItem
      <4>1. pos <= Len(file) /\ file[pos].word \in ItemWords
        BY <3>2 DEF ReadsItem, AtLine
      <4>2. mState' \in {3, 5}
        BY <1>0, <3>2, ReaderHere, LineHere, WithItemIs DEF ReadsItem, AtLine, SetParser, Parser
      <4> QED BY <1>0, <3>2, <4>1, <4>2, KeywordKinds
              DEF ReadsItem, AtLine, Kept, Phased, AtBreak
    <3> QED BY <1>5, <3>1, <3>2
  <2>2. Open /\ ~Finished'
    BY <2>1 DEF Open, Finished
  <2> QED BY <1>0, <1>1, <1>3, <2>1, <2>2
<1>6. CASE EndsRule
  <2>1. phase = "read" /\ mState > 1 /\ phase' = "apply" /\ nth' = nth /\ log' = log
    BY <1>6, RuleEndsIs DEF EndsRule, Kept
  <2>2. Open /\ ~Finished'
    BY <2>1 DEF Open, Finished
  <2> QED BY <1>0, <1>1, <1>3, <2>1, <2>2
<1>7. CASE Stops
  <2>1. /\ phase = "read" /\ phase' = "over" /\ nth' = nth /\ log' = log /\ pos' = pos
        /\ pos > Len(file) => mState <= 1
    BY <1>7 DEF Stops, Kept
  <2>2. ~Open' /\ (Finished' => pos > Len(file))
    BY <1>0, <2>1 DEF Open, Finished
  <2>3. ASSUME nth \in 1..nth, IsPlain(nth), pos > Len(file) PROVE Finished
    <3>1. mState # 1
      BY <2>1, <2>3, AllRead DEF HeadsFirst, IsPlain, AtBreak
    <3>2. pos # 1
      BY <1>0, <2>3, NothingBefore
    <3> QED BY <1>0, <2>1, <2>3, <3>1, <3>2 DEF Finished
  <2> QED BY <1>0, <1>1, <1>3, <2>1, <2>2, <2>3
<1>8. CASE GoesOn
  <2>1. /\ phase \in {"apply", "scan"} /\ phase' = "read" /\ mState' = mState /\ pos' = pos
        /\ nth' = nth /\ mState = 0 /\ pos # 1
    BY <1>8 DEF GoesOn, NextIteration, Phased
  <2>2. ~Open'
    BY <2>1 DEF Open
  <2>3. CASE ApplyRule
    <3>1. phase = "apply" /\ path \in PathEdge /\ Applies(path, nth)
      BY <2>3 DEF ApplyRule, Log, Applies, TypeOK
    <3>2. /\ DOMAIN log' = 1..(Len(log) + 1) /\ \A i \in DOMAIN log : log'[i] = log[i]
          /\ log'[Len(log) + 1].rule = nth
      BY <1>0, <3>1, LogIs
    <3>3. Open
      BY <3>1 DEF Open
    <3>4. L1'
      BY <1>0, <1>1, <2>1, <2>2, <3>2
    <3>5. InOrder'
      <4>1. \A i \in DOMAIN log : IsPlain(nth) => log[i].rule < nth
        BY <1>0, <1>1, <3>3
      <4> QED BY <1>0, <1>1, <3>2, <4>1, InOrderGrows
    <3>6. L3'
      BY <1>0, <1>1, <2>1, <3>2
    <3> QED BY <3>4, <3>5, <3>6
  <2>4. CASE log' = log /\ (KeepRule \/ SkipRule \/ RefuseScan \/ EndScan)
    <3>1. ~IsPlain(nth)
      BY <2>4, PlainIsApplied
    <3> QED BY <1>0, <1>1, <1>3, <2>1, <2>2, <2>4, <3>1
  <2> QED BY <1>8, <2>3, <2>4, GoesOnBy
<1>9. CASE StaysAtRule
  <2>1. phase \in {"apply", "scan"} /\ phase' \in {"loops", "scan"} /\ nth' = nth
    BY <1>9 DEF StaysAtRule
  <2>2. ~Open' /\ ~Finished' /\ ~ApplyRule
    BY <2>1 DEF Open, Finished, ApplyRule, NextIteration
  <2>3. CASE log' = log
    BY <1>0, <1>1, <1>3, <2>1, <2>2, <2>3
  <2>4. ASSUME NEW n \in DOMAIN rules, rules[n].path \in PathEdge, rules[n].nth \in Nat,
               Applies(rules[n].path, rules[n].nth)
        PROVE  L1' /\ L3' /\ InOrder'
    <3>1. /\ DOMAIN log' = 1..(Len(log) + 1) /\ \A i \in DOMAIN log : log'[i] = log[i]
          /\ log'[Len(log) + 1].rule = rules[n].nth
      BY <1>0, <2>4, LogIs
    <3>2. ~IsPlain(rules[n].nth) /\ rules[n].nth <= nth
      BY <2>4 DEF Unnumbered
    <3>3. L1'
      BY <1>0, <1>1, <2>1, <2>2, <2>4, <3>1, <3>2
    <3>4. InOrder'
      BY <1>0, <1>1, <2>4, <3>1, <3>2, InOrderGrows
    <3>5. L3'
      BY <1>0, <1>1, <2>1, <2>2, <3>1
    <3> QED BY <3>3, <3>4, <3>5
  <2> QED BY <2>2, <2>3, <2>4, Applications
<1>10. CASE UNCHANGED vars
  BY <1>0, <1>1, <1>3, <1>10 DEF vars, reader, Open, Finished
<1> QED BY <1>4, <1>5, <1>6, <1>7, <1>8, <1>9, <1>10, Kinds

-----------------------------------------------------------------------------
(* The function a rule stands for                                          *)

(* Every line that was read before the current rule began, or in it.       *)
LEMMA PosStep ==
  ASSUME TypeOK, [Next]_vars
  PROVE  /\ pos' = pos \/ (pos' = pos + 1 /\ pos <= Len(file) /\ phase = "read")
         /\ \A q \in DOMAIN file : q < pos => q < pos'
<1>1. pos \in Nat /\ \A q \in DOMAIN file : q \in Nat
  BY FileFits
<1>2. pos' = pos \/ (pos' = pos + 1 /\ pos <= Len(file) /\ phase = "read")
  BY Kinds DEF BeginsRule, ReadsHead, ReadsItem, EndsRule, Stops, GoesOn, StaysAtRule,
               AtLine, vars
<1> QED BY <1>1, <1>2

LEMMA SpelledStep ==
  ASSUME TypeOK, Selected, [Next]_vars
  PROVE  /\ ExportIsSpelled'
         /\ symbol'.yara # "" =>
              \E q \in DOMAIN file : q < pos' /\ file[q].word = "yfunc"
         /\ strayOrd = 0 /\ symbol'.ord # 0 =>
              \E q \in DOMAIN file :
                q < pos' /\ file[q].word = "func" /\ OrdOf[file[q].arg] # 0
<1>0. /\ file' = file /\ symbol \in FoundXref
      /\ \A q \in DOMAIN file : q < pos => q < pos'
  BY ReaderTypes, PosStep DEF TypeOK
<1>1. CASE symbol' = symbol
  BY <1>0, <1>1 DEF Selected, ExportIsSpelled
<1>2. CASE Prepares
  <2>1. PICK p \in PathEdge : symbol' = Prepared(p, symbol)
    BY <1>2 DEF Prepares
  <2>2. /\ symbol'.exported = symbol.exported /\ symbol'.yara = symbol.yara
        /\ \/ symbol'.ord = symbol.ord
           \/ symbol.exported # "" /\ OrdOf[symbol.exported] # 0
    <3>1. symbol.exported # "" => OrdOf[symbol.exported] \in Nat
      BY ExportHere DEF Selected
    <3> DEFINE s == Prepared(p, symbol)
    <3>2. /\ s.exported = symbol.exported /\ s.yara = symbol.yara
          /\ \/ s.ord = symbol.ord
             \/ symbol.exported # "" /\ OrdOf[symbol.exported] # 0
      BY <1>0, <3>1, PreparedIs
    <3> HIDE DEF s
    <3>3. symbol' = s
      BY <2>1 DEF s
    <3> QED BY <3>2, <3>3
  <2> QED BY <1>0, <2>2 DEF Selected, ExportIsSpelled
<1>3. ASSUME NEW word \in SymbolWords, Selects(word)
      PROVE  /\ ExportIsSpelled'
             /\ symbol'.yara # "" =>
                  \E q \in DOMAIN file : q < pos' /\ file[q].word = "yfunc"
             /\ strayOrd = 0 /\ symbol'.ord # 0 =>
                  \E q \in DOMAIN file :
                    q < pos' /\ file[q].word = "func" /\ OrdOf[file[q].arg] # 0
  <2>1. pos <= Len(file) /\ file[pos].word = word /\ pos' = pos + 1
    BY <1>3 DEF Selects, ReadsHead, AtLine
  <2>2. pos \in DOMAIN file /\ pos < pos'
    BY <2>1, FileFits
  <2>3. /\ symbol'.exported = IF word = "func" THEN file[pos].arg ELSE ""
        /\ symbol'.yara = IF word = "yfunc" THEN file[pos].arg
                          ELSE IF word = "fsection" THEN symbol.yara ELSE ""
        /\ symbol'.ord = symbol.ord
    BY <1>3 DEF Selects
  <2> QED BY <1>0, <2>1, <2>2, <2>3 DEF Selected, ExportIsSpelled
<1> QED BY <1>1, <1>2, <1>3, SymbolKinds

(* What a line changes in the function a rule stands for: nothing, unless  *)
(* it selects one, and then it is a line of a later rule.                  *)
LEMMA StandsStep ==
  ASSUME TypeOK, Selected, [Next]_vars,
         \/ pos' = pos
         \/ symbol' = symbol /\ file[pos].word \notin SelectorWords
  PROVE  \A k \in Nat, p \in PathEdge, r \in PathEdge :
           StandsFor(k, p) /\ r.type = p.type /\ r.fpoi = p.fpoi => StandsFor(k, r)'
<1>0. /\ file' = file /\ symbol \in FoundXref /\ pos \in Nat
      /\ \A q \in DOMAIN file : q \in Nat
      /\ \A k : /\ Selectors(k)' = Selectors(k) /\ IsUndisturbed(k)' = IsUndisturbed(k)
                /\ \A ty : IsOwnType(k, ty)' = IsOwnType(k, ty)
      /\ \A q : RuleOf(q)' = RuleOf(q)
      /\ \A q \in DOMAIN file : q < pos => q < pos'
  BY ReaderTypes, PosStep, SameText, FileFits DEF TypeOK
<1>1. \A p : Target(p, symbol') = Target(p, symbol)
  <2>1. symbol' = symbol \/ Prepares
    <3>1. ASSUME NEW word \in SymbolWords, Selects(word) PROVE FALSE
      <4>1. pos' = pos + 1 /\ file[pos].word = word
        BY <3>1 DEF Selects, ReadsHead
      <4>2. file[pos].word \in SelectorWords
        BY <4>1 DEF SymbolWords, SelectorWords
      <4>3. pos' # pos
        BY <1>0, <4>1
      <4>4. symbol' = symbol /\ file[pos].word \notin SelectorWords
        BY <4>3
      <4> QED BY <4>2, <4>4
    <3> QED BY <3>1, SymbolKinds
  <2>2. CASE Prepares
    <3>1. PICK p \in PathEdge : symbol' = Prepared(p, symbol)
      BY <2>2 DEF Prepares
    <3>2. symbol.exported # "" => OrdOf[symbol.exported] \in Nat
      BY ExportHere DEF Selected
    <3> QED BY <1>0, <3>1, <3>2, PreparedIs
  <2> QED BY <2>1, <2>2
<1>2. ASSUME NEW k \in Nat, NEW p \in PathEdge, NEW r \in PathEdge, StandsFor(k, p),
             r.type = p.type, r.fpoi = p.fpoi
      PROVE  StandsFor(k, r)'
  <2>1. Target(r, symbol') = Target(p, symbol)
    <3>1. Target(r, symbol) = Target(p, symbol)
      BY <1>2 DEF Target
    <3> QED BY <1>1, <3>1
  <2>2. \A q \in Selectors(k) : q < pos' => q < pos
    <3>1. ASSUME NEW q \in Selectors(k), q < pos' PROVE q < pos
      <4>1. q \in DOMAIN file /\ file[q].word \in SelectorWords
        BY DEF Selectors
      <4> QED BY <1>0, <3>1, <4>1, PosStep
    <3> QED BY <3>1
  <2>3. /\ IsUndisturbed(k)' = IsUndisturbed(k) /\ Selectors(k)' = Selectors(k)
        /\ IsOwnType(k, r.type)' = IsOwnType(k, p.type)
    BY <1>0, <1>2
  <2>4. ASSUME IsUndisturbed(k), IsOwnType(k, p.type), \E q \in Selectors(k) : q < pos',
               \A q \in DOMAIN file :
                 q < pos' /\ file[q].word \in SelectorWords => RuleOf(q) <= k
        PROVE  \E q \in Selectors(k) : Target(r, symbol') = Spelled(file[q])
    BY <1>0, <1>2, <2>1, <2>2, <2>4 DEF StandsFor
  <2> QED BY <1>0, <2>3, <2>4 DEF StandsFor, Spelled
<1> QED BY <1>2

(* A rule stands for its own function as soon as a line selects it.        *)
LEMMA SelectorHere ==
  ASSUME TypeOK, Counted, HeadsFirst, Selected, [Next]_vars,
         NEW word \in SelectorWords, ReadsHead(word), IsUndisturbed(nth),
         IsOwnType(nth, path'.type)
  PROVE  \E q \in Selectors(nth) : Target(path', symbol') = Spelled(file[q])
<1> DEFINE line == file[pos]
<1>0. /\ symbol \in FoundXref /\ path \in PathEdge /\ nth \in Nat
      /\ \A q \in DOMAIN file : RuleOf(q) \in Nat /\ (q < pos => RuleOf(q) <= nth)
  BY ReadLines, FileFits DEF TypeOK
<1>1. /\ phase = "read" /\ mState = 1 /\ pos <= Len(file) /\ line.word = word
      /\ ~Refused(line) /\ word \in HeadWords
    BY DEF ReadsHead, AtLine, SelectorWords, HeadWords
<1>2. pos \in DOMAIN file /\ RuleOf(pos) = nth /\ pos \in Selectors(nth)
  BY <1>1, RuleHere, KeywordKinds DEF Selectors
<1>3. /\ IsFresh(nth) /\ word \in Words(nth)
      /\ word \in {"sfunc", "fpoi", "fsection"} =>
           strayOrd = 0 /\ \A q \in DOMAIN file :
             RuleOf(q) < nth /\ file[q].word = "func" => OrdOf[file[q].arg] = 0
      /\ word \in {"entry", "fsection"} =>
           \A q \in DOMAIN file : RuleOf(q) < nth => file[q].word # "yfunc"
  <2>1. word \in Words(nth)
    BY <1>1, <1>2 DEF Words
  <2> QED BY <2>1 DEF IsUndisturbed
(* An entry edge that is not the line's own is the rule's, or harmless.    *)
<1>4. path'.type = "entry" /\ word # "yfunc" =>
        \E q \in Selectors(nth) :
          Spelled(file[q]) = [kind |-> "entry", name |-> "", n |-> 0]
  <2>1. SUFFICES ASSUME path'.type = "entry", word # "yfunc"
                 PROVE  \E q \in DOMAIN file : RuleOf(q) = nth /\ file[q].word = "entry"
    BY DEF Selectors, SelectorWords, Spelled
  <2>2. "entry" \in Words(nth)
    BY <1>3, <2>1 DEF IsOwnType
  <2> QED BY <2>2 DEF Words
<1>5. \A q \in DOMAIN file :
        q < pos /\ file[q].word \in {"func", "yfunc"} => RuleOf(q) < nth
  <2>1. ASSUME NEW q \in DOMAIN file, q < pos, file[q].word \in {"func", "yfunc"},
               ~(RuleOf(q) < nth)
        PROVE  FALSE
    <3>1. RuleOf(q) = nth
      BY <1>0, <2>1
    <3>2. file[q].word \in {"section", "rule", "fpoi"}
      BY <1>1, <2>1, <3>1 DEF HeadsFirst
    <3> QED BY <2>1, <3>2
  <2> QED BY <2>1
<1>6. word \in {"sfunc", "fpoi", "fsection"} => symbol.ord = 0
  BY <1>3, <1>5 DEF Selected
<1>7. word \in {"entry", "fsection"} => symbol.yara = ""
  BY <1>3, <1>5 DEF Selected
<1>8. /\ path'.type = IF word = "entry" THEN "entry" ELSE path.type
      /\ path'.fpoi = IF word = "fpoi" THEN line.n ELSE path.fpoi
  BY DEF ReadsHead
<1>9. /\ word = "entry" => symbol' = symbol
      /\ word # "entry" =>
           /\ symbol'.exported = IF word = "func" THEN line.arg ELSE ""
           /\ symbol'.section = IF word = "fsection" THEN line.arg ELSE ""
           /\ symbol'.yara = IF word = "yfunc" THEN line.arg
                             ELSE IF word = "fsection" THEN symbol.yara ELSE ""
           /\ symbol'.stg = IF word = "sfunc" THEN line.n
                            ELSE IF word \in {"func", "fsection"} THEN 0 ELSE symbol.stg
           /\ symbol'.ord = symbol.ord
  <2>1. CASE word = "entry"
    BY <1>1, <2>1, HeadSelects DEF SymbolWords
  <2>2. CASE word # "entry"
    <3>1. Selects(word)
      BY <1>1, <2>2, HeadSelects DEF SymbolWords, SelectorWords
    <3> QED BY <2>2, <3>1 DEF Selects
  <2> QED BY <2>1, <2>2
<1>10. /\ word \in {"sfunc", "fpoi"} => line.n # 0
       /\ word \in {"func", "yfunc", "fsection"} => line.arg # ""
  <2>1. word \in {"sfunc", "fpoi"} => Number(line) # 0
    BY <1>1 DEF Refused
  <2>2. word \in {"func", "yfunc", "fsection"} => line.arg # ""
    BY <1>1 DEF Refused
  <2> QED BY <1>1, <2>1, <2>2, LineHere
<1>11. CASE path'.type = "entry" /\ word # "yfunc"
  <2>1. symbol'.yara = ""
    BY <1>7, <1>9, <1>11 DEF SelectorWords
  <2>2. Target(path', symbol') = [kind |-> "entry", name |-> "", n |-> 0]
    BY <1>11, <2>1 DEF Target
  <2> QED BY <1>4, <1>11, <2>2
<1>12. CASE path'.type # "entry" /\ word = "func"
  <2>1. Target(path', symbol') = [kind |-> "func", name |-> line.arg, n |-> 0]
    BY <1>8, <1>9, <1>10, <1>12 DEF Target
  <2> QED BY <1>1, <1>2, <1>12, <2>1 DEF Spelled
<1>13. CASE word = "yfunc"
  <2>1. Target(path', symbol') = [kind |-> "yfunc", name |-> line.arg, n |-> 0]
    BY <1>9, <1>10, <1>13 DEF Target
  <2> QED BY <1>1, <1>2, <1>13, <2>1 DEF Spelled
<1>14. CASE path'.type # "entry" /\ word = "fpoi"
  <2>1. Target(path', symbol') = [kind |-> "fpoi", name |-> "", n |-> line.n]
    BY <1>6, <1>8, <1>9, <1>10, <1>14 DEF Target
  <2> QED BY <1>1, <1>2, <1>14, <2>1 DEF Spelled
<1>15. CASE path'.type # "entry" /\ word \in {"sfunc", "fsection"} /\ path.fpoi # 0
  <2>1. PICK q \in DOMAIN file :
          RuleOf(q) = nth /\ file[q].word = "fpoi" /\ file[q].n = path.fpoi
    BY <1>1, <1>3, <1>15 DEF Selected
  <2>2. Target(path', symbol') = [kind |-> "fpoi", name |-> "", n |-> path.fpoi]
    BY <1>6, <1>7, <1>8, <1>9, <1>15 DEF Target
  <2>3. q \in Selectors(nth) /\ Spelled(file[q]) = Target(path', symbol')
    BY <2>1, <2>2 DEF Selectors, SelectorWords, Spelled
  <2> QED BY <2>3
<1>16. CASE path'.type # "entry" /\ word = "sfunc" /\ path.fpoi = 0
  <2>1. Target(path', symbol') = [kind |-> "sfunc", name |-> "", n |-> line.n]
    BY <1>6, <1>8, <1>9, <1>10, <1>16 DEF Target
  <2> QED BY <1>1, <1>2, <1>16, <2>1 DEF Spelled
<1>17. CASE path'.type # "entry" /\ word = "fsection" /\ path.fpoi = 0
  <2>0. /\ symbol'.yara = "" /\ symbol'.exported = "" /\ symbol'.stg = 0
        /\ symbol'.ord = 0 /\ symbol'.section = line.arg
        /\ path'.type # "entry" /\ path'.fpoi = 0
    BY <1>6, <1>7, <1>8, <1>9, <1>17
  <2>1. Target(path', symbol') = [kind |-> "fsection", name |-> line.arg, n |-> 0]
    BY <2>0 DEF Target
  <2> QED BY <1>1, <1>2, <1>17, <2>1 DEF Spelled
<1>18. word = "entry" => path'.type = "entry"
  BY <1>8
<1> QED BY <1>11, <1>12, <1>13, <1>14, <1>15, <1>16, <1>17, <1>18 DEF SelectorWords

LEMMA SelectedStep ==
  ASSUME TypeOK, Counted, Phased, HeadsFirst, Unnumbered, Selected, [Next]_vars
  PROVE  Selected'
<1> DEFINE S5 == phase = "read" /\ path.fpoi # 0 /\ IsFresh(nth) =>
                   \E q \in DOMAIN file :
                     /\ q < pos /\ RuleOf(q) = nth
                     /\ file[q].word = "fpoi" /\ file[q].n = path.fpoi
           S6 == phase \in {"apply", "scan"} \/ (phase = "read" /\ mState # 0) =>
                   StandsFor(nth, path)
           S7 == \A n \in DOMAIN rules : StandsFor(rules[n].nth, rules[n].path)
<1>0. /\ file' = file /\ strayOrd' = strayOrd /\ mState \in 0..5 /\ path \in PathEdge /\ path' \in PathEdge
      /\ nth \in Nat /\ nth' \in Nat /\ pos \in Nat /\ symbol \in FoundXref
      /\ \A q \in DOMAIN file : q \in Nat
      /\ \A k : /\ Selectors(k)' = Selectors(k) /\ IsUndisturbed(k)' = IsUndisturbed(k)
                /\ IsFresh(k)' = IsFresh(k)
                /\ \A ty : IsOwnType(k, ty)' = IsOwnType(k, ty)
      /\ \A q : RuleOf(q)' = RuleOf(q)
      /\ \A q \in DOMAIN file : q < pos => q < pos'
  BY ReaderTypes, PosStep, SameText, FileFits DEF TypeOK
<1>1. S5 /\ S6 /\ S7
  BY DEF Selected
<1>2. \A n \in DOMAIN rules : /\ rules[n] \in KeptRule /\ rules[n].nth \in Nat
                              /\ rules[n].path \in PathEdge
  BY DEF TypeOK, KeptRule
<1>3. SUFFICES S5' /\ S6' /\ S7'
  BY <1>0, SpelledStep DEF Selected
(* Steps that leave the functions alone, and those that select another.    *)
<1>4. ASSUME \/ pos' = pos
             \/ symbol' = symbol /\ file[pos].word \notin SelectorWords
      PROVE  /\ rules' = rules => S7'
             /\ S6 /\ nth' = nth /\ path'.type = path.type /\ path'.fpoi = path.fpoi
                /\ (phase \in {"apply", "scan"} \/ (phase = "read" /\ mState # 0)) => S6'
  <2>1. \A k \in Nat, p \in PathEdge, r \in PathEdge :
          StandsFor(k, p) /\ r.type = p.type /\ r.fpoi = p.fpoi => StandsFor(k, r)'
    BY <1>4, StandsStep
  <2>2. ASSUME rules' = rules PROVE S7'
    BY <1>1, <1>2, <2>1, <2>2
  <2>3. ASSUME nth' = nth, path'.type = path.type, path'.fpoi = path.fpoi,
               phase \in {"apply", "scan"} \/ (phase = "read" /\ mState # 0)
        PROVE  S6'
    BY <1>0, <1>1, <2>1, <2>3
  <2> QED BY <2>2, <2>3
<1>5. CASE BeginsRule
  <2>1. /\ phase = "read" /\ phase' = "read" /\ mState \in {0, 1} /\ path' = path
        /\ pos <= Len(file) /\ pos' = pos + 1 /\ nth' = nth + 1 /\ rules' = rules
        /\ symbol' = symbol /\ file[pos].word = "section" /\ AtBreak
    BY <1>0, <1>5 DEF BeginsRule, AtLine, AtBreak, Kept
  <2>3. S5'
    <3>1. CASE mState = 0
      BY <2>1, <3>1 DEF Unnumbered
    <3>2. CASE mState = 1
      <4>1. Items(nth) = {} /\ nth >= 1
        BY <2>1, <3>2, AllRead DEF HeadsFirst, Phased
      <4>2. ~IsFresh(nth + 1)
        BY <1>0, <4>1 DEF IsFresh
      <4> QED BY <1>0, <2>1, <4>2
    <3> QED BY <2>1, <3>1, <3>2
  <2>4. ASSUME NEW q \in Selectors(nth + 1), q < pos + 1 PROVE FALSE
    <3>1. q \in DOMAIN file /\ RuleOf(q) = nth + 1 /\ q # pos
      BY <2>1, <2>4 DEF Selectors, SelectorWords
    <3>2. q < pos
      BY <1>0, <2>4, <3>1
    <3> QED BY <1>0, <3>1, <3>2, ReadLines
  <2>5. S6'
    BY <1>0, <2>1, <2>4 DEF StandsFor
  <2>6. S7'
    BY <1>4, <2>1 DEF SelectorWords
  <2> QED BY <2>3, <2>5, <2>6
<1>6. ASSUME NEW word \in HeadWords, ReadsHead(word) PROVE S5' /\ S6' /\ S7'
  <2>1. /\ phase = "read" /\ phase' = "read" /\ mState = 1 /\ nth' = nth /\ rules' = rules
        /\ mState' = (IF word \in {"fpoi", "rule"} THEN 1 ELSE IF word = "scan" THEN 4 ELSE 2)
        /\ pos <= Len(file) /\ pos' = pos + 1 /\ file[pos].word = word
        /\ path'.type = IF word = "entry" THEN "entry" ELSE path.type
        /\ path'.fpoi = IF word = "fpoi" THEN file[pos].n ELSE path.fpoi
    BY <1>6 DEF ReadsHead, AtLine, Kept
  <2>2. pos \in DOMAIN file /\ RuleOf(pos) = nth /\ pos < pos'
    BY <1>0, <2>1, RuleHere, KeywordKinds
  <2>4. S5'
    BY <1>0, <1>1, <2>1, <2>2
  <2>5. CASE word \in SelectorWords
    <3>1. S6'
      BY <1>0, <1>6, <2>1, <2>5, SelectorHere DEF StandsFor, Spelled
    <3>2. ASSUME NEW n \in DOMAIN rules PROVE StandsFor(rules[n].nth, rules[n].path)'
      <4>1. rules[n].nth < RuleOf(pos)
        BY <2>1, <2>2 DEF Unnumbered
      <4>2. ~(RuleOf(pos) <= rules[n].nth)
        BY <1>0, <1>2, <2>2, <4>1
      <4> QED BY <1>0, <2>1, <2>2, <2>5, <4>2 DEF StandsFor
    <3> QED BY <2>1, <2>4, <3>1, <3>2
  <2>6. CASE word \notin SelectorWords
    <3>1. symbol' = symbol /\ path'.type = path.type /\ path'.fpoi = path.fpoi
      BY <1>6, <2>1, <2>6, HeadSelects DEF SelectorWords, SymbolWords
    <3> QED BY <1>1, <1>4, <2>1, <2>4, <2>6, <3>1
  <2> QED BY <2>5, <2>6
<1>7. CASE ReadsItem
  <2>1. /\ phase = "read" /\ phase' = "read" /\ pos <= Len(file)
        /\ file[pos].word \in ItemWords /\ rules' = rules
        /\ pos' = pos + 1 /\ nth' = nth /\ symbol' = symbol
    BY <1>7 DEF ReadsItem, AtLine, Kept
  <2>2. mState' \in {3, 5} /\ SameHead(path', path)
    BY <1>0, <1>7, <2>1, ReaderHere, LineHere, WithItemIs DEF ReadsItem, SetParser, Parser
  <2>3. path'.type = path.type /\ path'.fpoi = path.fpoi
    BY <2>2 DEF SameHead
  <2>4. file[pos].word \notin SelectorWords
    BY <2>1, KeywordKinds DEF SelectorWords, HeadWords
  <2>5. S5' /\ S7'
    BY <1>0, <1>1, <1>4, <2>1, <2>2, <2>3, <2>4
  <2>6. CASE mState # 0
    BY <1>1, <1>4, <2>1, <2>3, <2>4, <2>5, <2>6
  <2>7. CASE mState = 0
    <3>1. pos = 1
      BY <1>0, <2>1, <2>7, FileFits, KeywordKinds DEF Phased, AtBreak
    <3>2. ASSUME NEW q \in Selectors(nth), q < pos' PROVE FALSE
      <4>1. q \in DOMAIN file /\ file[q].word \in SelectorWords
        BY DEF Selectors
      <4>2. q >= 1 /\ q < 2
        BY <2>1, <3>1, <3>2, <4>1, FileFits
      <4>3. q = pos
        BY <1>0, <3>1, <4>1, <4>2
      <4> QED BY <2>4, <4>1, <4>3
    <3>3. S6'
      BY <1>0, <2>1, <3>2 DEF StandsFor
    <3> QED BY <2>5, <3>3
  <2> QED BY <2>6, <2>7
<1>8. CASE EndsRule
  <2>1. /\ phase = "read" /\ mState # 0 /\ phase' = "apply" /\ SameHead(path', path)
        /\ pos' = pos /\ nth' = nth /\ rules' = rules
    BY <1>8, RuleEndsIs DEF EndsRule, Kept
  <2>2. path'.type = path.type /\ path'.fpoi = path.fpoi
    BY <2>1 DEF SameHead
  <2> QED BY <1>1, <1>4, <2>1, <2>2
<1>9. CASE Stops
  <2>1. phase' = "over" /\ pos' = pos /\ rules' = rules
    BY <1>9 DEF Stops, Kept
  <2> QED BY <1>4, <2>1
<1>10. CASE GoesOn
  <2>1. /\ phase \in {"apply", "scan"} /\ phase' = "read" /\ mState' = 0 /\ pos' = pos
        /\ path'.fpoi = 0
    BY <1>10, FreshPathIs DEF GoesOn, NextIteration, Phased
  <2>2. CASE rules' = rules
    BY <1>4, <2>1, <2>2
  <2>3. CASE KeepRule
    <3>1. \A k \in Nat, p \in PathEdge, r \in PathEdge :
            StandsFor(k, p) /\ r.type = p.type /\ r.fpoi = p.fpoi => StandsFor(k, r)'
      BY <2>1, StandsStep
    <3>2. ASSUME NEW n \in DOMAIN rules' PROVE StandsFor(rules[n].nth, rules[n].path)'
      <4>1. CASE n = path.rule
        <5>1. rules'[n].nth = nth /\ rules'[n].path = path
          BY <2>3, <4>1, KeepRuleIs
        <5>2. StandsFor(nth, path)
          BY <1>1, <2>1
        <5> QED BY <1>0, <3>1, <5>1, <5>2
      <4>2. CASE n # path.rule
        <5>1. n \in DOMAIN rules /\ rules'[n] = rules[n]
          BY <2>3, <4>2, KeepRuleIs
        <5> QED BY <1>1, <1>2, <3>1, <5>1
      <4> QED BY <4>1, <4>2
    <3> QED BY <2>1, <3>2
  <2> QED BY <2>2, <2>3, LogKinds
<1>11. CASE StaysAtRule
  <2>1. /\ phase \in {"apply", "scan"} /\ phase' \in {"loops", "scan"} /\ pos' = pos
        /\ path' = path /\ nth' = nth
    BY <1>11 DEF StaysAtRule
  <2>2. rules' = rules
    BY <2>1, LogKinds DEF KeepRule, NextIteration
  <2> QED BY <1>1, <1>4, <2>1, <2>2
<1>12. CASE UNCHANGED vars
  <2>1. /\ phase' = phase /\ mState' = mState /\ pos' = pos /\ path' = path
        /\ nth' = nth /\ rules' = rules
    BY <1>12 DEF vars, reader
  <2>2. S5'
    BY <1>0, <1>1, <2>1
  <2> QED BY <1>1, <1>4, <2>1, <2>2
<1> QED BY <1>5, <1>6, <1>7, <1>8, <1>9, <1>10, <1>11, <1>12, Kinds

LEMMA OwnFunctionNow ==
  ASSUME TypeOK, Counted, Phased, phase \in {"apply", "scan"},
         NEW k \in Nat, NEW p \in PathEdge, k <= nth, StandsFor(k, p),
         IsUndisturbed(k), IsOwnType(k, p.type), Selectors(k) # {},
         \A j \in (k + 1)..nth : Selectors(j) = {}
  PROVE  \E q \in Selectors(k) : Target(p, symbol) = Spelled(file[q])
<1>1. /\ AtBreak /\ nth \in Nat
      /\ \A q \in DOMAIN file : RuleOf(q) \in Nat /\ (q < pos => RuleOf(q) <= nth)
  BY FileFits, ReadLines DEF Phased
<1>2. \E q \in Selectors(k) : q < pos
  <2>1. PICK q \in Selectors(k) : TRUE
    OBVIOUS
  <2>2. q \in DOMAIN file /\ RuleOf(q) = k
    BY DEF Selectors
  <2> QED BY <1>1, <2>1, <2>2, ReadLines
<1>3. ASSUME NEW q \in DOMAIN file, q < pos, file[q].word \in SelectorWords
      PROVE  RuleOf(q) <= k
  <2>1. q \in Selectors(RuleOf(q)) /\ RuleOf(q) \in Nat /\ RuleOf(q) <= nth
    BY <1>1, <1>3 DEF Selectors
  <2>2. ~(RuleOf(q) \in (k + 1)..nth)
    BY <2>1
  <2> QED BY <1>1, <2>1, <2>2
<1> QED BY <1>2, <1>3 DEF StandsFor

LEMMA OwnFunctionStep ==
  ASSUME TypeOK, Counted, Phased, Unnumbered, Selected, RuleAppliesToItsOwnFunction,
         [Next]_vars
  PROVE  RuleAppliesToItsOwnFunction'
<1> DEFINE Fits(e) ==
             IsUndisturbed(e.rule) /\ IsOwnType(e.rule, e.type) /\ Selectors(e.rule) # {}
             /\ (\A j \in (e.rule + 1)..e.by : Selectors(j) = {}) =>
               \E q \in Selectors(e.rule) : e.target = Spelled(file[q])
<1>0. /\ file' = file /\ nth \in Nat
      /\ \A k : /\ Selectors(k)' = Selectors(k) /\ IsUndisturbed(k)' = IsUndisturbed(k)
                /\ \A ty : IsOwnType(k, ty)' = IsOwnType(k, ty)
  BY ReaderTypes, SameText DEF TypeOK
<1>1. \A i \in DOMAIN log : Fits(log[i])
  BY DEF RuleAppliesToItsOwnFunction
<1>2. SUFFICES \A i \in DOMAIN log' : Fits(log'[i])
  BY <1>0 DEF RuleAppliesToItsOwnFunction, Spelled
<1>3. ASSUME NEW p \in PathEdge, NEW k \in Nat, Applies(p, k),
             phase \in {"apply", "scan"}, k <= nth, StandsFor(k, p)
      PROVE  \A i \in DOMAIN log' : Fits(log'[i])
  <2>1. /\ DOMAIN log' = 1..(Len(log) + 1) /\ DOMAIN log = 1..Len(log) /\ Len(log) \in Nat
        /\ \A i \in DOMAIN log : log'[i] = log[i]
        /\ log'[Len(log) + 1].rule = k /\ log'[Len(log) + 1].by = nth
        /\ log'[Len(log) + 1].target = Target(p, symbol)
        /\ log'[Len(log) + 1].type = p.type
    BY <1>3, LogIs
  <2>2. ASSUME IsUndisturbed(k), IsOwnType(k, p.type), Selectors(k) # {},
               \A j \in (k + 1)..nth : Selectors(j) = {}
        PROVE  \E q \in Selectors(k) : Target(p, symbol) = Spelled(file[q])
    BY <1>3, <2>2, OwnFunctionNow
  <2>3. Fits(log'[Len(log) + 1])
    BY <2>1, <2>2
  <2>4. ASSUME NEW i \in DOMAIN log' PROVE Fits(log'[i])
    <3>1. CASE i \in DOMAIN log
      BY <1>1, <2>1, <3>1
    <3>2. CASE i = Len(log) + 1
      BY <2>3, <3>2
    <3> QED BY <2>1, <3>1, <3>2
  <2> QED BY <2>4
<1>4. CASE log' = log
  BY <1>1, <1>4
<1>5. CASE ApplyRule /\ path \in PathEdge /\ nth \in Nat /\ Applies(path, nth)
  <2>1. phase = "apply" /\ StandsFor(nth, path) /\ nth <= nth
    <3>1. phase = "apply"
      BY <1>5 DEF ApplyRule
    <3>2. phase \in {"apply", "scan"} \/ (phase = "read" /\ mState # 0) =>
            StandsFor(nth, path)
      BY DEF Selected
    <3> QED BY <1>0, <3>1, <3>2
  <2> QED BY <1>3, <1>5, <2>1
<1>6. ASSUME NEW n \in DOMAIN rules, phase = "scan", rules[n] \in KeptRule,
             rules[n].path \in PathEdge, rules[n].nth \in Nat,
             Applies(rules[n].path, rules[n].nth)
      PROVE  \A i \in DOMAIN log' : Fits(log'[i])
  <2>1. StandsFor(rules[n].nth, rules[n].path) /\ rules[n].nth <= nth
    BY DEF Selected, Unnumbered
  <2> QED BY <1>3, <1>6, <2>1
<1> QED BY <1>4, <1>5, <1>6, Applications

-----------------------------------------------------------------------------
(* The theorems                                                            *)
LEMMA InitInv ==
  Init => Inv
<1> SUFFICES ASSUME Init PROVE Inv
  OBVIOUS
<1>1. /\ file \in Files /\ pos = 1 /\ phase = "read" /\ mState = 0 /\ item \in StrayItems
      /\ rules = <<>> /\ results = {} /\ nth = 0 /\ log = <<>>
  BY DEF Init
<1>2. PICK t \in StrayTypes : path = FreshPath(t)
  BY DEF Init
<1>3. /\ path \in PathEdge /\ path.rule = 0 /\ path.fpoi = 0
      /\ path.list = <<>> /\ path.scan = <<>>
  BY <1>2, FreshPathIs
<1>4. /\ symbol \in FoundXref /\ symbol.exported = "" /\ symbol.yara = ""
      /\ symbol.ord = strayOrd /\ strayOrd \in StrayOrds
  <2>1. symbol \in [exported : {""}, section : {""}, yara : {""}, stg : {0},
                      ord : {strayOrd}]
        /\ strayOrd \in StrayOrds
    BY DEF Init
  <2>2. "" \in Names /\ StrayOrds \subseteq Nat
    BY AfsmSessionAssumption DEF Names, AfsmSessionAssumption
  <2>3. /\ symbol.exported = "" /\ symbol.section = "" /\ symbol.yara = ""
        /\ symbol.stg = 0 /\ symbol.ord = strayOrd /\ strayOrd \in StrayOrds
    BY <2>1
  <2>6. symbol = [exported |-> symbol.exported, section |-> symbol.section,
                  yara |-> symbol.yara, stg |-> symbol.stg, ord |-> symbol.ord]
    BY <2>1
  <2>4. \A e \in Names, s \in Names, y \in Names, g \in Nat, o \in Nat :
          [exported |-> e, section |-> s, yara |-> y, stg |-> g, ord |-> o] \in FoundXref
    BY DEF FoundXref
  <2>5. symbol \in FoundXref
    <3>1. symbol.stg \in Nat
      <4>1. 0 \in Nat
        OBVIOUS
      <4> QED BY <2>3, <4>1, Zenon
    <3>2. symbol.ord \in Nat
      BY <2>2, <2>3
    <3>3. symbol.exported \in Names /\ symbol.section \in Names /\ symbol.yara \in Names
      BY <2>2, <2>3
    <3> QED BY <2>4, <2>6, <3>1, <3>2, <3>3
  <2> QED BY <2>3, <2>5
<1>5. item \in PathItem
  <2>1. item \in StrayItem /\ {""} \subseteq Names /\ {0} \subseteq Int
    BY <1>1, AfsmSessionAssumption DEF AfsmSessionAssumption, Names
  <2>2. Nat \subseteq Int
    OBVIOUS
  <2> QED BY <2>1, <2>2 DEF StrayItem, PathItem
<1>6. file \in Seq(Line)
  BY <1>1, AfsmSessionAssumption DEF AfsmSessionAssumption
<1>7. TypeOK
  <2>1. Len(file) \in Nat
    BY <1>6
  <2>2. DOMAIN rules = {} /\ rules \in [DOMAIN rules -> KeptRule]
    BY <1>1
  <2>3. log \in Seq(Application) /\ results \subseteq DOMAIN rules /\ phase \in Phases
    BY <1>1 DEF Phases
  <2>4. pos \in Nat /\ pos \in 1..(Len(file) + 1) /\ nth \in Nat /\ mState \in 0..5
    BY <1>1, <2>1
  <2> QED BY <1>1, <1>3, <1>4, <1>5, <2>2, <2>3, <2>4 DEF TypeOK
<1>8. Counted
  <2>1. {q \in Sections : q < pos} = {}
    BY <1>1, <1>7, FileFits DEF Sections
  <2> QED BY <1>1, <2>1, FS_EmptySet DEF Counted
<1>9. Phased /\ HeadsFirst /\ Written /\ Unnumbered
  BY <1>1, <1>3 DEF Phased, HeadsFirst, Written, Unnumbered, ItemsAreAsWritten
<1>10. Selected
  <2>1. DOMAIN rules = {}
    BY <1>1
  <2> QED BY <1>1, <1>3, <1>4, <2>1 DEF Selected, ExportIsSpelled
<1>11. Logged /\ RuleAppliesToItsOwnFunction
  <2>1. DOMAIN log = {}
    BY <1>1
  <2> QED BY <1>1, <2>1 DEF Logged, InOrder, RuleAppliesToItsOwnFunction
<1> QED BY <1>7, <1>8, <1>9, <1>10, <1>11 DEF Inv

LEMMA StepInv ==
  Inv /\ [Next]_vars => Inv'
<1> SUFFICES ASSUME Inv, [Next]_vars PROVE Inv'
  OBVIOUS
<1>1. /\ TypeOK /\ Counted /\ Phased /\ HeadsFirst /\ Written /\ Unnumbered
      /\ Selected /\ Logged /\ RuleAppliesToItsOwnFunction
  BY DEF Inv
<1>2. TypeOK' /\ Counted' /\ Phased'
  BY <1>1, TypeStep, CountedStep, PhasedStep DEF Selected
<1>3. HeadsFirst' /\ Written' /\ Unnumbered'
  BY <1>1, HeadsFirstStep, WrittenStep, UnnumberedStep
<1>4. Selected' /\ Logged' /\ RuleAppliesToItsOwnFunction'
  BY <1>1, SelectedStep, LoggedStep, OwnFunctionStep
<1> QED BY <1>2, <1>3, <1>4 DEF Inv

THEOREM Invariance == Spec => []Inv
<1>1. Init => Inv
  BY InitInv
<1>2. Inv /\ [Next]_vars => Inv'
  BY StepInv
<1> QED BY <1>1, <1>2, PTL DEF Spec

(* The reader keeps its state in shape, whatever the file says.            *)
THEOREM TypeCorrect == Spec => []TypeOK
<1>1. Inv => TypeOK
  BY DEF Inv
<1> QED BY <1>1, Invariance, PTL

(* A rule that is applied has exactly the items its lines spell, in order: *)
(* the pending item of macros Slist and AtSlist is never lost.             *)
THEOREM ItemsKept == Spec => []ItemsAreAsWritten
<1>1. Inv => ItemsAreAsWritten
  BY DEF Inv, Written
<1> QED BY <1>1, Invariance, PTL

(* A rule is applied to a function its own lines select, not to what an    *)
(* earlier rule left in m_symbol.                                          *)
THEOREM OwnFunction == Spec => []RuleAppliesToItsOwnFunction
<1>1. Inv => RuleAppliesToItsOwnFunction
  BY DEF Inv
<1> QED BY <1>1, Invariance, PTL

(* When the file was read to its end, every plain rule was applied, once   *)
(* and in the order of the file.                                           *)
THEOREM NothingLost == Spec => []NoRuleIsLost
<1>1. ASSUME Inv PROVE NoRuleIsLost
  <2>1. TypeOK /\ Counted /\ Logged
    BY <1>1 DEF Inv
  <2>2. ASSUME phase = "over", pos > Len(file)
        PROVE  /\ nth = Cardinality(Sections) /\ Finished
    <3>1. {q \in Sections : q < pos} = Sections
      BY <2>1, <2>2, FileFits DEF Sections
    <3> QED BY <2>1, <2>2, <3>1 DEF Counted, Finished
  <2> QED BY <2>1, <2>2 DEF NoRuleIsLost, Logged, InOrder
<1> QED BY <1>1, Invariance, PTL
=============================================================================
