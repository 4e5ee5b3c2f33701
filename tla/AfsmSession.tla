---------------------------- MODULE AfsmSession ----------------------------
(***************************************************************************)
(* The rule file of afsm: fsm_reader::read_rule and parse of               *)
(* ldr/afsm/fsd_reader.cpp, the loop of wmain in ldr/afsm/afsm.cpp, and    *)
(* from ldr/deriv.cpp and ldr/scan.cpp the choice of the function a rule   *)
(* is applied to.                                                          *)
(*                                                                         *)
(* The reader keeps one path_item and one found_xref for the whole file,   *)
(* the loop a fresh path_edge per rule and a cache of rule results.  What  *)
(* a rule does with the function it is applied to is left out, and there   *)
(* is one module the rules are applied to.                                 *)
(*                                                                         *)
(* A line of the file is a record                                          *)
(*   word       its keyword                                                *)
(*   arg        the name that follows, "" if there is none                 *)
(*   n          the number that follows, NoNumber if there is none         *)
(*   stg, wait  the prefixes; stg is 0 if there is none                    *)
(*   at         the offset of an `at' in front of it, NoAt if there is none*)
(* Comments and empty lines are left out.                                  *)
(***************************************************************************)
EXTENDS Integers, Sequences, FiniteSets, Functions

CONSTANTS
  Files,       \* the files that may be read, sequences of lines
  OrdOf,       \* export name -> its number if it is spelled ordN and no
               \* export has that name, otherwise 0
  StrayItems,  \* what item may be before a line fills it
  StrayOrds,   \* values m_symbol.exported_ord may start with: no code sets it
  StrayTypes   \* values path_edge::type may start with: no code sets it

NoAt == -1
NoNumber == -1

(* strtoul gives 0 where no number stands.                                 *)
Number(line) == IF line.n = NoNumber THEN 0 ELSE line.n

Line == [word : STRING, arg : STRING, n : Nat \cup {NoNumber}, stg : Nat,
         wait : BOOLEAN, at : Int]

VARIABLES
  file,
  pos,       \* the line in curr or read next
  phase,     \* read, apply, scan, loops (in resolve_rules), over
  mState,    \* m_state
  item,      \* item, the item being read
  symbol,    \* m_symbol
  path,      \* the path_edge of this iteration of the loop
  rules,     \* rules_set: rule number -> path, and its place in the file
  results,   \* keys of rules_result
  strayOrd,  \* history: what m_symbol.exported_ord started with
  nth,       \* history: how many section lines have been read
  log        \* history: the rules applied, in order, to which function, the
             \* type of their path, and the rule that had been read by then

reader == <<mState, item, symbol>>
vars == <<file, pos, phase, reader, path, rules, results, strayOrd, nth, log>>

-----------------------------------------------------------------------------
(* What parse writes into the item for every keyword: its type; whether a  *)
(* name is needed (must) or may follow (may); whether the storage index is *)
(* the prefix, the argument, or left as it was; and where the number goes. *)
Entry(t, name, stg, reg) == [type |-> t, name |-> name, stg |-> stg, reg |-> reg]

Sectioned == {"load", "store", "ldrb", "ldrh", "strb", "strh"}
Explicit == {"sload", "sstore", "sldrb", "sldrh", "sstrb", "sstrh"}
Stored == {"gload", "gstore", "gldrb", "gldrh", "gstrb", "gstrh", "gcall"}
Indexed == {"ldrx", "strx", "addx", "movx"}
Named == {"limp", "call_imp", "call_exp"}
Yara == {"yarares", "ypoi"}
(* the constants of the four keywords are numbers here                     *)
ConstType == [const64 |-> "ldr64_off", const |-> "ldr_off",
              rdata |-> "ldr_rdata", guid |-> "ldr_guid"]
Consts == DOMAIN ConstType
ItemWords == Sectioned \cup Explicit \cup Stored \cup Indexed \cup Named
  \cup Yara \cup Consts \cup {"call_dimp", "call_icall", "call",
                                  "load_cookie", "poi", "check"}
HeadWords == {"entry", "scan", "fpoi", "rule", "func", "yfunc", "sfunc",
              "fsection"}

(* The types of items; junk is any value that is none of them.             *)
ItemTypes == ItemWords \cup {ConstType[w] : w \in Consts} \cup
             {"junk", "ldr_cookie", "rule"}

(* path_item's constructor sets at and leaves type, stg_index, reg_index,  *)
(* the value and wait_for as they come.                                    *)
StrayItem == [type : ItemTypes, name : {""}, stg : Nat, reg : Nat, value : Nat,
              at : {0}, wait : BOOLEAN]

ASSUME AfsmSessionAssumption ==
  /\ \A f \in Files :
       /\ f \in Seq(Line)
       /\ \A p \in DOMAIN f : f[p].word = "func" => OrdOf[f[p].arg] \in Nat
  /\ StrayItems \subseteq StrayItem
  /\ StrayOrds \subseteq Nat
  /\ StrayTypes \subseteq {"none", "entry"}

(* The code under `if ( !strncmp(curr, "<word>", ...) )'; poi does not set *)
(* item.type and call_dimp sets it to call_imp.                            *)
Parsed(word, oldType) ==
  CASE word \in Sectioned -> Entry(word, "may", "prefix", "keep")
    [] word \in Explicit  -> Entry(word, "must", "prefix", "keep")
    [] word \in Stored    -> Entry(word, "keep", "number", "keep")
    [] word \in Indexed   -> Entry(word, "clear", "prefix", "index")
    [] word \in Named     -> Entry(word, "must", "keep", "keep")
    [] word \in Yara      -> Entry(word, "must", "keep", "number")
    [] word \in Consts    -> Entry(ConstType[word], "keep", "keep", "value")
    [] word = "call_dimp" -> Entry("call_imp", "must", "keep", "keep")
    [] word = "call_icall" -> Entry("call_icall", "keep", "keep", "keep")
    [] word = "load_cookie" -> Entry("ldr_cookie", "keep", "keep", "keep")
    [] word = "call"      -> Entry("call", "may", "prefix", "keep")
    [] word = "poi"       -> Entry(oldType, "keep", "keep", "number")
    [] word = "check"     -> Entry("rule", "keep", "keep", "number")

Fill(it, line) ==
  LET e == Parsed(line.word, it.type) IN
  [it EXCEPT
    !.type = e.type,
    !.name = IF e.name = "keep" THEN @
             ELSE IF e.name = "clear" THEN "" ELSE line.arg,
    !.stg = CASE e.stg = "prefix" -> line.stg
              [] e.stg = "number" -> Number(line)
              [] OTHER            -> @,
    !.reg = CASE e.reg = "number" -> Number(line)
              [] e.reg = "index"  -> line.n
              [] OTHER            -> @,
    !.value = IF e.reg = "value" THEN line.n ELSE @]

(* path_item::clear                                                        *)
Cleared(it) == [it EXCEPT !.at = 0, !.reg = 0, !.name = ""]


-----------------------------------------------------------------------------
(* The macros work on the state of the reader and the path being filled.   *)
PushList(st) ==
  IF st.m = 3
  THEN [st EXCEPT !.path.list = Append(@, st.item), !.item = Cleared(@)]
  ELSE st

(* Mutant: a pushed item is overwritten instead of pushed.             *)
Slist_NoPush(st, wait) ==
  [st EXCEPT !.m = IF @ > 3 THEN 5 ELSE 3, !.item.wait = wait]

Slist(st, wait) ==
  [PushList(st) EXCEPT !.m = IF @ > 3 THEN 5 ELSE 3, !.item.wait = wait]

PushScan(st) ==
  IF st.m = 5
  THEN [st EXCEPT !.path.scan = Append(@, st.item), !.item = Cleared(@)]
  ELSE st

AtSlist(st, wait) ==
  [PushScan(PushList(st)) EXCEPT !.m = IF @ > 3 THEN 5 ELSE 3,
                                     !.item.wait = wait]

AtPrefix(st, line) ==
  IF line.at = NoAt THEN st
  ELSE [AtSlist(st, line.wait) EXCEPT !.item.at = line.at]

WithItem(st, line) ==
  LET s == Slist(AtPrefix(st, line), line.wait)
  IN  [s EXCEPT !.item = Fill(@, line)]

(* The last item is pushed when the next rule begins or the file ends.     *)
Completed(st) ==
  IF st.m > 3 THEN [st EXCEPT !.path.scan = Append(@, st.item)]
              ELSE [st EXCEPT !.path.list = Append(@, st.item)]

Parser == [m |-> mState, item |-> item, path |-> path]

SetParser(st) == mState' = st.m /\ item' = st.item /\ path' = st.path

-----------------------------------------------------------------------------
FreshPath(t) == [type |-> t, rule |-> 0, fpoi |-> 0, list |-> <<>>, scan |-> <<>>]

(* No code initialises the numbers of m_symbol, of item and of path.  The   *)
(* pointer and the index of m_symbol are modelled as clear: a line that     *)
(* selects a function sets both, or selects it without them, and a pointer  *)
(* nobody set has no defined outcome.                                       *)
Init ==
  /\ file \in Files
  /\ pos = 1
  /\ phase = "read"
  /\ mState = 0
  /\ strayOrd \in StrayOrds
  /\ item \in StrayItems
  /\ symbol \in [exported : {""}, section : {""}, yara : {""}, stg : {0},
                 ord : {strayOrd}]
  /\ \E t \in StrayTypes : path = FreshPath(t)
  /\ rules = <<>>
  /\ results = {}
  /\ nth = 0
  /\ log = <<>>

(* Lines parse refuses; main stops at the first of them.                   *)
Refused(line) ==
  \/ line.word \notin HeadWords \cup ItemWords \cup {"section"}
  \/ line.word \in HeadWords /\ mState # 1
  \/ line.word \notin ItemWords /\ line.at # NoAt
  \/ line.word = "section" /\ mState <= 1 /\ line.arg = ""
  \/ line.word \in {"func", "yfunc", "fsection", "call_dimp"}
                     \cup Explicit \cup Named \cup Yara /\ line.arg = ""
  \/ line.word \in Consts /\ line.n = NoNumber
  \/ line.word \in {"sfunc", "fpoi", "poi", "check"} \cup Stored /\ Number(line) = 0
  \/ line.word = "fpoi" /\ path.fpoi # 0
  \/ line.word = "rule" /\ path.rule # 0

Current(word) == phase = "read" /\ pos <= Len(file) /\ file[pos].word = word

Kept == UNCHANGED <<file, rules, results, strayOrd, log>>

(* Mutant: m_state is not reset.                                           *)
RuleEnds_NoReset == SetParser(Completed(Parser)) /\ phase' = "apply"

(* read_rule returns: main acts on the rule.                               *)
RuleEnds == SetParser([Completed(Parser) EXCEPT !.m = 0]) /\ phase' = "apply"

(* A section line ends the rule before it and is parsed again for the next.*)
Section ==
  /\ Current("section")
  /\ ~Refused(file[pos])
  /\ IF mState > 1
     THEN RuleEnds /\ UNCHANGED <<pos, nth>>
     ELSE /\ mState' = 1
          /\ pos' = pos + 1
          /\ nth' = nth + 1
          /\ UNCHANGED <<phase, item, path>>
  /\ UNCHANGED symbol
  /\ Kept

HeadLine(word, m, p, s) ==
  /\ Current(word)
  /\ ~Refused(file[pos])
  /\ mState' = m
  /\ path' = p
  /\ symbol' = s
  /\ pos' = pos + 1
  /\ UNCHANGED <<phase, item, nth>>
  /\ Kept

EntryLine == HeadLine("entry", 2, [path EXCEPT !.type = "entry"], symbol)

ScanLine ==
  HeadLine("scan", 4, [path EXCEPT !.rule = Number(file[pos])], symbol)

(* fpoi leaves m_state at 1.                                               *)
FpoiLine ==
  HeadLine("fpoi", 1, [path EXCEPT !.fpoi = file[pos].n],
              [symbol EXCEPT !.exported = "", !.section = "", !.yara = ""])

RuleLine ==
  HeadLine("rule", 1, [path EXCEPT !.rule = Number(file[pos])], symbol)

FuncLine ==
  HeadLine("func", 2, path,
              [symbol EXCEPT !.exported = file[pos].arg, !.section = "",
                             !.yara = "", !.stg = 0])

YfuncLine ==
  HeadLine("yfunc", 2, path,
              [symbol EXCEPT !.yara = file[pos].arg, !.exported = "", !.section = ""])

(* Mutant: the stored index is kept when the function is given otherwise.  *)
SfuncLine_KeepsExport ==
  HeadLine("sfunc", 2, path, [symbol EXCEPT !.stg = file[pos].n])

SfuncLine ==
  HeadLine("sfunc", 2, path,
              [symbol EXCEPT !.stg = file[pos].n, !.exported = "", !.section = "",
                             !.yara = ""])

(* fsection leaves m_symbol.yara_rule as it was.                           *)
FsectionLine ==
  HeadLine("fsection", 2, path,
              [symbol EXCEPT !.exported = "", !.section = file[pos].arg, !.stg = 0])

ItemLine ==
  /\ phase = "read"
  /\ pos <= Len(file)
  /\ file[pos].word \in ItemWords
  /\ ~Refused(file[pos])
  /\ SetParser(WithItem(Parser, file[pos]))
  /\ pos' = pos + 1
  /\ UNCHANGED <<phase, symbol, nth>>
  /\ Kept

ParseError ==
  /\ phase = "read"
  /\ pos <= Len(file)
  /\ Refused(file[pos])
  /\ phase' = "over"
  /\ UNCHANGED <<pos, reader, path, nth>>
  /\ Kept

(* Mutant: only a scan is completed by the end of the file.                *)
EndOfFile_DropsList ==
  /\ phase = "read"
  /\ pos > Len(file)
  /\ IF mState > 3 THEN RuleEnds
                   ELSE phase' = "over" /\ UNCHANGED <<mState, item, path>>
  /\ UNCHANGED <<pos, symbol, nth>>
  /\ Kept

EndOfFile ==
  /\ phase = "read"
  /\ pos > Len(file)
  /\ IF mState >= 2 THEN RuleEnds
                    ELSE phase' = "over" /\ UNCHANGED <<mState, item, path>>
  /\ UNCHANGED <<pos, symbol, nth>>
  /\ Kept

ReadLine ==
  \/ Section \/ EntryLine \/ ScanLine \/ FpoiLine \/ RuleLine \/ FuncLine
  \/ YfuncLine \/ SfuncLine \/ FsectionLine \/ ItemLine \/ ParseError
  \/ EndOfFile

-----------------------------------------------------------------------------
(* The function deriv_hack::apply takes for a path and a symbol.           *)
Target(p, s) ==
  CASE s.yara # ""                  -> [kind |-> "yfunc", name |-> s.yara, n |-> 0]
    [] s.yara = "" /\ p.type = "entry" -> [kind |-> "entry", name |-> "", n |-> 0]
    [] s.yara = "" /\ p.type # "entry" ->
         IF s.exported # "" THEN [kind |-> "func", name |-> s.exported, n |-> 0]
         ELSE IF s.ord # 0  THEN [kind |-> "ordinal", name |-> "", n |-> s.ord]
         ELSE IF p.fpoi # 0 THEN [kind |-> "fpoi", name |-> "", n |-> p.fpoi]
         ELSE IF s.stg # 0  THEN [kind |-> "sfunc", name |-> "", n |-> s.stg]
         ELSE [kind |-> "fsection", name |-> s.section, n |-> 0]

(* prepare and apply look an unknown name ordN up by its number, and leave *)
(* the number in m_symbol.                                                 *)
Prepared(p, s) ==
  IF p.type # "entry" /\ s.exported # "" /\ OrdOf[s.exported] # 0
  THEN [s EXCEPT !.ord = OrdOf[s.exported]] ELSE s

NextIteration ==
  /\ phase' = "read"
  /\ \E t \in StrayTypes : path' = FreshPath(t)

Log(p, own) ==
  log' = Append(log, [rule |-> own, by |-> nth, type |-> p.type,
                      target |-> Target(p, symbol)])

(* if ( path.m_rule && !path.is_scan() ): kept for the rules that name it. *)
KeepRule ==
  /\ phase = "apply"
  /\ path.rule # 0
  /\ path.scan = <<>>
  /\ rules' = [n \in DOMAIN rules \cup {path.rule} |->
                 IF n = path.rule THEN [path |-> path, nth |-> nth]
                                      ELSE rules[n]]
  /\ NextIteration
  /\ UNCHANGED <<file, strayOrd, pos, reader, results, nth, log>>

(* resolve_rules looks at all items of a list, but of a scan only at the   *)
(* first, and from there at the rules they name.                           *)
RulesNamed(p) ==
  {it.reg : it \in {x \in Range(p.list) \cup {p.scan[k] : k \in DOMAIN p.scan \cap {1}} :
                     x.type = "rule"}}

Resolved(p) ==
  {p} \cup {rules[n].path : n \in RulesNamed(p) \cap DOMAIN rules}

(* A yara item with results that is not the first of a list is where the   *)
(* loop of _resolve_rules goes on without moving its iterator.             *)
Stays(p) == \E k \in 2..Len(p.list) : p.list[k].type \in Yara

ResolveForever ==
  /\ phase = "apply"
  /\ path.rule = 0 \/ path.scan # <<>>
  /\ \E p \in Resolved(path) : Stays(p)
  /\ phase' = "loops"
  /\ UNCHANGED <<pos, reader, path, nth>>
  /\ Kept

(* resolve_rules refuses the path: a rule is unknown or cannot stand where *)
(* it does, or yara found nothing.                                         *)
SkipRule ==
  /\ phase = "apply"
  /\ path.rule = 0 \/ path.scan # <<>>
  /\ \/ RulesNamed(path) # {}
     \/ \E p \in Resolved(path) : \E k \in DOMAIN p.list : p.list[k].type \in Yara
  /\ NextIteration
  /\ UNCHANGED <<file, strayOrd, pos, reader, rules, results, nth, log>>

ApplyRule ==
  /\ phase = "apply"
  /\ path.rule = 0
  /\ path.scan = <<>>
  /\ \A p \in Resolved(path) : ~Stays(p) /\ p.list[1].type # "rule"
  /\ RulesNamed(path) \subseteq DOMAIN rules
  /\ Log(path, nth)
  /\ symbol' = Prepared(path, symbol)
  /\ NextIteration
  /\ UNCHANGED <<file, strayOrd, pos, mState, item, rules, results, nth>>

Checks == {it.reg : it \in {x \in Range(path.scan) : x.type = "rule"}}

ScanResolved ==
  /\ phase = "apply"
  /\ path.scan # <<>>
  /\ RulesNamed(path) \subseteq DOMAIN rules
  /\ \A p \in Resolved(path) : ~Stays(p)
  /\ symbol' = Prepared(path, symbol)

BeginScan ==
  /\ ScanResolved
  /\ Checks \subseteq DOMAIN rules
  /\ phase' = "scan"
  /\ UNCHANGED <<file, strayOrd, pos, mState, item, path, rules, results, nth, log>>

(* validate_scan refuses a scan that names a rule nobody defined.          *)
RefuseScan ==
  /\ ScanResolved
  /\ ~(Checks \subseteq DOMAIN rules)
  /\ NextIteration
  /\ UNCHANGED <<file, strayOrd, pos, mState, item, rules, results, nth, log>>

(* check_rule_results: a rule is searched for when a scan first needs it,  *)
(* in the functions m_symbol selects now.                                  *)
EvaluateRule(n) ==
  /\ phase = "scan"
  /\ n \in Checks \ results
  /\ Log(rules[n].path, rules[n].nth)
  /\ symbol' = Prepared(rules[n].path, symbol)
  /\ results' = results \cup {n}
  /\ UNCHANGED <<file, strayOrd, pos, phase, mState, item, path, rules, nth>>

(* A scan that fails, or never reaches an item, leaves rules for later.    *)
EndScan ==
  /\ phase = "scan"
  /\ NextIteration
  /\ UNCHANGED <<file, strayOrd, pos, reader, rules, results, nth, log>>

Done == phase \in {"loops", "over"} /\ UNCHANGED vars

Next ==
  \/ ReadLine
  \/ KeepRule \/ ResolveForever \/ SkipRule \/ ApplyRule
  \/ BeginScan \/ RefuseScan \/ (\E n \in DOMAIN rules : EvaluateRule(n))
  \/ EndScan
  \/ Done

(* main reads and applies until it stops: it never waits for anything.     *)
Spec == Init /\ [][Next]_vars /\ WF_vars(Next)

-----------------------------------------------------------------------------
(* A line belongs to the rule that the last section line began, the lines  *)
(* before the first to the rule 0.                                         *)
Sections == {p \in DOMAIN file : file[p].word = "section"}
RuleOf(p) == Cardinality({q \in Sections : q <= p})

Words(k) == {file[p].word : p \in {q \in DOMAIN file : RuleOf(q) = k}}

(* The item lines of a rule, and which of them one is.                     *)
Items(k) == {p \in DOMAIN file : file[p].word \in ItemWords /\ RuleOf(p) = k}
Place(p) == Cardinality({q \in Items(RuleOf(p)) : q <= p})

(* The lines that select a function, and the function.                     *)
SelectorWords == {"entry", "func", "yfunc", "sfunc", "fsection", "fpoi"}
Selectors(k) == {p \in DOMAIN file : file[p].word \in SelectorWords /\ RuleOf(p) = k}
Spelled(line) ==
  [kind |-> line.word,
   name |-> IF line.word \in {"func", "yfunc", "fsection"} THEN line.arg ELSE "",
   n    |-> IF line.word \in {"sfunc", "fpoi"} THEN line.n ELSE 0]

(* A scan gives an offset to each of its items, and no other rule does.    *)
IsLaidOut(k) ==
  \A p \in Items(k) :
    file[p].at # NoAt <=>
      \E q \in DOMAIN file : q < p /\ RuleOf(q) = k /\ file[q].word = "scan"

(* A rule without items does not always end: `rule' and `fpoi' in front of *)
(* the next section line stay in the path.                                 *)
IsFresh(k) == k > 1 => Items(k - 1) # {}

(* What the documentation says of a keyword: the type of its item.         *)
DocumentedType(word) ==
  IF word \in Consts THEN ConstType[word]
  ELSE IF word = "check" THEN "rule"
  ELSE IF word = "load_cookie" THEN "ldr_cookie"
  ELSE word

(* The item has everything its line says; fields its type has no use for   *)
(* may be left over from earlier items.  Not what the reader gets wrong    *)
(* for every file: the types of poi and call_dimp, the stg of yarares and  *)
(* poi.                                                                    *)
Agrees(it, line) ==
  /\ line.word \notin {"poi", "call_dimp"} => it.type = DocumentedType(line.word)
  /\ it.wait = line.wait
  /\ line.at # NoAt => it.at = line.at
  /\ line.word \in Sectioned \cup Explicit \cup Named \cup Yara \cup {"call", "call_dimp"}
       => it.name = line.arg
  /\ line.word \in Yara \cup {"poi", "check"} => it.reg = Number(line)
  /\ line.word \in Indexed => it.reg = line.n
  /\ line.word \in Consts => it.value = line.n
  /\ line.word \in Stored => it.stg = line.n
  /\ line.word \in Sectioned \cup Explicit \cup Indexed \cup {"call"}
       => it.stg = line.stg

(* A rule that is applied has exactly the items its lines spell, in order, *)
(* although one path_item is reused for all of them and pushed only when   *)
(* the next line, the next rule or the end of the file is met.  (A rule    *)
(* without items gets the item of the rule before it.)                     *)
ItemsAreAsWritten ==
  phase \in {"apply", "scan"} /\ Items(nth) # {} /\ IsLaidOut(nth) =>
    LET items == path.list \o path.scan IN
    /\ Len(items) = Cardinality(Items(nth))
    /\ \A p \in Items(nth) : Agrees(items[Place(p)], file[p])

(* What a rule finds in m_symbol when it selects its function, and neither *)
(* overwrites nor overrides: the number of an export, left by an earlier   *)
(* func or never set, disturbs sfunc, fpoi and fsection; a yara rule       *)
(* disturbs fsection and entry.                                            *)
IsUndisturbed(k) ==
  /\ IsFresh(k)
  /\ \/ Words(k) \cap {"sfunc", "fpoi", "fsection"} = {}
     \/ strayOrd = 0
        /\ \A p \in DOMAIN file :
             RuleOf(p) < k /\ file[p].word = "func" => OrdOf[file[p].arg] = 0
  /\ \/ Words(k) \cap {"entry", "fsection"} = {}
     \/ \A p \in DOMAIN file : RuleOf(p) < k => file[p].word # "yfunc"

(* A path that became an entry edge by chance disturbs all but yfunc.      *)
IsOwnType(k, type) ==
  type = "entry" => "entry" \in Words(k) \/ Words(k) \cap SelectorWords = {"yfunc"}

(* The function a rule is applied to is one its own lines select, and none *)
(* left in m_symbol by an earlier rule, when it is applied as it is read;  *)
(* and also when a scan first needs it, if no rule in between has selected *)
(* another.                                                                *)
RuleAppliesToItsOwnFunction ==
  \A i \in DOMAIN log :
    LET k == log[i].rule IN
    IsUndisturbed(k) /\ IsOwnType(k, log[i].type) /\ Selectors(k) # {}
    /\ (\A j \in (k + 1)..log[i].by : Selectors(j) = {}) =>
      \E p \in Selectors(k) : log[i].target = Spelled(file[p])

(* Rules that are applied as they are read, whatever the others are:       *)
(* neither numbered nor scans, without items that may be refused.  poi     *)
(* takes the type of any item before it.                                   *)
IsPlain(k) ==
  /\ Words(k) \cap ({"rule", "scan", "check", "poi"} \cup Yara) = {}
  /\ Items(k) # {} /\ IsLaidOut(k) /\ IsFresh(k)

(* When the file was read to its end, these rules were applied, each once  *)
(* and in the order of the file.                                           *)
NoRuleIsLost ==
  phase = "over" /\ pos > Len(file) =>
    /\ nth = Cardinality(Sections)
    /\ \A k \in 1..nth : IsPlain(k) => \E i \in DOMAIN log : log[i].rule = k
    /\ \A i, j \in DOMAIN log :
         i < j /\ IsPlain(log[i].rule) /\ IsPlain(log[j].rule)
           => log[i].rule < log[j].rule

(* A session ends, or is caught in resolve_rules: no line, and no rule     *)
(* that names another, is read or tried over and over.                     *)
SessionEnds == <>(phase \in {"over", "loops"})
=============================================================================
