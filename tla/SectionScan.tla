----------------------------- MODULE SectionScan -----------------------------
(***************************************************************************)
(* deriv_hack::apply_scan of ldr/scan.cpp: find a table in a section from  *)
(* what lies at some offsets of it (constants, pointers to what was found  *)
(* before, to imports, to hits of yara, to functions a rule matches), and  *)
(* store its address when there is just one.                               *)
(*                                                                         *)
(* The image is a sequence of cells, bytes in the code; a DWORD, a pointer *)
(* and a GUID have the sizes that the constants say.  Addresses are        *)
(* relative to the image, which is mapped at mz, not at ImageBase, where   *)
(* its pointers lead.                                                      *)
(*                                                                         *)
(* An item of a table is a record of its type and its offset (at), the     *)
(* name of an import, export, section or yara rule, index (reg_index or    *)
(* stg_index), offset (what poi, ypoi and yarares add) and value, cells.   *)
(***************************************************************************)
EXTENDS BmSearch, FiniteSets

CONSTANTS
  CellBase,    \* How many values a cell has, 256 in the code
  DwordSize, PtrSize, GuidSize,
  ImageBase,   \* Where the pointers of the image lead
  Sects,       \* Its sections: name, va, size, whether they are code
  Fids,        \* From where to where the table of guarded functions goes
  Stubs,       \* Code address -> import slot and name, where a thunk is
  Slots,       \* Name of an import -> its slot
  Exports,     \* Name of an export -> its address
  Hits,        \* Name of a yara rule -> its hits
  Answers,     \* Number of a rule -> what apply returns and the candidates
  Initial,     \* What is in the storage at first
  Cases        \* Sets of places where an image may be mapped, of images, and
               \* of sessions, which are sequences of [rule, section, items]

Types == {"ldr_off", "ldr64_off", "ldr_guid", "sload", "ypoi", "yarares",
          "poi", "call_imp", "gload", "call_exp", "rule"}

Items == UNION {{scan.items[k] : k \in DOMAIN scan.items} :
  scan \in UNION {{s[k] : k \in DOMAIN s} : s \in UNION {c.sessions : c \in Cases}}}

Size(type) ==
  CASE type = "ldr_off" -> DwordSize
    [] type = "ldr_guid" -> GuidSize
    [] OTHER -> PtrSize

ASSUME ScanAssumption ==
  /\ \A n \in {DwordSize, PtrSize, GuidSize} : n \in Nat \ {0}
  /\ DwordSize <= PtrSize
  /\ \A c \in Cases :
       /\ c.mapped \subseteq Nat
       /\ \A i \in c.images : /\ i \in Seq(0..(CellBase - 1))
                              /\ \A s \in Sects : s.va + s.size <= Len(i)
  /\ \A item \in Items :
       /\ item.type \in Types /\ item.at \in Nat
       /\ item.type \in {"ldr_off", "ldr64_off", "ldr_guid"} =>
            Len(item.value) = Size(item.type)

VARIABLES
  mz,            \* Where the image is mapped
  image,         \* Its cells
  session,       \* The scans that are left, the running one first
  phase,         \* idle, thunk, scan, table, answered or fault
  patterns,      \* What scan_value is still to be called with
  curr,          \* Where scan_thunk or scan_value is, None between the calls
  tab, tail,     \* The table looked at and the items left to test
  is_ok,
  results,
  m_stg, m_thunks, rules_result,
  short,         \* History: a search got less memory than its pattern
  known          \* History: the imports of m_thunks when the scan began

scanning == <<patterns, curr, tab, tail, is_ok, results>>
caches == <<m_stg, m_thunks, rules_result>>
vars == <<mz, image, session, phase, scanning, caches, short, known>>

Scan == Head(session)
First == Head(Scan.items)

(***************************************************************************)
(* Reading the image                                                       *)
(***************************************************************************)
Cells(a, n) == SubSeq(image, a + 1, a + n)
Mapped(a, n) == a >= 0 /\ a + n <= Len(image)

\* Cells in the order of the machine, the least first
Number(cells) ==
  LET n[k \in 0..Len(cells)] ==
        IF k = 0 THEN 0 ELSE n[k - 1] + cells[k] * CellBase^(k - 1)
  IN n[Len(cells)]
Pointer(a) ==
  [k \in 1..PtrSize |-> ((ImageBase + a) \div CellBase^(k - 1)) % CellBase]
Dword(n) == n % CellBase^DwordSize

\* What a pointer read from the image stands for, as 64 and as 32 bits
At64(a) == Number(Cells(a, PtrSize)) - ImageBase
At32(a) == Dword(At64(a))

SectionOf(a) == {s \in Sects : s.va <= a /\ a < s.va + s.size}
InSection(a, name) == \E s \in SectionOf(a) : s.name = name
IsCode(a) == \E s \in SectionOf(a) : s.code

\* The pointer at a place and an offset; the whole of it must be in a section
HasPoi(a, offset) ==
  \E s \in SectionOf(a + offset) : a + offset + PtrSize <= s.va + s.size
extract_poi(a, offset) == At64(a + offset)

(***************************************************************************)
(* Thunks.  The cache is filled with the slot of the import and asked for  *)
(* the address of the thunk                                                *)
(***************************************************************************)
Thunk(a) == IF a \in DOMAIN m_thunks THEN m_thunks[a]
            ELSE IF a \in DOMAIN Stubs THEN Stubs[a].name ELSE ""
WithThunk(a) ==
  IF a \notin DOMAIN m_thunks /\ a \in DOMAIN Stubs
  THEN [k \in DOMAIN m_thunks \cup {Stubs[a].slot} |->
          IF k = Stubs[a].slot THEN Stubs[a].name ELSE m_thunks[k]]
  ELSE m_thunks
\* find_thunk_byname, the first in the order of addresses
Cached(name) ==
  LET found == {a \in DOMAIN m_thunks : m_thunks[a] = name}
  IN IF found = {} THEN None ELSE CHOOSE a \in found : \A b \in found : a <= b

(***************************************************************************)
(* Before the scan                                                         *)
(***************************************************************************)
\* validate_scan_items, for one item
Valid(item) ==
  CASE item.type = "call_exp" -> item.name \in DOMAIN Exports
    [] item.type = "call_imp" -> item.name \in DOMAIN Slots
    [] item.type \in {"yarares", "ypoi"} ->
         item.name \in DOMAIN Hits /\ Hits[item.name] # {}
    [] item.type \in {"poi", "gload"} -> item.index \in DOMAIN m_stg
    [] item.type = "sload" -> \E s \in Sects : s.name = item.name
    [] OTHER -> TRUE
AllValid == \A k \in DOMAIN Scan.items : Valid(Scan.items[k])

\* The address the validation leaves in an item
Rva(item) == IF item.type = "call_exp" THEN Exports[item.name]
             ELSE m_stg[item.index]

\* check_rule_results: what a rule is answered, and its candidates
Answer(n) == IF n \in DOMAIN rules_result THEN rules_result[n] # {}
             ELSE Answers[n].res
Candidates(n) == IF n \in DOMAIN rules_result THEN rules_result[n]
                 ELSE Answers[n].found
Asked(n) == [k \in DOMAIN rules_result \cup {n} |-> Candidates(k)]

Bound(item) == item.at + Size(item.type)
get_scan_max_size == Greatest({Bound(Scan.items[k]) : k \in DOMAIN Scan.items})

Area == CHOOSE s \in Sects : s.name = Scan.section
HasArea == /\ \E s \in Sects : s.name = Scan.section
           /\ get_scan_max_size <= Area.size
End == Area.va + Area.size - get_scan_max_size

\* In the order of a set: ascending
Ascending(S) ==
  LET n[T \in SUBSET S] == IF T = {} THEN <<>>
        ELSE LET a == CHOOSE x \in T : \A y \in T : x <= y
             IN <<a>> \o n[T \ {a}]
  IN n[S]

\* The addresses, or the cells, the first item is looked for as
Pointers(S) == [k \in 1..Cardinality(S) |-> Pointer(Ascending(S)[k])]
Patterns ==
  CASE First.type \in {"ldr_off", "ldr64_off", "ldr_guid"} -> <<First.value>>
    [] First.type = "poi" -> <<Cells(Rva(First) + First.offset, PtrSize)>>
    [] First.type \in {"gload", "call_exp"} -> <<Pointer(Rva(First))>>
    [] First.type = "yarares" ->
         Pointers({hit + First.offset : hit \in Hits[First.name]})
    [] First.type = "ypoi" ->
         Pointers({extract_poi(hit, First.offset) :
                     hit \in {h \in Hits[First.name] : HasPoi(h, First.offset)}})
    [] First.type = "rule" -> Pointers(Candidates(First.index))
    [] First.type = "call_imp" -> <<Pointer(Cached(First.name))>>

\* A scan may not begin with sload; a rule has to have an answer, and the only
\* hit of a yara rule a pointer
Refused ==
  \/ ~AllValid
  \/ First.type = "sload"
  \/ First.type = "rule" /\ ~Answer(First.index)
  \/ First.type = "ypoi" /\ Cardinality(Hits[First.name]) = 1 /\ Patterns = <<>>

NeedsThunk == First.type = "call_imp" /\ Cached(First.name) = None

(***************************************************************************)
(* The steps                                                               *)
(***************************************************************************)
Init ==
  /\ \E c \in Cases : mz \in c.mapped /\ image \in c.images /\ session \in c.sessions
  /\ phase = "idle" /\ patterns = <<>> /\ curr = None
  /\ tab = None /\ tail = <<>> /\ is_ok = FALSE /\ results = {}
  /\ m_stg = Initial
  /\ m_thunks = <<>> /\ rules_result = <<>>
  /\ short = FALSE /\ known = {}

\* The rule of a first item is asked, whatever the answer is
AskFirst ==
  rules_result' = IF AllValid /\ First.type = "rule" THEN Asked(First.index)
                  ELSE rules_result

Refuse ==
  /\ phase = "idle" /\ session # <<>> /\ Refused
  /\ phase' = "answered"
  /\ known' = {m_thunks[a] : a \in DOMAIN m_thunks}
  /\ AskFirst
  /\ UNCHANGED <<mz, image, session, scanning, m_stg, m_thunks, short>>

Begin ==
  /\ phase = "idle" /\ session # <<>> /\ ~Refused /\ ~NeedsThunk
  /\ phase' = "scan" /\ patterns' = Patterns
  /\ known' = {m_thunks[a] : a \in DOMAIN m_thunks}
  /\ AskFirst
  /\ UNCHANGED <<mz, image, session, curr, tab, tail, is_ok, results,
                 m_stg, m_thunks, short>>

\* scan_thunk looks for a pointer to a thunk of the import.  It takes pointers
\* for addresses of the mapped image
BeginThunk ==
  /\ phase = "idle" /\ session # <<>> /\ ~Refused /\ NeedsThunk
  /\ IF HasArea THEN phase' = "thunk" /\ curr' = Area.va + First.at
     ELSE phase' = "answered" /\ curr' = None
  /\ known' = {m_thunks[a] : a \in DOMAIN m_thunks}
  /\ UNCHANGED <<mz, image, session, patterns, tab, tail, is_ok, results,
                 caches, short>>

ThunkAddress == Dword(Number(Cells(curr, PtrSize)) - mz)

ScanThunk ==
  LET off == ThunkAddress
      asked == Number(Cells(curr, PtrSize)) # 0 /\ IsCode(off)
  IN /\ phase = "thunk" /\ curr < End
     /\ m_thunks' = IF asked THEN WithThunk(off) ELSE m_thunks
     /\ IF asked /\ Thunk(off) = First.name
        THEN phase' = "scan" /\ patterns' = <<Pointer(off)>> /\ curr' = None
        ELSE curr' = curr + PtrSize /\ UNCHANGED <<phase, patterns>>
     /\ UNCHANGED <<mz, image, session, tab, tail, is_ok, results, m_stg,
                    rules_result, short, known>>

NoThunk ==
  /\ phase = "thunk" /\ curr >= End
  /\ phase' = "answered" /\ curr' = None
  /\ UNCHANGED <<mz, image, session, patterns, tab, tail, is_ok, results,
                 caches, short, known>>

\* scan_value with the next pattern
ScanValue ==
  /\ phase = "scan" /\ curr = None /\ patterns # <<>>
  /\ IF HasArea THEN curr' = Area.va + First.at /\ patterns' = patterns
     ELSE curr' = None /\ patterns' = Tail(patterns)
  /\ UNCHANGED <<mz, image, session, phase, tab, tail, is_ok, results, caches,
                 short, known>>

EndValue ==
  /\ patterns' = Tail(patterns) /\ curr' = None

\* One call of the search.  Hits in the table of guarded functions do not count
GoOn_Stay(fres) == fres
GoOn(fres) == fres + Len(Head(patterns))

SearchNext ==
  LET fres == Search(Head(patterns), image, curr, End - curr)
  IN /\ phase = "scan" /\ curr # None /\ curr < End
     /\ short' = (short \/ End - curr < Len(Head(patterns)))
     /\ \/ fres = None /\ EndValue /\ UNCHANGED <<phase, tab, tail, is_ok>>
        \/ /\ fres = Fault /\ phase' = "fault"
           /\ UNCHANGED <<patterns, curr, tab, tail, is_ok>>
        \/ /\ fres >= 0 /\ curr' = GoOn(fres)
           /\ IF Fids.from <= fres /\ fres < Fids.to
              THEN UNCHANGED <<phase, tab, tail, is_ok>>
              ELSE /\ phase' = "table" /\ tab' = fres - First.at
                   /\ tail' = Tail(Scan.items) /\ is_ok' = (Len(Scan.items) = 1)
           /\ UNCHANGED patterns
     /\ UNCHANGED <<mz, image, session, results, caches, known>>

NothingLeft ==
  /\ phase = "scan" /\ curr # None /\ curr >= End /\ EndValue
  /\ UNCHANGED <<mz, image, session, phase, tab, tail, is_ok, results, caches,
                 short, known>>

\* What is found at an item's place: TRUE or FALSE, where the code sets is_ok.
\* Yara hits and rules only ever set it to true; ypoi asks for the pointer at
\* the start of the image, since one name hides the other
Finding(item) ==
  LET at == tab + item.at
  IN CASE item.type \in {"ldr_off", "ldr64_off", "ldr_guid"} ->
            Cells(at, Size(item.type)) = item.value
       [] item.type = "sload" -> InSection(At32(at), item.name)
       [] item.type = "call_imp" -> Thunk(At32(at)) = item.name
       [] item.type \in {"gload", "call_exp"} -> At64(at) = Rva(item)
       [] item.type = "poi" ->
            Cells(at, PtrSize) = Cells(Rva(item) + item.offset, PtrSize)
       [] item.type = "yarares" ->
            is_ok \/ Dword(At64(at) + item.offset) \in Hits[item.name]
       [] item.type = "ypoi" ->
            is_ok \/ (HasPoi(0, item.offset) /\ extract_poi(0, item.offset) = At64(at))
       [] item.type = "rule" -> is_ok \/ At64(at) \in Candidates(item.index)

TestItem_Sticky(item) == is_ok \/ Finding(item)
TestItem(item) == Finding(item)

CheckItem ==
  LET item == Head(tail)
  IN /\ phase = "table" /\ tail # <<>>
     /\ IF ~Mapped(tab + item.at, Size(item.type))
        THEN phase' = "fault" /\ UNCHANGED <<scanning, caches>>
        ELSE IF item.type = "rule" /\ item.index \notin DOMAIN rules_result
                /\ ~Answer(item.index)
        THEN \* No answer ends the whole scan_value
             /\ phase' = "scan" /\ EndValue
             /\ rules_result' = Asked(item.index)
             /\ tab' = None /\ tail' = <<>>
             /\ UNCHANGED <<is_ok, results, m_stg, m_thunks>>
        ELSE /\ is_ok' = TestItem(item)
             /\ tail' = IF is_ok' THEN Tail(tail) ELSE <<>>
             /\ m_thunks' = IF item.type = "call_imp"
                            THEN WithThunk(At32(tab + item.at)) ELSE m_thunks
             /\ rules_result' = IF item.type = "rule" THEN Asked(item.index)
                                ELSE rules_result
             /\ UNCHANGED <<phase, patterns, curr, tab, results, m_stg>>
     /\ UNCHANGED <<mz, image, session, short, known>>

EndTable ==
  /\ phase = "table" /\ tail = <<>>
  /\ phase' = "scan" /\ tab' = None
  /\ results' = IF is_ok THEN results \cup {tab} ELSE results
  /\ UNCHANGED <<mz, image, session, patterns, curr, tail, is_ok, caches,
                 short, known>>

\* store_stg, when there is just one table
Stored(n, a) == IF n = 0 THEN m_stg
                ELSE [k \in DOMAIN m_stg \cup {n} |-> IF k = n THEN a ELSE m_stg[k]]
Decided_AtLeastOne == results # {}
Decided == Cardinality(results) = 1

EndScan ==
  /\ phase = "scan" /\ curr = None /\ patterns = <<>>
  /\ phase' = "answered"
  /\ m_stg' = IF Decided THEN Stored(Scan.rule, CHOOSE a \in results : TRUE)
              ELSE m_stg
  /\ UNCHANGED <<mz, image, session, scanning, m_thunks, rules_result, short, known>>

NextScan ==
  /\ phase = "answered"
  /\ phase' = "idle" /\ session' = Tail(session)
  /\ results' = {} /\ short' = FALSE /\ is_ok' = FALSE /\ known' = {}
  /\ UNCHANGED <<mz, image, patterns, curr, tab, tail, caches>>

\* The session is over, or the process reads what is not mapped
Over == phase = "fault" \/ (phase = "idle" /\ session = <<>>)
Stop == Over /\ UNCHANGED vars

Step == \/ Refuse \/ Begin \/ BeginThunk \/ ScanThunk \/ NoThunk \/ ScanValue
        \/ SearchNext \/ NothingLeft \/ CheckItem \/ EndTable \/ EndScan
        \/ NextScan
Next == Step \/ Stop

Spec == Init /\ [][Next]_vars /\ WF_vars(Step)

(***************************************************************************)
(* What a table is, from the image alone                                   *)
(***************************************************************************)
ThunksOf(name) == {a \in DOMAIN Stubs : Stubs[a].name = name}

\* Of pointers into sections, to thunks and to hits the low half counts
Holds(item, t) ==
  LET at == t + item.at
  IN CASE item.type \in {"ldr_off", "ldr64_off", "ldr_guid"} ->
            Cells(at, Size(item.type)) = item.value
       [] item.type = "sload" -> InSection(At32(at), item.name)
       [] item.type = "call_imp" -> At32(at) \in ThunksOf(item.name)
       [] item.type \in {"gload", "call_exp"} -> Cells(at, PtrSize) = Pointer(Rva(item))
       [] item.type = "poi" ->
            Cells(at, PtrSize) = Cells(Rva(item) + item.offset, PtrSize)
       [] item.type = "yarares" ->
            \E hit \in Hits[item.name] : At32(at) = hit + item.offset
       [] item.type = "ypoi" ->
            \E hit \in Hits[item.name] :
              HasPoi(hit, item.offset) /\ At64(at) = extract_poi(hit, item.offset)
       [] item.type = "rule" -> At64(at) \in Answers[item.index].found

\* Items that are not really tested: those that only set is_ok when an item
\* before them has passed, the offset of a yara hit, which is added to the wrong
\* side, the pointers of yara hits, and imports, where a slot counts as well
Untested(k, t) ==
  LET item == Scan.items[k]
  IN \/ k > 2 /\ item.type \in {"rule", "yarares", "ypoi"}
     \/ k = 2 /\ item.type = "yarares" /\ item.offset # 0
     \/ k = 2 /\ item.type = "ypoi"
     \/ item.type = "call_imp" /\ At32(t + item.at) = Slots[item.name]

\* What a scan can do with an item: rules are answered when they are first
\* asked, the import is not in the cache yet and has one thunk
Workable(k) ==
  LET item == Scan.items[k]
  IN /\ k = 2 => /\ item.type = "yarares" => item.offset = 0
                 /\ item.type # "ypoi"
     /\ item.type = "rule" => Answers[item.index].res
     /\ k = 1 => /\ item.type # "sload"
                 /\ item.type = "call_imp" =>
                      item.name \notin known /\ Cardinality(ThunksOf(item.name)) = 1

\* The first item in the place of a table, all of its pointer
Begins(t) ==
  /\ Holds(First, t)
  /\ First.type \in {"call_imp", "yarares"} =>
       \E a \in 0..Len(image) : Cells(t + First.at, PtrSize) = Pointer(a)

\* Places that leave room for the pattern and, once more, for a table behind
\* them; where nothing that looks like the pattern overlaps with it
Places ==
  {t \in Area.va..(Area.va + Area.size) :
     t + First.at + Size(First.type) + get_scan_max_size <= Area.va + Area.size}
Looks(t) == \E k \in 1..Len(Patterns) :
              Cells(t + First.at, Size(First.type)) = Patterns[k]
Alone(t) == \A u \in Places : u < t /\ t < u + Size(First.type) => ~Looks(u)

Tables ==
  IF AllValid /\ HasArea /\ \A k \in DOMAIN Scan.items : Workable(k)
  THEN {t \in Places :
          /\ Begins(t)
          /\ \A k \in DOMAIN Scan.items : Holds(Scan.items[k], t)
          /\ ~(Fids.from <= t + First.at /\ t + First.at < Fids.to)
          /\ First.type = "call_imp" => (t - Area.va) % PtrSize = 0}
  ELSE {}

\* The scan has found what it will, and the storage is as it was
Complete ==
  \/ phase = "scan" /\ curr = None /\ patterns = <<>>
  \/ phase = "answered" /\ results = {}

(***************************************************************************)
(* Properties                                                              *)
(***************************************************************************)
\* A table that is found has everything that is tested, with the items relative
\* to its own address and no verdict left from the table before it
TablesMatch ==
  phase \in {"scan", "table"} =>
    \A t \in results : \A k \in DOMAIN Scan.items :
      Untested(k, t) \/ Holds(Scan.items[k], t)

\* Tables lie in the section from end to end, and nothing behind the image is
\* read, unless a search had less than a pattern left (bm_search.cpp:74)
TablesAreInside ==
  ~short => /\ phase # "fault"
            /\ \A t \in results :
                 Area.va <= t /\ t + get_scan_max_size <= Area.va + Area.size

\* What a scan finds are tables of the section
TablesAreSound == TablesMatch /\ TablesAreInside

\* No table is missed: the search finds every place, the scan goes on behind
\* each hit.  An import needs an image that is mapped where it was linked to be
\* mapped, and pattern that do not overlap
NoTableMissed ==
  Complete /\ (First.type = "call_imp" => Dword(mz) = Dword(ImageBase)) =>
    \A t \in Tables : Alone(t) => t \in results

\* What is stored is the table, the only one there is
OnlyTableIsStored ==
  [][m_stg' # m_stg =>
       \A t \in Tables : Alone(t) => m_stg'[Scan.rule] = t]_vars

\* Every session comes to its end: the scan moves on behind each hit, and the
\* search with each cell that differs
SessionEnds == <>Over

\* A scan for an import finds its tables: "we need to scan whole section content
\* to find right import thunk" (scan.cpp:521)
ImportIsFound ==
  Complete /\ First.type = "call_imp" =>
    \A t \in Tables : Alone(t) => t \in results
=============================================================================
