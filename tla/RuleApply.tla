------------------------------ MODULE RuleApply ------------------------------
(***************************************************************************)
(* deriv_hack::apply of ldr/deriv.cpp and check_rule_results of            *)
(* ldr/scan.cpp: find the functions a rule may be about, try the rule on   *)
(* one after the other, and put the storage back after every try that came *)
(* to nothing.  What try_apply does with one function (see RuleMatch) is   *)
(* an input here: whether it matches and what it leaves in the storage.    *)
(*                                                                         *)
(* A rule is a record                                                      *)
(*   select   how its function is given: entry, exported, fpoi, sfunc,     *)
(*            yfunc, or fsection, when it has to be searched for           *)
(*   target   the address of the entry or of the export, Null if there is  *)
(*            no such export                                               *)
(*   index    the storage index of sfunc and fpoi                          *)
(*   hits     what yara found for the rule named by yfunc                  *)
(*   consts, rconsts   where its rarest constant lies in the code section, *)
(*            and in .rdata                                                *)
(*   yaras    the hits of one of its yarares, with the offset added        *)
(*   limps, imps   IAT slots of the imports it loads and calls, Null for a *)
(*            name that is not in the IAT                                  *)
(*   pois     the storage indexes of its pointers                          *)
(*   stg      whether an item of its own has a storage index (has_stg)     *)
(*   lost     a section the module does not have: symbol, functions, rdata *)
(*            or none                                                      *)
(*   tries    per address what try_apply does there: [ok, writes]          *)
(* The searches for imports visit names in order; limps and imps are in    *)
(* that order.                                                             *)
(***************************************************************************)
EXTENDS Integers, Sequences, FiniteSets

CONSTANTS
  Addresses,  \* addresses of the module
  Indexes,    \* storage indexes
  Pdata,      \* the function addresses of .pdata, ascending
  AddRefs,    \* address -> where the code forms it, as xref_finder finds it
  LdrRefs,    \* address -> where the code loads from it
  Pointer,    \* address -> the address stored there, Null outside sections
  Initial,    \* what the storage may hold at an index at first
  Sessions    \* what may be asked for: sequences of [rule, n, lazy]; rule is
              \* what has the number n by then, for a file may give one
              \* number to several rules

Null == -1

Requests == UNION {{s[k] : k \in DOMAIN s} : s \in Sessions}

WellFormed(rule) ==
  /\ rule.select \in {"entry", "exported", "fpoi", "sfunc", "yfunc", "fsection"}
  /\ rule.target \in Addresses \cup {Null}
  /\ rule.index \in Indexes
  /\ \A things \in {rule.hits, rule.consts, rule.rconsts, rule.yaras, rule.limps, rule.imps} :
       things \in Seq(Addresses \cup {Null})
  /\ rule.pois \in Seq(Indexes)
  /\ rule.stg \in BOOLEAN
  /\ DOMAIN rule.tries = Addresses
  /\ \A f \in Addresses :
       LET t == rule.tries[f] IN
       /\ t.ok \in BOOLEAN
       /\ DOMAIN t.writes \subseteq Indexes
       /\ \A k \in DOMAIN t.writes : t.writes[k] \in Addresses

ASSUME RuleApplyAssumption ==
  /\ Addresses \subseteq Nat
  /\ Indexes \subseteq Nat \ {0}
  /\ Pdata \in Seq(Addresses)
  /\ \A j, k \in 1..Len(Pdata) : j < k => Pdata[j] < Pdata[k]
  /\ AddRefs \in [Addresses -> Seq(Addresses)]
  /\ LdrRefs \in [Addresses -> Seq(Addresses)]
  /\ Pointer \in [Addresses -> Addresses \cup {Null}]
  /\ Initial \subseteq Addresses \cup {Null}
  /\ Sessions \subseteq Seq(Requests)
  /\ \A r \in Requests : WellFormed(r.rule) /\ r.lazy \in BOOLEAN

Storage == [Indexes -> Addresses \cup {Null}]

VARIABLES
  asked,    \* the requests that are left, the one under way first
  phase,    \* idle, search (the loops of apply), back (apply returns)
  search,   \* the search that runs, see After; given if there is none
  groups,   \* what is left of the things it looks for
  refs,     \* what is left of the references to one of them
  stg,      \* m_stg
  copy,     \* m_stg_copy
  cached,   \* cached_funcs
  cand,     \* *cand
  ret,      \* what apply returns
  results,  \* rules_result: rule number -> functions
  tried,    \* history: the tries of this apply, [func, search]
  base,     \* history: m_stg when it began
  answers   \* history: what was answered

work == <<search, groups, refs, cached, cand>>
vars == <<asked, phase, work, stg, copy, ret, results, tried, base, answers>>

Request == Head(asked)
Rule == Request.rule

-----------------------------------------------------------------------------
(* arm64_hack::find_pdata: the entry before the lower bound, unless that   *)
(* is the first entry or behind the last.                                  *)
Below(a) == Cardinality({k \in 1..Len(Pdata) : Pdata[k] < a})

(* Mutant: the entry of the lower bound itself.                            *)
FindPdata_AtBound(a) ==
  IF Below(a) = Len(Pdata) THEN Null ELSE Pdata[Below(a) + 1]

FindPdata(a) ==
  IF Below(a) \in {0, Len(Pdata)} THEN Null ELSE Pdata[Below(a)]

(* The searches of apply, in order; yfunc has one of its own, and one      *)
(* function that is given is tried by itself.                              *)
After ==
  [const |-> "rconst", rconst |-> "yara", yara |-> "limp", limp |-> "poi",
   poi |-> "imp", imp |-> "none", yfunc |-> "none"]

(* What a search looks for.                                                *)
Things(rule, s) ==
  CASE s = "const" -> rule.consts
    [] s = "rconst" -> rule.rconsts
    [] s = "yara" -> rule.yaras
    [] s = "limp" -> rule.limps
    [] s = "poi" -> rule.pois
    [] s = "imp" -> rule.imps
    [] s = "yfunc" -> rule.hits

(* The references to one of them.  A constant in the pool and a hit of     *)
(* yara stand for themselves; a pointer is read from what the storage      *)
(* holds.                                                                  *)
RefsTo(s, x, storage) ==
  IF x = Null THEN <<>>
  ELSE IF s \in {"const", "yfunc"} THEN <<x>>
  ELSE IF s \in {"rconst", "yara", "imp"} THEN AddRefs[x]
  ELSE IF s = "limp" THEN LdrRefs[x]
  ELSE IF storage[x] = Null \/ Pointer[storage[x]] = Null THEN <<>>
  ELSE LdrRefs[Pointer[storage[x]]]

(* The function that is given: the entry or an export, one in the storage, *)
(* or one that a pointer leads to.                                         *)
Given(rule) ==
  CASE rule.select \in {"entry", "exported"} -> rule.target
    [] rule.select = "sfunc" -> stg[rule.index]
    [] rule.select = "fpoi" ->
         IF stg[rule.index] = Null THEN Null ELSE Pointer[stg[rule.index]]

-----------------------------------------------------------------------------
Init ==
  /\ asked \in Sessions
  /\ phase = "idle"
  /\ search = "none" /\ groups = <<>> /\ refs = <<>>
  /\ cached = {} /\ cand = {}
  /\ stg \in [Indexes -> Initial]
  /\ copy = [k \in Indexes |-> Null]
  /\ ret = 0
  /\ results = <<>>
  /\ tried = <<>> /\ base = stg
  /\ answers = <<>>

(* A search of apply begins.                                               *)
StartSearch(s, rule) ==
  /\ search' = s
  /\ groups' = IF s = "given" THEN <<>> ELSE Things(rule, s)
  /\ refs' = <<>>

(* apply begins: the storage is saved if the rule stores anything itself.  *)
Begin ==
  /\ phase = "idle" /\ asked # <<>>
  /\ ~Request.lazy \/ Request.n \notin DOMAIN results
  /\ copy' = IF Rule.stg THEN stg ELSE copy
  /\ cached' = {} /\ cand' = {}
  /\ tried' = <<>> /\ base' = stg
  /\ ret' = 0
  /\ IF Rule.lost = "symbol" \/ (Rule.lost = "functions" /\ Rule.select = "fsection")
     THEN phase' = "back" /\ UNCHANGED <<search, groups, refs>>
     ELSE /\ phase' = "search"
          /\ StartSearch(CASE Rule.select = "yfunc" -> "yfunc"
                           [] Rule.select = "fsection" -> "const"
                           [] OTHER -> "given", Rule)
  /\ UNCHANGED <<asked, stg, results, answers>>

Answer(res) == [n |-> Request.n, lazy |-> Request.lazy, rule |-> Rule, res |-> res]

(* A rule that was evaluated before answers from its results.              *)
AnswerFromResults ==
  /\ phase = "idle" /\ asked # <<>>
  /\ Request.lazy /\ Request.n \in DOMAIN results
  /\ answers' = Append(answers, Answer(results[Request.n] # {}))
  /\ asked' = Tail(asked)
  /\ UNCHANGED <<phase, work, stg, copy, ret, results, tried, base>>

-----------------------------------------------------------------------------
(* m_stg with what a try has stored.                                       *)
Stored(f) == [k \in Indexes |-> IF k \in DOMAIN Rule.tries[f].writes
                                THEN Rule.tries[f].writes[k] ELSE stg[k]]

(* Mutant: the storage is put back only after a try that failed.           *)
Restored_NotAfterMatch(f) ==
  IF Rule.stg /\ ~Rule.tries[f].ok THEN copy ELSE Stored(f)

Restored(f) == IF Rule.stg THEN copy ELSE Stored(f)

Note(f) == tried' = Append(tried, [func |-> f, search |-> search])

(* The rule matches.  A search for all candidates goes on, but only when   *)
(* the function had to be searched for in a section.                       *)
Match(f) ==
  /\ Rule.tries[f].ok
  /\ Note(f)
  /\ IF Request.lazy /\ search \notin {"yfunc", "given"}
     THEN /\ cand' = cand \cup {f}
          /\ stg' = Restored(f)
          /\ UNCHANGED <<phase, ret>>
     ELSE /\ stg' = Stored(f)
          /\ phase' = "back" /\ ret' = 1
          /\ UNCHANGED cand

Fail(f) ==
  /\ ~Rule.tries[f].ok
  /\ Note(f)
  /\ stg' = Restored(f)
  /\ UNCHANGED <<ret, cand>>

(* One function that is given.                                             *)
TryGiven ==
  /\ phase = "search" /\ search = "given"
  /\ Given(Rule) # Null
  /\ \/ Match(Given(Rule))
     \/ /\ Fail(Given(Rule))
        /\ phase' = "back"
  /\ UNCHANGED <<asked, search, groups, refs, cached, copy, results, base, answers>>

NothingGiven ==
  /\ phase = "search" /\ search = "given"
  /\ Given(Rule) = Null
  /\ phase' = "back"
  /\ UNCHANGED <<asked, work, stg, copy, ret, results, tried, base, answers>>

(* The function of one reference is tried unless another search was there  *)
(* first.  The search for pool constants has no part in that.              *)
(* Mutant: every function is tried whenever it is met.                     *)
Skipped_Never(f) == f = Null

Skipped(f) == f = Null \/ (search # "const" /\ f \in cached)

TryRef ==
  /\ phase = "search" /\ refs # <<>>
  /\ LET f == FindPdata(Head(refs)) IN
     \/ /\ Skipped(f)
        /\ UNCHANGED <<phase, cached, cand, stg, ret, tried>>
     \/ /\ ~Skipped(f)
        /\ cached' = IF search = "const" THEN cached ELSE cached \cup {f}
        /\ \/ Match(f)
           \/ Fail(f) /\ UNCHANGED phase
  /\ refs' = Tail(refs)
  /\ UNCHANGED <<asked, search, groups, copy, results, base, answers>>

(* The next thing the search looks for.                                    *)
NextThing ==
  /\ phase = "search" /\ refs = <<>> /\ groups # <<>>
  /\ refs' = RefsTo(search, Head(groups), stg)
  /\ groups' = Tail(groups)
  /\ UNCHANGED <<asked, phase, search, cached, cand, stg, copy, ret, results, tried,
                 base, answers>>

(* The next search.  The rarest constant of .rdata was counted, but in     *)
(* another module: if this one has no .rdata apply returns 0 here, with    *)
(* candidates or without.                                                  *)
NextSearch ==
  /\ phase = "search" /\ refs = <<>> /\ groups = <<>>
  /\ search # "given"
  /\ IF After[search] = "none"
     THEN /\ phase' = "back"
          /\ ret' = IF cand # {} THEN 1 ELSE 0
          /\ UNCHANGED <<search, groups, refs>>
     ELSE IF After[search] = "rconst" /\ Rule.rconsts # <<>> /\ Rule.lost = "rdata"
     THEN /\ phase' = "back" /\ ret' = 0
          /\ UNCHANGED <<search, groups, refs>>
     ELSE StartSearch(After[search], Rule) /\ UNCHANGED <<phase, ret>>
  /\ UNCHANGED <<asked, cached, cand, stg, copy, results, tried, base, answers>>

(* apply returns; check_rule_results keeps the candidates.                 *)
(* Mutant: the candidates are not moved there.                             *)
Kept_Empty == [n \in DOMAIN results \cup {Request.n} |->
                 IF n = Request.n THEN {} ELSE results[n]]

Kept == [n \in DOMAIN results \cup {Request.n} |->
           IF n = Request.n THEN cand ELSE results[n]]

Return ==
  /\ phase = "back"
  /\ phase' = "idle"
  /\ search' = "none" /\ groups' = <<>> /\ refs' = <<>>
  /\ results' = IF Request.lazy THEN Kept ELSE results
  /\ answers' = Append(answers, Answer(ret = 1))
  /\ asked' = Tail(asked)
  /\ UNCHANGED <<cached, cand, stg, copy, ret, tried, base>>

Step ==
  \/ Begin \/ AnswerFromResults
  \/ TryGiven \/ NothingGiven
  \/ TryRef \/ NextThing \/ NextSearch
  \/ Return

Done == phase = "idle" /\ asked = <<>> /\ UNCHANGED vars

Next == Step \/ Done

Spec == Init /\ [][Next]_vars /\ WF_vars(Step)

-----------------------------------------------------------------------------
Searches == DOMAIN After \cup {"none", "given"}

TypeOK ==
  /\ phase \in {"idle", "search", "back"}
  /\ search \in Searches
  /\ refs \in Seq(Addresses)
  /\ stg \in Storage /\ copy \in Storage /\ base \in Storage
  /\ ret \in {0, 1}
  /\ cached \subseteq Addresses
  /\ cand \subseteq cached \cup {tried[k].func : k \in DOMAIN tried}
  /\ \A n \in DOMAIN results : results[n] \subseteq Addresses

(* "FSM rules are applied to each candidate found only once" (lreadme.md): *)
(* no function is tried a second time by a search for anything but pool    *)
(* constants, whatever searches it was found by before.                    *)
TriedOnce ==
  \A k, l \in DOMAIN tried :
    /\ tried[k].search # "const" /\ tried[l].search # "const"
    /\ tried[k].func = tried[l].func
    => k = l

(* Whether apply undoes everything that a try stores: it does not look for *)
(* storage indexes in the rules its items have to pass.                    *)
Undoes(rule) == rule.stg \/ \A f \in DOMAIN rule.tries : rule.tries[f].writes = <<>>

Overlaid(storage, writes) ==
  [k \in Indexes |-> IF k \in DOMAIN writes THEN writes[k] ELSE storage[k]]

(* The storage after apply is the one before it, plus what the one match   *)
(* has stored if there was one to return: nothing is left of the functions *)
(* that were tried in vain, or that were only candidates.                  *)
StorageIsOfTheMatch ==
  phase = "back" /\ Undoes(Rule) =>
    stg = IF ret = 1 /\ cand = {} THEN Overlaid(base, Rule.tries[tried[Len(tried)].func].writes)
          ELSE base

(* The references a search may start from, with the storage as it was.     *)
Leads(rule) ==
  UNION {UNION {{RefsTo(s, Things(rule, s)[k], base)[l] :
                   l \in DOMAIN RefsTo(s, Things(rule, s)[k], base)} :
                  k \in DOMAIN Things(rule, s)} :
           s \in {"const", "rconst", "yara", "limp", "poi", "imp"}}

(* A function of .pdata, not the last, that refers to one of the things    *)
(* behind its first instruction.                                           *)
Refers(f, rule) ==
  \E k \in 1..(Len(Pdata) - 1) :
    f = Pdata[k] /\ \E r \in Leads(rule) : Pdata[k] < r /\ r < Pdata[k + 1]

(* The answer does not depend on the order of the searches: a rule that is *)
(* searched for in a section and finds nothing matches no function that    *)
(* refers to its constants, imports or pointers, and a rule evaluated for  *)
(* its candidates finds all of these functions that match, and only        *)
(* functions that match.                                                   *)
NoCandidateMissed ==
  phase = "back" /\ Rule.select = "fsection" /\ Rule.lost = "none" /\ Undoes(Rule) =>
    /\ ret = 0 => \A f \in DOMAIN Rule.tries : Refers(f, Rule) => ~Rule.tries[f].ok
    /\ Request.lazy =>
         /\ \A f \in DOMAIN Rule.tries : Refers(f, Rule) /\ Rule.tries[f].ok => f \in cand
         /\ \A f \in cand : Rule.tries[f].ok

(* The answer k is the evaluation of its number: no other came before it.  *)
Evaluates(k) ==
  answers[k].lazy /\ \A j \in 1..(k - 1) : answers[j].lazy => answers[j].n # answers[k].n

(* "lets see if this rule already was evaluated" (scan.cpp): whatever rule *)
(* has a number by then, a later answer for the number is about the rule   *)
(* that was evaluated.  If that searches for its function, it is the same  *)
(* answer, but where the module has lost the .rdata that constants were    *)
(* counted in: there it may turn from no to yes, and then a function       *)
(* matches.  If the function is given it is no, for that is no candidate.  *)
AnswersAgree ==
  \A l \in DOMAIN answers : \A k \in 1..(l - 1) :
    Evaluates(k) /\ answers[l].lazy /\ answers[l].n = answers[k].n =>
      LET rule == answers[k].rule IN
      /\ rule.select # "fsection" => ~answers[l].res
      /\ rule.select = "fsection" /\ rule.lost # "rdata" => answers[l].res = answers[k].res
      /\ answers[l].res => \E f \in DOMAIN rule.tries : rule.tries[f].ok
=============================================================================
