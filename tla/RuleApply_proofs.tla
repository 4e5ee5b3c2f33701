-------------------------- MODULE RuleApply_proofs --------------------------
(***************************************************************************)
(* Proofs about RuleApply (deriv_hack::apply of ldr/deriv.cpp) for modules *)
(* and storages of any size and any sequence of requests.                  *)
(***************************************************************************)
EXTENDS RuleApply, FiniteSetTheorems, SequenceTheorems, TLAPS

-----------------------------------------------------------------------------
(* There is a request under way, of a known form, and the things that are  *)
(* left belong to the search: indexes for poi, addresses for the others,   *)
(* nothing for a function that is given.                                   *)
Working ==
  /\ asked \in Seq(Requests)
  /\ phase # "idle" => asked # <<>>
  /\ tried \in Seq([func : Addresses, search : Searches])
  /\ phase = "search" => search # "none"
  /\ groups \in Seq(IF search = "poi" THEN Indexes ELSE Addresses \cup {Null})
  /\ search = "given" => groups = <<>> /\ refs = <<>>
  /\ phase = "search" /\ search = "given" => Rule.select \notin {"yfunc", "fsection"}

(* A function that was tried for anything but a pool constant is in        *)
(* cached_funcs; a function that is given is the first to be tried.        *)
Remembered ==
  /\ phase = "search" =>
       \A k \in DOMAIN tried : tried[k].search # "const" => tried[k].func \in cached
  /\ phase = "search" /\ search = "given" => tried = <<>>

(* While the searches go on the storage is as it was, and so is its copy.  *)
Unchanged ==
  phase = "search" /\ Undoes(Rule) => stg = base /\ (Rule.stg => copy = base)

(* Candidates are kept only of a search in a section.                      *)
Kinds ==
  /\ phase # "idle" /\ cand # {} => Request.lazy /\ search \notin {"yfunc", "given"}
  /\ phase = "search" => ret = 0

Inv ==
  /\ TypeOK /\ Working /\ Kinds
  /\ Remembered /\ TriedOnce
  /\ Unchanged /\ StorageIsOfTheMatch

-----------------------------------------------------------------------------
(* find_pdata finds a function of .pdata or nothing.                       *)
LEMMA FoundFunction ==
  ASSUME NEW a \in Addresses
  PROVE  FindPdata(a) \in Addresses \cup {Null}
<1> DEFINE Entries == {k \in 1..Len(Pdata) : Pdata[k] < a}
<1>1. Len(Pdata) \in Nat /\ \A k \in 1..Len(Pdata) : Pdata[k] \in Addresses
  BY RuleApplyAssumption DEF RuleApplyAssumption
<1>2. /\ IsFiniteSet(1..Len(Pdata)) /\ Cardinality(1..Len(Pdata)) = Len(Pdata)
  BY <1>1, FS_Interval
<1>3. IsFiniteSet(Entries) /\ Cardinality(Entries) <= Len(Pdata)
  BY <1>2, FS_Subset
<1>4. Cardinality(Entries) \in Nat
  BY <1>3, FS_CardinalityType
<1> QED BY <1>1, <1>3, <1>4 DEF FindPdata, Below

(* The references to something the search looks for are addresses.         *)
LEMMA RefsAreAddresses ==
  ASSUME NEW s \in DOMAIN After, NEW storage \in Storage,
         NEW x \in IF s = "poi" THEN Indexes ELSE Addresses \cup {Null}
  PROVE  RefsTo(s, x, storage) \in Seq(Addresses)
<1> USE RuleApplyAssumption DEF RuleApplyAssumption, Null
<1>0. DOMAIN After = {"const", "rconst", "yara", "limp", "poi", "imp", "yfunc"}
  BY DEF After
<1>1. CASE x = Null
  BY <1>1 DEF RefsTo
<1>2. CASE x # Null /\ s # "poi"
  <2>1. x \in Addresses
    BY <1>2
  <2>2. <<x>> \in Seq(Addresses) /\ AddRefs[x] \in Seq(Addresses)
        /\ LdrRefs[x] \in Seq(Addresses)
    BY <2>1
  <2> QED BY <1>0, <1>2, <2>2 DEF RefsTo
<1>3. CASE x # Null /\ s = "poi"
  <2>1. storage[x] \in Addresses \cup {Null}
    BY <1>3 DEF Storage
  <2>2. Pointer[storage[x]] = Null \/ LdrRefs[Pointer[storage[x]]] \in Seq(Addresses)
        \/ storage[x] = Null
    BY <2>1
  <2>3. RefsTo(s, x, storage) = IF storage[x] = Null \/ Pointer[storage[x]] = Null
                                THEN <<>> ELSE LdrRefs[Pointer[storage[x]]]
    BY <1>3 DEF RefsTo
  <2> QED BY <2>2, <2>3
<1> QED BY <1>1, <1>2, <1>3

(* The things a search looks for are of its kind.                          *)
LEMMA ThingsAreKnown ==
  ASSUME NEW rule, WellFormed(rule), NEW s \in DOMAIN After
  PROVE  Things(rule, s) \in Seq(IF s = "poi" THEN Indexes ELSE Addresses \cup {Null})
<1>1. DOMAIN After = {"const", "rconst", "yara", "limp", "poi", "imp", "yfunc"}
  BY DEF After
<1> QED BY <1>1 DEF Things, WellFormed

(* A try leaves a storage behind, and no other than before when apply puts *)
(* it back.                                                                *)
LEMMA StorageAfterTry ==
  ASSUME NEW f \in Addresses, WellFormed(Rule), stg \in Storage, copy \in Storage
  PROVE  /\ Stored(f) \in Storage
         /\ Restored(f) \in Storage
         /\ Undoes(Rule) /\ stg = base /\ (Rule.stg => copy = base) => Restored(f) = base
         /\ stg = base => Stored(f) = Overlaid(base, Rule.tries[f].writes)
<1> USE DEF Storage
<1>1. Stored(f) \in Storage
  BY DEF Stored, WellFormed
<1>2. Restored(f) \in Storage
  BY <1>1 DEF Restored
<1>3. ASSUME Undoes(Rule), stg = base, Rule.stg => copy = base
      PROVE  Restored(f) = base
  <2>1. CASE Rule.stg
    BY <2>1, <1>3 DEF Restored
  <2>2. CASE ~Rule.stg
    <3>1. Rule.tries[f].writes = <<>>
      BY <2>2, <1>3 DEF Undoes, WellFormed
    <3>2. DOMAIN Rule.tries[f].writes = {}
      BY <3>1
    <3>3. Stored(f) = stg
      BY <3>2 DEF Stored
    <3> QED BY <2>2, <3>3, <1>3 DEF Restored
  <2> QED BY <2>1, <2>2
<1>4. stg = base => Stored(f) = Overlaid(base, Rule.tries[f].writes)
  BY DEF Stored, Overlaid
<1> QED BY <1>1, <1>2, <1>3, <1>4

(* The request under way is well formed.                                   *)
LEMMA KnownRequest ==
  ASSUME asked \in Seq(Requests), asked # <<>>
  PROVE  Request \in Requests /\ WellFormed(Rule) /\ Request.lazy \in BOOLEAN
<1>1. Request \in Requests
  BY DEF Request
<1> QED BY <1>1, RuleApplyAssumption DEF RuleApplyAssumption, Rule

-----------------------------------------------------------------------------
LEMMA InitInv == Init => Inv
<1> SUFFICES ASSUME Init PROVE Inv
  OBVIOUS
<1> USE RuleApplyAssumption DEF RuleApplyAssumption, Init
<1>1. stg \in Storage /\ copy \in Storage /\ base \in Storage
  BY DEF Storage
<1>2. TypeOK
  <2>1. DOMAIN results = {}
    OBVIOUS
  <2> QED BY <1>1, <2>1 DEF TypeOK, Searches
<1>3. Working
  <2>1. asked \in Seq(Requests)
    OBVIOUS
  <2> QED BY <2>1 DEF Working
<1>4. Kinds /\ Remembered /\ TriedOnce /\ Unchanged /\ StorageIsOfTheMatch
  BY DEF Kinds, Remembered, TriedOnce, Unchanged, StorageIsOfTheMatch
<1> QED BY <1>2, <1>3, <1>4 DEF Inv

(* A try of f within a step: f was not tried before unless it is for a     *)
(* pool constant, and is remembered if the search goes on.                 *)
Tries(f) ==
  /\ phase = "search"
  /\ UNCHANGED <<asked, search, copy, base>>
  /\ \/ Match(f)
     \/ Fail(f) /\ phase' \in {"search", "back"}
  /\ cached \subseteq cached' /\ cached' \subseteq cached \cup {f}
  /\ phase' = "search" => search # "given"
  /\ search # "const" =>
       /\ phase' = "search" => f \in cached'
       /\ \A k \in DOMAIN tried : tried[k].search # "const" => tried[k].func # f

(* It leaves everything in order.                                          *)
LEMMA TryInv ==
  ASSUME Inv, NEW f \in Addresses, Tries(f)
  PROVE  /\ phase' \in {"search", "back"} /\ ret' \in {0, 1}
         /\ stg' \in Storage
         /\ cached' \subseteq Addresses
         /\ cand' \subseteq cached' \cup {tried'[k].func : k \in DOMAIN tried'}
         /\ tried' \in Seq([func : Addresses, search : Searches])
         /\ Kinds' /\ Remembered' /\ TriedOnce' /\ Unchanged' /\ StorageIsOfTheMatch'
<1> USE DEF Inv, Tries
<1>0. asked # <<>> /\ asked' = asked /\ Request' = Request /\ Rule' = Rule
  BY DEF Working, Request, Rule
<1>1. WellFormed(Rule) /\ Request.lazy \in BOOLEAN
  BY <1>0, KnownRequest DEF Working
<1>2. /\ stg \in Storage /\ copy \in Storage
      /\ search \in Searches /\ ret = 0
  BY DEF TypeOK, Kinds
<1>3. tried' = Append(tried, [func |-> f, search |-> search])
  BY DEF Match, Fail, Note
<1>4. /\ tried \in Seq([func : Addresses, search : Searches])
      /\ tried' \in Seq([func : Addresses, search : Searches])
      /\ Len(tried') = Len(tried) + 1 /\ Len(tried) \in Nat
      /\ DOMAIN tried = 1..Len(tried) /\ DOMAIN tried' = 1..(Len(tried) + 1)
      /\ \A k \in DOMAIN tried : tried'[k] = tried[k]
      /\ tried'[Len(tried')] = [func |-> f, search |-> search]
  BY <1>2, <1>3 DEF Working
<1>5. /\ Stored(f) \in Storage /\ Restored(f) \in Storage
      /\ Undoes(Rule) => Restored(f) = base
      /\ Undoes(Rule) => Stored(f) = Overlaid(base, Rule.tries[f].writes)
  BY <1>1, <1>2, StorageAfterTry DEF Unchanged
<1>6. phase' \in {"search", "back"} /\ ret' \in {0, 1} /\ stg' \in Storage
  BY <1>2, <1>5 DEF Match, Fail
<1>7. cached' \subseteq Addresses
  BY DEF TypeOK
<1>8. cand' \subseteq cached' \cup {tried'[k].func : k \in DOMAIN tried'}
  <2>1. cand' \subseteq cand \cup {f}
    BY DEF Match, Fail
  <2>2. cand \subseteq cached \cup {tried[k].func : k \in DOMAIN tried}
    BY DEF TypeOK
  <2>3. {tried[k].func : k \in DOMAIN tried} \subseteq {tried'[k].func : k \in DOMAIN tried'}
    BY <1>4
  <2>4. f \in {tried'[k].func : k \in DOMAIN tried'}
    BY <1>4
  <2> QED BY <2>1, <2>2, <2>3, <2>4
<1>9. Kinds'
  <2>1. CASE Match(f)
    BY <2>1, <1>0, <1>2 DEF Match, Kinds
  <2>2. CASE Fail(f)
    BY <2>2, <1>0, <1>2 DEF Fail, Kinds
  <2> QED BY <2>1, <2>2
<1>10. Remembered'
  BY <1>4 DEF Remembered
<1>11. TriedOnce'
  <2> SUFFICES ASSUME NEW k \in DOMAIN tried', NEW l \in DOMAIN tried',
                      tried'[k].search # "const", tried'[l].search # "const",
                      tried'[k].func = tried'[l].func
               PROVE  k = l
    BY DEF TriedOnce
  <2>1. CASE k \in DOMAIN tried /\ l \in DOMAIN tried
    BY <2>1, <1>4 DEF TriedOnce
  <2>2. CASE k \in DOMAIN tried /\ l = Len(tried')
    BY <2>2, <1>4
  <2>3. CASE k = Len(tried') /\ l \in DOMAIN tried
    BY <2>3, <1>4
  <2>4. CASE k = Len(tried') /\ l = Len(tried')
    BY <2>4
  <2> QED BY <2>1, <2>2, <2>3, <2>4, <1>4
<1>12. Unchanged'
  BY <1>0, <1>5 DEF Unchanged, Match, Fail, Undoes
<1>13. StorageIsOfTheMatch'
  <2> SUFFICES ASSUME phase' = "back", Undoes(Rule)
               PROVE  stg' = IF ret' = 1 /\ cand' = {}
                             THEN Overlaid(base, Rule.tries[tried'[Len(tried')].func].writes)
                             ELSE base
    BY <1>0 DEF StorageIsOfTheMatch, Undoes, Overlaid
  <2>1. CASE Match(f)
    <3>1. stg' = Stored(f) /\ ret' = 1 /\ cand' = cand
          /\ (~Request.lazy \/ search \in {"yfunc", "given"})
      BY <2>1 DEF Match
    <3>2. cand = {}
      BY <3>1 DEF Kinds
    <3> QED BY <3>1, <3>2, <1>4, <1>5
  <2>2. CASE Fail(f)
    BY <2>2, <1>2, <1>5 DEF Fail
  <2> QED BY <2>1, <2>2
<1> QED BY <1>4, <1>6, <1>7, <1>8, <1>9, <1>10, <1>11, <1>12, <1>13

(* Only functions of the module are tried.                                 *)
LEMMA TriesAreOfFunctions ==
  ASSUME NEW t \in Seq([func : Addresses, search : Searches]), NEW k \in DOMAIN t
  PROVE  t[k].func \in Addresses
<1>1. k \in 1..Len(t)
  OBVIOUS
<1>2. t[k] \in [func : Addresses, search : Searches]
  BY <1>1, ElementOfSeq
<1> QED BY <1>2

(* Every step keeps the invariant.                                         *)
LEMMA NextInv == Inv /\ [Next]_vars => Inv'
<1> SUFFICES ASSUME Inv, [Next]_vars PROVE Inv'
  OBVIOUS
<1> USE DEF Inv, work
<1>0. DOMAIN After = {"const", "rconst", "yara", "limp", "poi", "imp", "yfunc"}
      /\ \A s \in DOMAIN After : After[s] # "none" =>
           After[s] \in DOMAIN After \ {"const", "yfunc"}
  BY DEF After
<1>1. asked # <<>> => WellFormed(Rule) /\ Request.lazy \in BOOLEAN
  BY KnownRequest DEF Working
<1>2. CASE Begin
  <2> USE <1>2 DEF Begin
  <2>1. asked' = asked /\ Rule' = Rule /\ Request' = Request /\ WellFormed(Rule)
    BY <1>1 DEF Rule, Request
  <2>2. /\ phase' \in {"search", "back"}
        /\ phase' = "back" => UNCHANGED <<search, groups, refs>>
        /\ phase' = "search" =>
             \/ /\ search' \in {"yfunc", "const"} /\ groups' = Things(Rule, search')
                /\ refs' = <<>>
             \/ /\ search' = "given" /\ groups' = <<>> /\ refs' = <<>>
                /\ Rule.select \notin {"yfunc", "fsection"}
    BY DEF StartSearch
  <2>3. groups' \in Seq(IF search' = "poi" THEN Indexes ELSE Addresses \cup {Null})
    <3>1. CASE phase' = "search" /\ search' \in {"yfunc", "const"}
      BY <3>1, <2>1, <2>2, <1>0, ThingsAreKnown
    <3>2. CASE phase' = "search" /\ search' = "given"
      BY <3>2, <2>2
    <3>3. CASE phase' = "back"
      BY <3>3, <2>2 DEF Working
    <3> QED BY <2>2, <3>1, <3>2, <3>3
  <2>4. TypeOK'
    <3>0. {"yfunc", "const", "given"} \subseteq Searches
      BY <1>0 DEF Searches
    <3>1. search \in Searches /\ refs \in Seq(Addresses)
      BY DEF TypeOK
    <3>2. search' \in Searches /\ refs' \in Seq(Addresses)
      <4>1. CASE phase' = "back"
        BY ONLY <2>2, <3>1, <4>1
      <4>2. CASE phase' = "search"
        <5>1. search' \in {"yfunc", "const", "given"} /\ refs' = <<>>
          BY ONLY <2>2, <4>2
        <5> QED BY ONLY <3>0, <5>1
      <4> QED BY ONLY <2>2, <4>1, <4>2
    <3>3. copy' \in Storage /\ stg' \in Storage /\ base' \in Storage
      BY DEF TypeOK
    <3> QED BY <2>2, <3>2, <3>3 DEF TypeOK
  <2>5. Working'
    <3>1. tried' \in Seq([func : Addresses, search : Searches])
      OBVIOUS
    <3> QED BY <2>1, <2>2, <2>3, <3>1 DEF Working
  <2>6. Kinds' /\ Remembered' /\ TriedOnce'
    BY DEF Kinds, Remembered, TriedOnce
  <2>7. Unchanged'
    BY <2>1 DEF Unchanged
  <2>8. StorageIsOfTheMatch'
    BY DEF StorageIsOfTheMatch
  <2> QED BY <2>4, <2>5, <2>6, <2>7, <2>8
<1>3. CASE AnswerFromResults
  <2> USE <1>3 DEF AnswerFromResults
  <2>1. TypeOK'
    BY DEF TypeOK, Storage
  <2>2. Working'
    BY DEF Working
  <2> QED BY <2>1, <2>2 DEF Kinds, Remembered, TriedOnce, Unchanged, StorageIsOfTheMatch
<1>4. CASE TryGiven
  <2> USE <1>4 DEF TryGiven
  <2>0. asked # <<>> /\ Rule' = Rule
    BY DEF Working, Rule, Request
  <2>1. PICK f \in Addresses : f = Given(Rule)
    <3>1. stg \in Storage /\ WellFormed(Rule) /\ Rule.select \notin {"yfunc", "fsection"}
      BY <2>0, <1>1 DEF TypeOK, Working
    <3>2. Rule.index \in Indexes /\ Rule.target \in Addresses \cup {Null}
          /\ Rule.select \in {"entry", "exported", "fpoi", "sfunc"}
      BY <3>1 DEF WellFormed
    <3>3. stg[Rule.index] \in Addresses \cup {Null}
      BY <3>1, <3>2 DEF Storage
    <3>4. \A a \in Addresses : Pointer[a] \in Addresses \cup {Null}
      BY RuleApplyAssumption DEF RuleApplyAssumption
    <3>5. Given(Rule) # Null
      OBVIOUS
    <3>6. Given(Rule) \in Addresses
      BY <3>2, <3>3, <3>4, <3>5 DEF Given
    <3> QED BY <3>6
  <2>2. Match(f) => phase' = "back"
    BY DEF Match
  <2>3. tried = <<>>
    BY DEF Remembered
  <2>4. /\ phase' = "back" /\ ret' \in {0, 1} /\ stg' \in Storage /\ cached' \subseteq Addresses
        /\ cand' \subseteq cached' \cup {tried'[k].func : k \in DOMAIN tried'}
        /\ tried' \in Seq([func : Addresses, search : Searches])
        /\ Kinds' /\ Remembered' /\ TriedOnce' /\ Unchanged' /\ StorageIsOfTheMatch'
    <3>1. Match(f) \/ (Fail(f) /\ phase' = "back")
      BY <2>1
    <3>2. Tries(f)
      BY <2>2, <2>3, <3>1 DEF Tries
    <3> QED BY ONLY Inv, <2>1, <2>2, <3>1, <3>2, TryInv
  <2>5. TypeOK'
    BY <2>4 DEF TypeOK
  <2>6. Working'
    BY <2>0, <2>4 DEF Working
  <2> QED BY <2>4, <2>5, <2>6
<1>5. CASE NothingGiven
  <2> USE <1>5 DEF NothingGiven
  <2>0. Rule' = Rule /\ Request' = Request
    BY DEF Rule, Request
  <2>1. TypeOK' /\ Working'
    BY <2>0 DEF TypeOK, Working, Storage
  <2>2. Kinds' /\ Remembered' /\ TriedOnce' /\ Unchanged'
    BY <2>0 DEF Kinds, Remembered, TriedOnce, Unchanged
  <2>3. StorageIsOfTheMatch'
    BY <2>0 DEF StorageIsOfTheMatch, Unchanged, Kinds, Undoes, Overlaid
  <2> QED BY <2>1, <2>2, <2>3
<1>6. CASE TryRef
  <2> USE <1>6 DEF TryRef
  <2>f. PICK f : f = FindPdata(Head(refs))
    OBVIOUS
  <2>0. asked # <<>> /\ Rule' = Rule /\ Request' = Request /\ asked' = asked
    BY DEF Working, Rule, Request
  <2>1. refs \in Seq(Addresses) /\ Head(refs) \in Addresses /\ refs' \in Seq(Addresses)
    BY DEF TypeOK
  <2>2. f \in Addresses \cup {Null} /\ search # "given"
    BY <2>f, <2>1, FoundFunction DEF Working
  <2>3. CASE Skipped(f)
    <3>1. UNCHANGED <<phase, cached, cand, stg, ret, tried>>
      BY <2>f, <2>3
    <3>2. TypeOK' /\ Working'
      BY <2>0, <2>1, <2>2, <3>1 DEF TypeOK, Working
    <3>3. Kinds' /\ Remembered' /\ TriedOnce' /\ Unchanged'
      BY <2>0, <3>1 DEF Kinds, Remembered, TriedOnce, Unchanged
    <3> QED BY <3>1, <3>2, <3>3 DEF StorageIsOfTheMatch
  <2>4. CASE ~Skipped(f)
    <3>1. /\ f \in Addresses
          /\ search # "const" => f \notin cached /\ cached' = cached \cup {f}
          /\ search = "const" => cached' = cached
      BY <2>f, <2>2, <2>4 DEF Skipped
    <3>2. Match(f) \/ (Fail(f) /\ phase' = phase)
      BY <2>f, <2>4
    <3>3. search # "const" =>
            \A k \in DOMAIN tried : tried[k].search # "const" => tried[k].func # f
      BY <3>1 DEF Remembered
    <3>4. /\ phase' \in {"search", "back"} /\ ret' \in {0, 1} /\ stg' \in Storage
          /\ cached' \subseteq Addresses
          /\ cand' \subseteq cached' \cup {tried'[k].func : k \in DOMAIN tried'}
          /\ tried' \in Seq([func : Addresses, search : Searches])
          /\ Kinds' /\ Remembered' /\ TriedOnce' /\ Unchanged' /\ StorageIsOfTheMatch'
      <4>1. Tries(f)
        BY <2>2, <3>1, <3>2, <3>3 DEF Tries
      <4> QED BY ONLY Inv, <3>1, <4>1, TryInv
    <3>5. TypeOK' /\ Working'
      BY <2>0, <2>1, <2>2, <3>4 DEF TypeOK, Working
    <3> QED BY <3>4, <3>5
  <2> QED BY <2>3, <2>4
<1>7. CASE NextThing
  <2> USE <1>7 DEF NextThing
  <2>0. asked # <<>> /\ Rule' = Rule /\ Request' = Request /\ asked' = asked
    BY DEF Working, Rule, Request
  <2>1. search \in DOMAIN After /\ stg \in Storage
    BY <1>0 DEF Working, TypeOK, Searches
  <2>2. Head(groups) \in (IF search = "poi" THEN Indexes ELSE Addresses \cup {Null})
        /\ groups' \in Seq(IF search = "poi" THEN Indexes ELSE Addresses \cup {Null})
    BY DEF Working
  <2>3. refs' \in Seq(Addresses)
    BY <2>1, <2>2, RefsAreAddresses
  <2>4. TypeOK' /\ Working'
    BY <1>0, <2>0, <2>1, <2>2, <2>3 DEF TypeOK, Working
  <2>5. Kinds' /\ Remembered' /\ TriedOnce' /\ Unchanged'
    BY <2>0 DEF Kinds, Remembered, TriedOnce, Unchanged
  <2> QED BY <2>4, <2>5 DEF StorageIsOfTheMatch
<1>8. CASE NextSearch
  <2> USE <1>8 DEF NextSearch
  <2>0. asked # <<>> /\ Rule' = Rule /\ Request' = Request /\ asked' = asked
        /\ WellFormed(Rule)
    BY <1>1 DEF Working, Rule, Request
  <2>1. search \in DOMAIN After /\ ret = 0
    BY <1>0 DEF Working, TypeOK, Searches, Kinds
  <2>2. CASE phase' = "back" /\ UNCHANGED <<search, groups, refs>>
                             /\ ret' = IF cand # {} /\ After[search] = "none" THEN 1 ELSE 0
    <3>1. TypeOK' /\ Working'
      BY <2>0, <2>2 DEF TypeOK, Working
    <3>2. Kinds' /\ Remembered' /\ TriedOnce' /\ Unchanged'
      BY <2>0, <2>2 DEF Kinds, Remembered, TriedOnce, Unchanged
    <3>3. StorageIsOfTheMatch'
      BY <2>0, <2>2 DEF StorageIsOfTheMatch, Unchanged, Undoes, Overlaid
    <3> QED BY <3>1, <3>2, <3>3
  <2>3. CASE StartSearch(After[search], Rule) /\ UNCHANGED <<phase, ret>>
             /\ After[search] # "none"
    <3>1. search' \in DOMAIN After \ {"const", "yfunc"} /\ refs' = <<>>
          /\ groups' = Things(Rule, search')
      BY <1>0, <2>1, <2>3 DEF StartSearch
    <3>2. groups' \in Seq(IF search' = "poi" THEN Indexes ELSE Addresses \cup {Null})
      BY <2>0, <3>1, ThingsAreKnown
    <3>3. TypeOK' /\ Working'
      BY <1>0, <2>0, <2>3, <3>1, <3>2 DEF TypeOK, Working, Searches
    <3>4. Kinds' /\ Remembered' /\ TriedOnce' /\ Unchanged'
      BY <1>0, <2>0, <2>3, <3>1 DEF Kinds, Remembered, TriedOnce, Unchanged
    <3> QED BY <2>3, <3>3, <3>4 DEF StorageIsOfTheMatch
  <2> QED BY <2>2, <2>3
<1>9. CASE Return
  <2> USE <1>9 DEF Return
  <2>1. asked # <<>> /\ asked' \in Seq(Requests)
    BY DEF Working
  <2>2. cand \subseteq Addresses
    <3>1. \A k \in DOMAIN tried : tried[k].func \in Addresses
      BY TriesAreOfFunctions DEF Working
    <3> QED BY <3>1 DEF TypeOK
  <2>3. \A n \in DOMAIN results' : results'[n] \subseteq Addresses
    <3>1. \A n \in DOMAIN Kept : Kept[n] \subseteq Addresses
      BY <2>2 DEF Kept, TypeOK
    <3> QED BY <3>1 DEF TypeOK
  <2>4. TypeOK' /\ Working'
    BY <2>1, <2>3 DEF TypeOK, Working, Searches
  <2> QED BY <2>4 DEF Kinds, Remembered, TriedOnce, Unchanged, StorageIsOfTheMatch
<1>10. CASE UNCHANGED vars
  <2> USE <1>10 DEF vars
  <2>0. Rule' = Rule /\ Request' = Request
    BY DEF Rule, Request
  <2>1. TypeOK' /\ Working'
    BY <2>0 DEF TypeOK, Working
  <2>2. Kinds' /\ Remembered' /\ TriedOnce' /\ Unchanged'
    BY <2>0 DEF Kinds, Remembered, TriedOnce, Unchanged
  <2> QED BY <2>0, <2>1, <2>2 DEF StorageIsOfTheMatch, Undoes, Overlaid
<1> QED
  BY <1>2, <1>3, <1>4, <1>5, <1>6, <1>7, <1>8, <1>9, <1>10 DEF Next, Step, Done

-----------------------------------------------------------------------------
(* The searches of apply keep their variables within their types, the      *)
(* candidates among the functions that were tried.                         *)
THEOREM TypeCorrect == Spec => []TypeOK
<1>1. Inv => TypeOK
  BY DEF Inv
<1> QED BY InitInv, NextInv, <1>1, PTL DEF Spec

(* deriv_hack::apply tries the rule on no function twice, but for pool     *)
(* constants.                                                              *)
THEOREM OnceOnly == Spec => []TriedOnce
<1>1. Inv => TriedOnce
  BY DEF Inv
<1> QED BY InitInv, NextInv, <1>1, PTL DEF Spec

(* deriv_hack::apply leaves in m_stg what the match has stored, and        *)
(* nothing of the functions tried in vain.                                 *)
THEOREM StorageRestored == Spec => []StorageIsOfTheMatch
<1>1. Inv => StorageIsOfTheMatch
  BY DEF Inv
<1> QED BY InitInv, NextInv, <1>1, PTL DEF Spec

-----------------------------------------------------------------------------
(* What the searches in a section come to.  Later: the searches that are   *)
(* still to come after one.                                                *)
Later ==
  [const |-> {"rconst", "yara", "limp", "poi", "imp"},
   rconst |-> {"yara", "limp", "poi", "imp"}, yara |-> {"limp", "poi", "imp"},
   limp |-> {"poi", "imp"}, poi |-> {"imp"}, imp |-> {}]

Elems(q) == {q[k] : k \in 1..Len(q)}

(* A rule that the module has all sections for, and whose tries are        *)
(* undone, is searched for.                                                *)
InSection == Rule.select = "fsection" /\ Rule.lost = "none" /\ Undoes(Rule)

(* A function needs no more search if it does not match or is a candidate. *)
Settled(f) == Rule.tries[f].ok => Request.lazy /\ f \in cand

Handled(r) == FindPdata(r) = Null \/ Settled(FindPdata(r))

(* The reference r to x is still to come.                                  *)
ToCome(s, x, r) ==
  phase = "search" /\ \/ s \in Later[search]
                      \/ s = search /\ (x \in Elems(groups) \/ r \in Elems(refs))

(* Every reference was handled or is still to come, but for what a search  *)
(* for one function leaves when it has found it.                           *)
NothingDropped ==
  phase # "idle" /\ InSection /\ (phase = "search" \/ ret = 0 \/ Request.lazy) =>
    \A s \in DOMAIN Later : \A x \in Elems(Things(Rule, s)) :
      \A r \in Elems(RefsTo(s, x, base)) : Handled(r) \/ ToCome(s, x, r)

(* The functions that another search will skip are settled.                *)
SkippedAreSettled ==
  phase = "search" /\ InSection => \A f \in cached : Settled(f)

(* Candidates match, and are what is answered.                             *)
Candidates ==
  /\ phase = "search" /\ Rule.select = "fsection" => search \in DOMAIN Later
  /\ phase # "idle" => \A f \in cand : Rule.tries[f].ok
  /\ phase = "back" /\ Rule.select = "fsection" /\ ret = 0 /\ Rule.lost # "rdata" => cand = {}

Complete == NothingDropped /\ SkippedAreSettled /\ Candidates

(* find_pdata finds the function that an address lies in, if the address   *)
(* is behind its first instruction and the function is not the last.       *)
LEMMA FoundBetween ==
  ASSUME NEW k \in 1..(Len(Pdata) - 1), NEW r \in Addresses,
         Pdata[k] < r, r < Pdata[k + 1]
  PROVE  FindPdata(r) = Pdata[k]
<1>1. /\ Len(Pdata) \in Nat /\ k \in 1..Len(Pdata) /\ k + 1 \in 1..Len(Pdata) /\ r \in Nat
      /\ \A j \in 1..Len(Pdata) : Pdata[j] \in Nat
      /\ \A i, j \in 1..Len(Pdata) : i < j => Pdata[i] < Pdata[j]
  <2> USE RuleApplyAssumption DEF RuleApplyAssumption
  <2>0. Len(Pdata) \in Nat /\ \A j \in 1..Len(Pdata) : Pdata[j] \in Addresses
    OBVIOUS
  <2>1. Len(Pdata) \in Nat /\ r \in Nat /\ \A j \in 1..Len(Pdata) : Pdata[j] \in Nat
    BY <2>0
  <2>2. k \in 1..Len(Pdata) /\ k + 1 \in 1..Len(Pdata)
    BY <2>1
  <2>3. \A i, j \in 1..Len(Pdata) : i < j => Pdata[i] < Pdata[j]
    OBVIOUS
  <2> QED BY <2>1, <2>2, <2>3
<1>2. ASSUME NEW j \in 1..Len(Pdata) PROVE Pdata[j] < r <=> j <= k
  <2>1. CASE j < k
    BY <1>1, <2>1
  <2>2. CASE j = k
    BY <2>2
  <2>3. CASE j = k + 1
    BY <1>1, <2>3
  <2>4. CASE j > k + 1
    BY <1>1, <2>4
  <2> QED BY <1>1, <2>1, <2>2, <2>3, <2>4
<1>3. {j \in 1..Len(Pdata) : Pdata[j] < r} = 1..k
  BY <1>1, <1>2
<1>4. Cardinality(1..k) = k
  BY FS_Interval
<1>5. Below(r) = k
  BY <1>3, <1>4 DEF Below
<1> QED BY <1>1, <1>5 DEF FindPdata

(* What leaves the list is its head.                                       *)
LEMMA ElemsOfTail ==
  ASSUME NEW S, NEW q \in Seq(S), q # <<>>, NEW x \in Elems(q), x # Head(q)
  PROVE  x \in Elems(Tail(q))
<1>1. PICK k \in 1..Len(q) : q[k] = x
  BY DEF Elems
<1>2. k # 1 /\ Len(q) \in Nat
  BY <1>1
<1>3. k - 1 \in 1..Len(Tail(q)) /\ Tail(q)[k - 1] = x
  BY <1>1, <1>2
<1> QED BY <1>3 DEF Elems

(* A try of f settles it, or ends the search for one function.             *)
LEMMA TrySettles ==
  ASSUME Inv, Complete, NEW f \in Addresses, phase = "search",
         Match(f) \/ (Fail(f) /\ UNCHANGED phase), UNCHANGED <<asked, search>>
  PROVE  /\ phase' \in {"search", "back"}
         /\ \A g \in cand' : Rule'.tries[g].ok
         /\ \A g : Settled(g) => Settled(g)'
         /\ Rule.select = "fsection" =>
              /\ phase' = "search" => Settled(f)'
              /\ phase' = "back" => ret' = 1 /\ ~Request'.lazy
<1>1. Rule' = Rule /\ Request' = Request
  BY DEF Rule, Request
<1>2. cand \subseteq cand' /\ phase' \in {"search", "back"}
  BY DEF Match, Fail
<1>3. \A g \in cand' : Rule'.tries[g].ok
  BY <1>1 DEF Match, Fail, Complete, Candidates
<1>4. \A g : Settled(g) => Settled(g)'
  BY <1>1, <1>2 DEF Settled
<1>5. Rule.select = "fsection" => search \notin {"yfunc", "given"}
  BY DEF Complete, Candidates, Later
<1>6. Rule.select = "fsection" /\ phase' = "search" => Settled(f)'
  BY <1>1, <1>5 DEF Match, Fail, Settled
<1>7. Rule.select = "fsection" /\ phase' = "back" => ret' = 1 /\ ~Request'.lazy
  BY <1>1, <1>5 DEF Match, Fail
<1> QED BY <1>2, <1>3, <1>4, <1>6, <1>7

LEMMA CompleteInit == Init => Complete
  BY DEF Init, Complete, NothingDropped, SkippedAreSettled, Candidates

LEMMA CompleteNext == Inv /\ Complete /\ [Next]_vars => Complete'
<1> SUFFICES ASSUME Inv, Complete, [Next]_vars PROVE Complete'
  OBVIOUS
<1> USE DEF Inv, work
<1>0. /\ DOMAIN Later = {"const", "rconst", "yara", "limp", "poi", "imp"}
      /\ DOMAIN After = DOMAIN Later \cup {"yfunc"}
      /\ After["imp"] = "none" /\ Later["imp"] = {}
      /\ \A s \in DOMAIN Later \ {"imp"} :
           After[s] \in DOMAIN Later /\ Later[s] = {After[s]} \cup Later[After[s]]
      /\ \A s \in DOMAIN Later : s = "const" \/ s \in Later["const"]
  BY DEF After, Later
<1>1. CASE Begin
  <2> USE <1>1 DEF Begin
  <2>1. Rule' = Rule /\ Request' = Request
    BY DEF Rule, Request
  <2>2. phase' \in {"search", "back"} /\ cand' = {} /\ cached' = {}
    OBVIOUS
  <2>3. Rule.select = "fsection" /\ phase' = "search" =>
          search' = "const" /\ groups' = Things(Rule, "const")
    BY DEF StartSearch
  <2>4. InSection' => phase' = "search" /\ Rule.select = "fsection"
    BY <2>1 DEF InSection
  <2>5. NothingDropped'
    <3> SUFFICES ASSUME InSection', NEW s \in DOMAIN Later, NEW x \in Elems(Things(Rule, s)),
                        NEW r
                 PROVE  ToCome(s, x, r)'
      BY <2>1 DEF NothingDropped
    <3> QED BY <1>0, <2>3, <2>4 DEF ToCome
  <2>6. SkippedAreSettled' /\ Candidates'
    BY <1>0, <2>1, <2>2, <2>3 DEF SkippedAreSettled, Candidates
  <2> QED BY <2>5, <2>6 DEF Complete
<1>2. CASE AnswerFromResults
  BY <1>2 DEF AnswerFromResults, Complete, NothingDropped, SkippedAreSettled, Candidates
<1>3. CASE TryGiven
  <2> USE <1>3 DEF TryGiven
  <2>1. Rule' = Rule /\ Request' = Request /\ Rule.select # "fsection"
    BY DEF Working, Rule, Request
  <2>2. phase' # "search"
    BY DEF Match
  <2>3. cand' = cand
    BY DEF Match, Fail
  <2>4. NothingDropped' /\ SkippedAreSettled' /\ Candidates'
    BY <2>1, <2>2, <2>3 DEF InSection, NothingDropped, SkippedAreSettled, Candidates, Complete
  <2> QED BY <2>4 DEF Complete
<1>4. CASE NothingGiven
  <2> USE <1>4 DEF NothingGiven
  <2>1. Rule' = Rule /\ Request' = Request /\ Rule.select # "fsection"
    BY DEF Working, Rule, Request
  <2>2. NothingDropped' /\ SkippedAreSettled' /\ Candidates'
    BY <2>1 DEF InSection, NothingDropped, SkippedAreSettled, Candidates, Complete
  <2> QED BY <2>2 DEF Complete
<1>5. CASE TryRef
  <2> USE <1>5 DEF TryRef
  <2>f. PICK f : f = FindPdata(Head(refs))
    OBVIOUS
  <2>1. asked' = asked /\ Rule' = Rule /\ Request' = Request /\ search # "given"
    BY DEF Working, Rule, Request
  <2>2. refs \in Seq(Addresses) /\ f \in Addresses \cup {Null}
    BY <2>f, FoundFunction DEF TypeOK
  <2>3. \/ Skipped(f) /\ UNCHANGED <<phase, cached, cand, ret>>
        \/ /\ f \in Addresses
           /\ Match(f) \/ (Fail(f) /\ UNCHANGED phase)
           /\ cached' \subseteq cached \cup {f}
    BY <2>f, <2>2 DEF Skipped
  <2>4. /\ phase' \in {"search", "back"}
        /\ \A g \in cand' : Rule'.tries[g].ok
        /\ \A g : Settled(g) => Settled(g)'
        /\ InSection /\ phase' = "back" => ret' = 1 /\ ~Request'.lazy
        /\ Rule.select = "fsection" /\ phase' = "back" => ret' = 1
        /\ InSection /\ phase' = "search" =>
             (f = Null \/ Settled(f)') /\ cached' \subseteq cached \cup {f}
        /\ f = Null => cached' = cached
    <3>0. Null \notin Addresses
      BY RuleApplyAssumption DEF RuleApplyAssumption, Null
    <3>1. CASE Skipped(f) /\ UNCHANGED <<phase, cached, cand, ret>>
      <4>1. \A g : Settled(g)' <=> Settled(g)
        BY <2>1, <3>1 DEF Settled
      <4>2. \A g \in cand' : Rule'.tries[g].ok
        BY <2>1, <3>1 DEF Complete, Candidates
      <4>3. InSection => f = Null \/ Settled(f)
        BY <3>1 DEF Skipped, Complete, SkippedAreSettled
      <4> QED BY <3>1, <4>1, <4>2, <4>3
    <3>2. CASE ~(Skipped(f) /\ UNCHANGED <<phase, cached, cand, ret>>)
      BY <2>3, <3>0, <3>2, TrySettles DEF InSection
    <3> QED BY <3>1, <3>2
  <2>5. InSection' = InSection
    BY <2>1 DEF InSection, Undoes
  <2>6. NothingDropped'
    <3> SUFFICES ASSUME InSection, phase' = "search",
                        NEW s \in DOMAIN Later, NEW x \in Elems(Things(Rule, s)),
                        NEW r \in Elems(RefsTo(s, x, base))
                 PROVE  Handled(r)' \/ ToCome(s, x, r)'
      BY <2>1, <2>4, <2>5 DEF NothingDropped
    <3>1. CASE Handled(r)
      BY <2>4, <3>1 DEF Handled
    <3>2. CASE r = Head(refs)
      BY <2>f, <2>4, <3>2 DEF Handled
    <3>3. CASE ToCome(s, x, r) /\ r # Head(refs)
      <4>1. r \in Elems(refs) => r \in Elems(refs')
        BY <2>2, <3>3, ElemsOfTail
      <4> QED BY <3>3, <4>1 DEF ToCome
    <3> QED BY <3>1, <3>2, <3>3 DEF Complete, NothingDropped
  <2>7. SkippedAreSettled'
    <3> SUFFICES ASSUME InSection, phase' = "search", NEW g \in cached' PROVE Settled(g)'
      BY <2>5 DEF SkippedAreSettled
    <3>1. g \in cached \/ (g = f /\ f # Null)
      BY <2>4
    <3> QED BY <2>4, <3>1 DEF Complete, SkippedAreSettled
  <2>8. Candidates'
    BY <2>1, <2>4 DEF Complete, Candidates
  <2> QED BY <2>6, <2>7, <2>8 DEF Complete
<1>6. CASE NextThing
  <2> USE <1>6 DEF NextThing
  <2>1. asked' = asked /\ Rule' = Rule /\ Request' = Request /\ stg \in Storage
    BY DEF Rule, Request, TypeOK
  <2>2. InSection' = InSection
    BY <2>1 DEF InSection, Undoes
  <2>3. InSection => refs' = RefsTo(search, Head(groups), base)
    BY DEF Unchanged, InSection
  <2>4. NothingDropped'
    <3> SUFFICES ASSUME InSection,
                        NEW s \in DOMAIN Later, NEW x \in Elems(Things(Rule, s)),
                        NEW r \in Elems(RefsTo(s, x, base))
                 PROVE  Handled(r)' \/ ToCome(s, x, r)'
      BY <2>1, <2>2 DEF NothingDropped
    <3>1. CASE Handled(r)
      BY <2>1, <3>1 DEF Handled, Settled
    <3>2. CASE s \in Later[search]
      BY <3>2 DEF ToCome
    <3>3. CASE s = search /\ x = Head(groups)
      BY <2>3, <3>3 DEF ToCome
    <3>4. CASE s = search /\ x \in Elems(groups) /\ x # Head(groups)
      <4>1. groups \in Seq(IF search = "poi" THEN Indexes ELSE Addresses \cup {Null})
        BY DEF Working
      <4> DEFINE S == IF search = "poi" THEN Indexes ELSE Addresses \cup {Null}
      <4>2. groups \in Seq(S) /\ groups # <<>>
        BY <4>1
      <4> HIDE DEF S
      <4>3. x \in Elems(groups')
        BY <3>4, <4>2, ElemsOfTail
      <4> QED BY <3>4, <4>3 DEF ToCome
    <3>5. r \notin Elems(refs)
      BY DEF Elems
    <3> QED BY <3>1, <3>2, <3>3, <3>4, <3>5 DEF Complete, NothingDropped, ToCome
  <2>5. SkippedAreSettled' /\ Candidates'
    BY <2>1, <2>2 DEF Complete, SkippedAreSettled, Candidates, Settled
  <2> QED BY <2>4, <2>5 DEF Complete
<1>7. CASE NextSearch
  <2> USE <1>7 DEF NextSearch
  <2>1. asked' = asked /\ Rule' = Rule /\ Request' = Request /\ ret = 0
    BY DEF Rule, Request, Kinds
  <2>2. InSection' = InSection
    BY <2>1 DEF InSection, Undoes
  <2>3. Rule.select = "fsection" => search \in DOMAIN Later
    BY DEF Complete, Candidates
  <2>4. Rule.select = "fsection" =>
          \/ /\ search = "imp" /\ phase' = "back"
             /\ ret' = IF cand # {} THEN 1 ELSE 0
          \/ /\ search # "imp" /\ phase' = "search"
             /\ search' = After[search] /\ groups' = Things(Rule, search')
          \/ Rule.lost = "rdata" /\ phase' = "back"
    BY <1>0, <2>1, <2>3 DEF StartSearch
  <2>5. NothingDropped'
    <3> SUFFICES ASSUME InSection,
                        NEW s \in DOMAIN Later, NEW x \in Elems(Things(Rule, s)),
                        NEW r \in Elems(RefsTo(s, x, base)), ~Handled(r)
                 PROVE  ToCome(s, x, r)'
      BY <2>1, <2>2 DEF NothingDropped, Handled, Settled
    <3>1. r \notin Elems(refs) /\ x \notin Elems(groups)
      BY DEF Elems
    <3>2. s \in Later[search]
      BY <3>1 DEF Complete, NothingDropped, ToCome
    <3>3. search # "imp" /\ (s = After[search] \/ s \in Later[After[search]])
      BY <1>0, <2>3, <3>2 DEF InSection
    <3> QED BY <2>4, <3>3 DEF ToCome, InSection
  <2>6. SkippedAreSettled'
    BY <2>1, <2>2 DEF Complete, SkippedAreSettled, Settled
  <2>7. Candidates'
    BY <1>0, <2>1, <2>3, <2>4 DEF Complete, Candidates
  <2> QED BY <2>5, <2>6, <2>7 DEF Complete
<1>8. CASE Return
  BY <1>8 DEF Return, Complete, NothingDropped, SkippedAreSettled, Candidates
<1>9. CASE UNCHANGED vars
  <2> USE <1>9 DEF vars
  <2>1. Rule' = Rule /\ Request' = Request
    BY DEF Rule, Request
  <2>2. NothingDropped'
    BY <2>1 DEF Complete, NothingDropped, InSection, Undoes, Handled, Settled, ToCome
  <2>3. SkippedAreSettled' /\ Candidates'
    BY <2>1 DEF Complete, SkippedAreSettled, Candidates, InSection, Undoes, Settled
  <2> QED BY <2>2, <2>3 DEF Complete
<1> QED
  BY <1>1, <1>2, <1>3, <1>4, <1>5, <1>6, <1>7, <1>8, <1>9 DEF Next, Step, Done

LEMMA CompleteInvariant == Spec => [](Inv /\ Complete)
<1>1. Init => Inv /\ Complete
  BY InitInv, CompleteInit
<1>2. Inv /\ Complete /\ [Next]_vars => (Inv /\ Complete)'
  BY NextInv, CompleteNext
<1> QED BY <1>1, <1>2, PTL DEF Spec

(* A function that refers to one of the things is the one that find_pdata  *)
(* finds for the reference.                                                *)
LEMMA RefersIsHandled ==
  ASSUME Inv, Complete, phase = "back", InSection, ret = 0 \/ Request.lazy,
         NEW f, Refers(f, Rule)
  PROVE  Settled(f)
<1>1. PICK k \in 1..(Len(Pdata) - 1) :
        f = Pdata[k] /\ \E r \in Leads(Rule) : Pdata[k] < r /\ r < Pdata[k + 1]
  BY DEF Refers
<1>2. PICK r \in Leads(Rule) : Pdata[k] < r /\ r < Pdata[k + 1]
  BY <1>1
<1>3. DOMAIN Later = {"const", "rconst", "yara", "limp", "poi", "imp"}
      /\ DOMAIN After = DOMAIN Later \cup {"yfunc"}
  BY DEF After, Later
<1>4. PICK s \in DOMAIN Later :
        \E i \in DOMAIN Things(Rule, s) : \E l \in DOMAIN RefsTo(s, Things(Rule, s)[i], base) :
          r = RefsTo(s, Things(Rule, s)[i], base)[l]
  BY <1>2, <1>3 DEF Leads
<1>i. PICK i \in DOMAIN Things(Rule, s) :
        \E l \in DOMAIN RefsTo(s, Things(Rule, s)[i], base) :
          r = RefsTo(s, Things(Rule, s)[i], base)[l]
  BY <1>4
<1>5. WellFormed(Rule) /\ base \in Storage
  BY KnownRequest DEF Inv, Working, TypeOK
<1> DEFINE x == Things(Rule, s)[i]
           S == IF s = "poi" THEN Indexes ELSE Addresses \cup {Null}
<1>6. Things(Rule, s) \in Seq(S)
  BY <1>3, <1>5, ThingsAreKnown
<1>7. x \in S /\ x \in Elems(Things(Rule, s))
  <2> HIDE DEF S
  <2>1. i \in 1..Len(Things(Rule, s))
    BY <1>6
  <2> QED BY <1>6, <2>1 DEF Elems
<1>8. RefsTo(s, x, base) \in Seq(Addresses)
  <2> HIDE DEF x
  <2> QED BY <1>3, <1>5, <1>7, RefsAreAddresses
<1>9. r \in Elems(RefsTo(s, x, base)) /\ r \in Addresses
  <2> HIDE DEF x
  <2>1. PICK l \in 1..Len(RefsTo(s, x, base)) : r = RefsTo(s, x, base)[l]
    BY <1>i, <1>8 DEF x
  <2> QED BY <1>8, <2>1 DEF Elems
<1>10. Handled(r)
  <2> HIDE DEF x
  <2> QED BY <1>7, <1>9 DEF Complete, NothingDropped, ToCome
<1>11. FindPdata(r) = f
  BY <1>1, <1>2, <1>9, FoundBetween
<1>12. f # Null
  <2>1. k \in 1..Len(Pdata)
    BY RuleApplyAssumption DEF RuleApplyAssumption
  <2> QED BY <1>1, <2>1, RuleApplyAssumption DEF RuleApplyAssumption, Null
<1> QED BY <1>10, <1>11, <1>12 DEF Handled

(* deriv_hack::apply misses no function that refers to what the rule is    *)
(* about and matches it, in whatever order its searches meet the           *)
(* functions, and takes none for a candidate that does not match.          *)
THEOREM NothingMissed == Spec => []NoCandidateMissed
<1>1. Inv /\ Complete => NoCandidateMissed
  <2> SUFFICES ASSUME Inv, Complete, phase = "back", InSection
               PROVE  /\ ret = 0 => \A f \in DOMAIN Rule.tries :
                                      Refers(f, Rule) => ~Rule.tries[f].ok
                      /\ Request.lazy =>
                           /\ \A f \in DOMAIN Rule.tries :
                                Refers(f, Rule) /\ Rule.tries[f].ok => f \in cand
                           /\ \A f \in cand : Rule.tries[f].ok
    BY DEF NoCandidateMissed, InSection
  <2>1. ret = 0 => cand = {}
    BY DEF Complete, Candidates, InSection
  <2>2. \A f : (ret = 0 \/ Request.lazy) /\ Refers(f, Rule) => Settled(f)
    BY RefersIsHandled
  <2>3. \A f \in cand : Rule.tries[f].ok
    BY DEF Complete, Candidates
  <2> QED BY <2>1, <2>2, <2>3 DEF Settled
<1> QED BY <1>1, CompleteInvariant, PTL

-----------------------------------------------------------------------------
(* What the evaluation of a rule has to do with what it keeps: a function  *)
(* that is given is not kept, one that is searched for is the answer, and  *)
(* whatever is kept matches.                                               *)
Fruit(rule, kept, res) ==
  /\ rule.select # "fsection" => kept = {}
  /\ rule.select = "fsection" /\ rule.lost # "rdata" => res = (kept # {})
  /\ \A f \in kept : f \in Addresses /\ rule.tries[f].ok

Answered ==
  [n : {r.n : r \in Requests}, lazy : BOOLEAN, rule : {r.rule : r \in Requests}, res : BOOLEAN]

(* A number is kept when it has been evaluated, and not before; every      *)
(* other answer for it is whether anything was kept.                       *)
Kindred(k) ==
  answers[k].lazy =>
    /\ answers[k].n \in DOMAIN results
    /\ Evaluates(k) => Fruit(answers[k].rule, results[answers[k].n], answers[k].res)
    /\ ~Evaluates(k) => answers[k].res = (results[answers[k].n] # {})

AsKept ==
  /\ answers \in Seq(Answered)
  /\ \A k \in 1..Len(answers) : Kindred(k)
  /\ \A n \in DOMAIN results : \E k \in 1..Len(answers) : answers[k].lazy /\ answers[k].n = n

(* The evaluation that is under way.                                       *)
Evaluating ==
  /\ phase # "idle" /\ Request.lazy => Request.n \notin DOMAIN results
  /\ phase = "search" /\ Rule.select # "fsection" => search \in {"yfunc", "given"}
  /\ phase # "idle" /\ Rule.select # "fsection" => cand = {}
  /\ phase = "back" /\ Request.lazy /\ Rule.select = "fsection" /\ Rule.lost # "rdata" =>
       (ret = 1 <=> cand # {})

Agreed == AsKept /\ Evaluating

LEMMA AgreedInit == Init => Agreed
<1> SUFFICES ASSUME Init PROVE Agreed
  OBVIOUS
<1>1. answers = <<>> /\ phase = "idle" /\ results = <<>>
  BY DEF Init
<1>2. answers \in Seq(Answered) /\ Len(answers) = 0 /\ DOMAIN results = {}
  BY <1>1
<1> QED BY <1>1, <1>2 DEF Agreed, AsKept, Evaluating

(* The request under way is answered; what was answered stays.             *)
LEMMA OneMoreAnswer ==
  ASSUME asked \in Seq(Requests), asked # <<>>, answers \in Seq(Answered),
         NEW res \in BOOLEAN, answers' = Append(answers, Answer(res)),
         NEW m \in Nat, m = Len(answers) + 1
  PROVE  /\ answers' \in Seq(Answered)
         /\ Len(answers') = m
         /\ \A k \in 1..Len(answers) : answers'[k] = answers[k]
         /\ \A k \in 1..Len(answers) : Evaluates(k)' <=> Evaluates(k)
         /\ answers'[m] = Answer(res)
         /\ Evaluates(m)' <=>
              /\ Request.lazy
              /\ \A j \in 1..Len(answers) : answers[j].lazy => answers[j].n # Request.n
<1> DEFINE a == Answer(res)
<1>1. Request \in Requests /\ Request.lazy \in BOOLEAN
  BY KnownRequest
<1>2. a \in Answered /\ a.lazy = Request.lazy /\ a.n = Request.n
  BY <1>1 DEF Answer, Answered, Rule
<1>3. /\ answers' \in Seq(Answered)
      /\ Len(answers') = m
      /\ \A k \in 1..Len(answers) : answers'[k] = answers[k]
      /\ answers'[m] = a
  <2>1. answers' = Append(answers, a)
    OBVIOUS
  <2> HIDE DEF a
  <2> QED BY <1>2, <2>1
<1> HIDE DEF a
<1>4. ASSUME NEW k \in 1..Len(answers) PROVE Evaluates(k)' <=> Evaluates(k)
  <2>1. \A j \in 1..(k - 1) : j \in 1..Len(answers)
    BY <1>3
  <2> QED BY <1>3, <2>1 DEF Evaluates
<1>5. Evaluates(m)' <=>
        /\ Request.lazy
        /\ \A j \in 1..Len(answers) : answers[j].lazy => answers[j].n # Request.n
  <2>1. m - 1 = Len(answers)
    BY <1>3
  <2>2. Evaluates(m)' <=>
          /\ answers'[m].lazy
          /\ \A j \in 1..Len(answers) :
               answers'[j].lazy => answers'[j].n # answers'[m].n
    BY <1>3, <2>1 DEF Evaluates
  <2> QED BY <1>2, <1>3, <2>2
<1> QED BY <1>3, <1>4, <1>5 DEF a

(* What check_rule_results is about to keep.                               *)
LEMMA CandidatesAreFruit ==
  ASSUME Inv, Complete, Evaluating, phase = "back", Request.lazy
  PROVE  Fruit(Rule, cand, ret = 1)
<1>1. \A f \in cand : Rule.tries[f].ok
  BY DEF Complete, Candidates
<1>2. \A f \in cand : f \in Addresses
  <2>1. tried \in Seq([func : Addresses, search : Searches])
    BY DEF Inv, Working
  <2> QED BY <2>1, TriesAreOfFunctions DEF Inv, TypeOK
<1> QED BY <1>1, <1>2 DEF Evaluating, Fruit

LEMMA AgreedNext == Inv /\ Complete /\ Agreed /\ [Next]_vars => Agreed'
<1> SUFFICES ASSUME Inv, Complete, Agreed, [Next]_vars PROVE Agreed'
  OBVIOUS
<1> USE DEF work
<1>0. asked \in Seq(Requests) /\ answers \in Seq(Answered)
  BY DEF Inv, Working, Agreed, AsKept
<1>1. CASE AnswerFromResults
  <2> USE <1>1 DEF AnswerFromResults
  <2> DEFINE res == results[Request.n] # {}
  <2>1. res \in BOOLEAN
    OBVIOUS
  <2>m. PICK m \in Nat : m = Len(answers) + 1
    BY <1>0
  <2>2. /\ answers' \in Seq(Answered)
        /\ Len(answers') = m
        /\ \A k \in 1..Len(answers) : answers'[k] = answers[k]
        /\ \A k \in 1..Len(answers) : Evaluates(k)' <=> Evaluates(k)
        /\ answers'[m] = Answer(res)
        /\ Evaluates(m)' <=>
             /\ Request.lazy
             /\ \A j \in 1..Len(answers) : answers[j].lazy => answers[j].n # Request.n
    BY <1>0, <2>1, <2>m, OneMoreAnswer
  <2>3. PICK k \in 1..Len(answers) : answers[k].lazy /\ answers[k].n = Request.n
    BY DEF Agreed, AsKept
  <2>4. ~Evaluates(m)' /\ results' = results
    BY <2>2, <2>3
  <2>5. answers'[m].n = Request.n /\ answers'[m].res = res
    BY <2>2 DEF Answer
  <2>6. Kindred(m)'
    BY <2>4, <2>5 DEF Kindred
  <2> HIDE DEF res
  <2>7. ASSUME NEW j \in 1..Len(answers) PROVE Kindred(j)'
    <3>1. Kindred(j)
      BY DEF Agreed, AsKept
    <3> QED BY <2>2, <2>4, <3>1 DEF Kindred
  <2>8. \A j \in 1..Len(answers') : j \in 1..Len(answers) \/ j = m
    BY <1>0, <2>2, <2>m
  <2>9. ASSUME NEW n \in DOMAIN results'
        PROVE  \E j \in 1..Len(answers') : answers'[j].lazy /\ answers'[j].n = n
    <3>1. PICK j \in 1..Len(answers) : answers[j].lazy /\ answers[j].n = n
      BY <2>4 DEF Agreed, AsKept
    <3>2. j \in 1..Len(answers')
      BY <1>0, <2>2, <2>m
    <3> QED BY <2>2, <3>1, <3>2
  <2>10. AsKept'
    BY <2>2, <2>6, <2>7, <2>8, <2>9 DEF AsKept
  <2> QED BY <2>10 DEF Agreed, Evaluating
<1>2. CASE Return
  <2> USE <1>2 DEF Return
  <2> DEFINE res == ret = 1
  <2>1. res \in BOOLEAN
    OBVIOUS
  <2>m. PICK m \in Nat : m = Len(answers) + 1
    BY <1>0
  <2>2. asked # <<>> /\ Request.lazy \in BOOLEAN
    BY KnownRequest DEF Inv, Working
  <2>3. /\ answers' \in Seq(Answered)
        /\ Len(answers') = m
        /\ \A k \in 1..Len(answers) : answers'[k] = answers[k]
        /\ \A k \in 1..Len(answers) : Evaluates(k)' <=> Evaluates(k)
        /\ answers'[m] = Answer(res)
        /\ Evaluates(m)' <=>
             /\ Request.lazy
             /\ \A j \in 1..Len(answers) : answers[j].lazy => answers[j].n # Request.n
    BY <1>0, <2>1, <2>2, <2>m, OneMoreAnswer
  <2>4. /\ \A n \in DOMAIN results : n \in DOMAIN results'
        /\ \A n \in DOMAIN results : (Request.lazy => n # Request.n) => results'[n] = results[n]
        /\ Request.lazy => Request.n \in DOMAIN results' /\ results'[Request.n] = cand
        /\ \A n \in DOMAIN results' : n \in DOMAIN results \/ (Request.lazy /\ n = Request.n)
    BY <2>2 DEF Kept
  <2>5. Request.lazy => Request.n \notin DOMAIN results
    BY DEF Agreed, Evaluating
  <2>6. /\ answers'[m].n = Request.n /\ answers'[m].res = res
        /\ answers'[m].lazy = Request.lazy /\ answers'[m].rule = Rule
    BY <2>3 DEF Answer
  <2>7. Request.lazy => Evaluates(m)'
    BY <2>3, <2>5 DEF Agreed, AsKept, Kindred
  <2>8. Request.lazy => Fruit(Rule, cand, res)
    BY CandidatesAreFruit DEF Agreed
  <2> HIDE DEF res
  <2>9. Kindred(m)'
    BY <2>4, <2>6, <2>7, <2>8 DEF Kindred
  <2>10. ASSUME NEW j \in 1..Len(answers) PROVE Kindred(j)'
    <3>1. Kindred(j)
      BY DEF Agreed, AsKept
    <3>2. answers[j].lazy => /\ answers[j].n \in DOMAIN results'
                             /\ results'[answers[j].n] = results[answers[j].n]
      BY <2>4, <2>5, <3>1 DEF Kindred
    <3> QED BY <2>3, <3>1, <3>2 DEF Kindred
  <2>11. /\ \A j \in 1..Len(answers') : j \in 1..Len(answers) \/ j = m
         /\ m \in 1..Len(answers') /\ 1..Len(answers) \subseteq 1..Len(answers')
    BY <1>0, <2>3, <2>m
  <2>12. ASSUME NEW n \in DOMAIN results'
         PROVE  \E j \in 1..Len(answers') : answers'[j].lazy /\ answers'[j].n = n
    <3>1. CASE n \in DOMAIN results
      <4>1. PICK j \in 1..Len(answers) : answers[j].lazy /\ answers[j].n = n
        BY <3>1 DEF Agreed, AsKept
      <4> QED BY <2>3, <2>11, <4>1
    <3>2. CASE Request.lazy /\ n = Request.n
      BY <2>6, <2>11, <3>2
    <3> QED BY <2>4, <3>1, <3>2
  <2>13. AsKept'
    BY <2>3, <2>9, <2>10, <2>11, <2>12 DEF AsKept
  <2> QED BY <2>13 DEF Agreed, Evaluating
<1>3. ASSUME UNCHANGED <<asked, answers, results>>, Evaluating' PROVE Agreed'
  <2>1. \A k : Kindred(k)' <=> Kindred(k)
    BY <1>3 DEF Kindred, Evaluates
  <2>2. AsKept'
    BY <1>3, <2>1 DEF Agreed, AsKept
  <2> QED BY <1>3, <2>2 DEF Agreed
<1>r. UNCHANGED asked => Request' = Request /\ Rule' = Rule
  BY DEF Request, Rule
<1>4. CASE Begin
  <2> USE <1>4 DEF Begin
  <2>1. cand' = {} /\ ret' = 0 /\ UNCHANGED <<asked, answers, results>>
    OBVIOUS
  <2>2. Request.lazy => Request.n \notin DOMAIN results
    OBVIOUS
  <2>3. phase' = "search" /\ Rule.select # "fsection" => search' \in {"yfunc", "given"}
    BY DEF StartSearch
  <2> QED BY <1>3, <1>r, <2>1, <2>2, <2>3 DEF Evaluating
<1>5. CASE TryGiven
  <2> USE <1>5 DEF TryGiven
  <2>1. Rule.select # "fsection"
    BY DEF Inv, Working
  <2>2. cand' = cand /\ UNCHANGED <<asked, answers, results, search>>
    BY DEF Match, Fail
  <2> QED BY <1>3, <1>r, <2>1, <2>2 DEF Agreed, Evaluating
<1>6. CASE NothingGiven
  <2>1. Rule.select # "fsection"
    BY <1>6 DEF NothingGiven, Inv, Working
  <2> QED BY <1>3, <1>6, <1>r, <2>1 DEF NothingGiven, Agreed, Evaluating
<1>7. CASE TryRef
  <2> USE <1>7 DEF TryRef
  <2>1. Rule.select = "fsection" => search \notin {"yfunc", "given"}
    BY DEF Complete, Candidates, Later
  <2>2. UNCHANGED <<phase, cand>> \/ \E f : Match(f)
    BY DEF Fail
  <2>3. Rule.select = "fsection" /\ Request.lazy => phase' = "search"
    BY <2>1, <2>2 DEF Match
  <2>4. Rule.select # "fsection" => cand' = cand
    BY <2>2 DEF Match, Agreed, Evaluating
  <2>5. UNCHANGED <<asked, answers, results, search>>
    OBVIOUS
  <2> QED BY <1>3, <1>r, <2>3, <2>4, <2>5 DEF Agreed, Evaluating
<1>8. CASE NextThing
  BY <1>3, <1>8, <1>r DEF NextThing, Agreed, Evaluating
<1>9. CASE NextSearch
  <2> USE <1>9 DEF NextSearch
  <2>1. phase' = "back" /\ Rule.lost # "rdata" => (ret' = 1 <=> cand' # {})
    OBVIOUS
  <2>2. Rule.select # "fsection" => phase' = "back"
    BY DEF Agreed, Evaluating, After
  <2>3. UNCHANGED <<asked, answers, results, cand>>
    OBVIOUS
  <2> QED BY <1>3, <1>r, <2>1, <2>2, <2>3 DEF Agreed, Evaluating
<1>10. CASE UNCHANGED vars
  <2>1. UNCHANGED <<asked, answers, results, phase, ret, cand, search>>
    BY <1>10 DEF vars
  <2> QED BY <1>3, <1>r, <2>1 DEF Agreed, Evaluating
<1> QED
  BY <1>1, <1>2, <1>4, <1>5, <1>6, <1>7, <1>8, <1>9, <1>10 DEF Next, Step, Done

(* deriv_hack::check_rule_results answers for a number that was evaluated  *)
(* as apply did when it evaluated it, whatever rule has the number by then *)
(* and whatever was asked and stored in between; it answers no where the   *)
(* evaluation was given its function, and yes only if a function matched.  *)
THEOREM SameAnswers == Spec => []AnswersAgree
<1>1. Agreed => AnswersAgree
  <2> SUFFICES ASSUME Agreed, NEW l \in DOMAIN answers, NEW k \in 1..(l - 1),
                      Evaluates(k), answers[l].lazy, answers[l].n = answers[k].n
               PROVE  LET rule == answers[k].rule IN
                      /\ rule.select # "fsection" => ~answers[l].res
                      /\ rule.select = "fsection" /\ rule.lost # "rdata" =>
                           answers[l].res = answers[k].res
                      /\ answers[l].res => \E f \in DOMAIN rule.tries : rule.tries[f].ok
    BY DEF AnswersAgree
  <2>1. answers \in Seq(Answered) /\ l \in 1..Len(answers) /\ k \in 1..Len(answers)
    BY DEF Agreed, AsKept
  <2>2. answers[k].lazy
    BY DEF Evaluates
  <2>3. ~Evaluates(l)
    BY <2>1, <2>2 DEF Evaluates
  <2>4. answers[l].res = (results[answers[k].n] # {})
    BY <2>1, <2>3 DEF Agreed, AsKept, Kindred
  <2>5. Fruit(answers[k].rule, results[answers[k].n], answers[k].res)
    BY <2>1, <2>2 DEF Agreed, AsKept, Kindred
  <2>6. DOMAIN answers[k].rule.tries = Addresses
    <3>1. answers[k] \in Answered
      BY <2>1
    <3>2. PICK r \in Requests : answers[k].rule = r.rule
      BY <3>1 DEF Answered
    <3> QED BY <3>2, RuleApplyAssumption DEF RuleApplyAssumption, WellFormed
  <2> QED BY <2>4, <2>5, <2>6 DEF Fruit
<1>2. Init => Inv /\ Complete /\ Agreed
  BY InitInv, CompleteInit, AgreedInit
<1>3. Inv /\ Complete /\ Agreed /\ [Next]_vars => (Inv /\ Complete /\ Agreed)'
  BY NextInv, CompleteNext, AgreedNext
<1> QED BY <1>1, <1>2, <1>3, PTL DEF Spec
=============================================================================
