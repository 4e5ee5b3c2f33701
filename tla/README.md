# A TLA+ model of armpatched

armpatched is an ARM64 disassembler (`source/`, a patched armadillo) and, built on
it, a static analyser of ARM64 Windows PE files (`ldr/`). The analyser finds where a
module refers to a datum, turns the way a function gets there into a *path* of
instructions, saves paths as rules, and later applies the rules to another build of
the module to find the same datum again. This project models the parts of it that
keep state, run concurrently, or walk code, checks the models with TLC on small
instances and proves what matters most about them with TLAPS.

## Inventory

| component | code | state it keeps | operations | what makes it correct |
|---|---|---|---|---|
| thread pool | `ldr/tpool.h` | task queue, `stop`, mutex, condition variable, worker threads | constructor, `add`, worker loop, destructor | a submitted task runs exactly once or its promise is broken by the destructor; no pop from an empty queue; the destructor returns |
| parallel xref search | `ldr/deriv.cpp` 2298-2473, `deriv.h` `deriv_pool`, `funcs_holder_ts` | one `deriv_hack` and one future per slot, `m_current`, `m_processed`, `out_res` | put a task, harvest all futures, rounds over discovered functions | no `deriv_hack` serves two tasks at once; no future is got twice; every wanted function is scanned; the rounds end |
| sequential xref search | `ldr/deriv.cpp` 2222-2296, `ldr/ldr.cpp` 662-686 | `funcs_holder`, `out_res`, `gCE` | `find_xrefs`, the loop over `-der` files | the same promise as the parallel search; one file does not disturb the next |
| control-flow walk | `ldr/cf_graph.h`, `deriv.cpp` 2128-2214 | `m_nodes`, `ranges`, `m_ranges`, address list, generation counter | `disasm_one_func` | decodes exactly the reachable code, finds each call and reference, ends |
| rule search (fsm) | `ldr/deriv.cpp` `apply`, `try_apply`, `hack.h` `traverse_simple_state_graph`, `cf_graph.h` `statefull_graph` | position in the path, storage, rule results, cached functions | apply a path to a function, nested rules | a path matches only in order along one execution; storage holds only what a successful rule stored |
| scan rules | `ldr/scan.cpp`, `ldr/bm_search.cpp` | result set, rules results, thunk cache, storage | validate the items, find a thunk, search a section for each pattern, test the items behind a hit, store | what is found is a table inside the section; no table is missed; only the one table there is gets stored |
| rule reader | `ldr/afsm/` | current line, open rule, state flags | parse a `.fsm` file, drive a search per rule | a file gives the rules it spells |
| exports and imports | `ldr/exports_dict.*`, `imports_dict.*`, `iat_mod.*`, `dict.*` | sorted tables, red-black tree | lookup by name, ordinal, address, nearest | lookups agree with the table |
| PE image | `ldr/pe_file.*` | mapped image, sections | read, map, relocate, read exports | every section is mapped where its header says |
| instruction predicates and register tracking | `ldr/hack.*` | `m_dis`, `m_psp`, `regs_pad`, `xref_finder` | `disasm`, `is_*`, `check_jmps`, five searches for an address, `.pdata` lookups | a predicate tells the instruction it names; a register is known only when its value is; a search reports what forms the address, and all of it within reach |
| module hacks | `krnl_*.cpp`, `ntdll_hack`, `ndis_hack`, `rpc_hack`, `rpcrt4_hack`, `afd_hack`, `skci_hack`, `combase_hack`, `etw_umod.cpp` | addresses found so far | one walk of a function per datum | each walk is a small automaton over the instructions of a function |
| decoder | `source/*.c` | none but the record it fills | opcode to `struct ad_insn` | branches, addresses and offsets are those of the word; no operand gets lost but those named; the record has room |
| tools | `example.c`, `poorgcc/`, `arm64sw/`, `idasve/`, `testgen/`, `test/` | none of interest | command-line and IDA plug-in front ends | |

The components interact by plain calls: `wmain` of `ldr.cpp` maps a file (PE image),
fills the export and import tables, and runs a hack, or a search for cross references
per `-der` file; the search walks functions, the walk disassembles. Only the parallel
search is concurrent: `deriv_pool` passes closures to the thread pool, the closures run
`disasm_one_func` on a `deriv_hack` of their own and share the holder of discovered
functions behind its mutex. Everything that looks at code goes through the decoder and the
predicates of `hack.h`; the walks, the rules and the finder see of a word only what
`struct ad_insn` says.

The behaviours that are hard to test are the interleavings of the pool and of the
parallel search, the order in which the holder learns of functions that are found,
running and done, the state that survives from one file, generation, rule or function
to the next, the merging of overlapping code ranges, the bounds (generations of
edges, slots, ends of sections, the ten instructions of the finder), and the thousands of
words that each take a path of their own through the decoder.

## The modules

| module | models | code |
|---|---|---|
| `TaskService` | what the thread pool promises: ordered start, bounded parallelism, every task once | abstract, of `tpool.h` |
| `ThreadPool` | mutex, condition variable, workers, `add`, destructor, one lock, unlock, wait or notify per action | `tpool.h` |
| `ThreadPool_proofs` | theorems about `ThreadPool` | |
| `XrefSearch` | what a search for cross references promises, without order, threads or work sets | abstract, of both `find_xrefs` |
| `DerivPool` | the parallel search: slots, futures, harvests, the shared holder; its pool is an `INSTANCE` of `TaskService` | `deriv.cpp` 2298-2473, `deriv.h` |
| `DerivPool_proofs` | theorems about `DerivPool` | |
| `FindXrefs` | the sequential search and the loop over `-der` files | `deriv.cpp` 2222-2296, `ldr.cpp` |
| `FindXrefs_proofs` | theorems about `FindXrefs` | |
| `ProofLemmas` | facts about finite sets in ascending order, about sequences as queues and about what merged ranges claim, for the proofs | |
| `GraphRanges` | code ranges: `in_range`, `interleaved`, insertion into a list of ranges | `cf_graph.h` |
| `CodeWalk` | `disasm_one_func` over `cf_graph`, one instruction per action | `deriv.cpp` 2128-2214, `cf_graph.h`, `hack.cpp` |
| `CodeWalk_proofs` | theorems about `CodeWalk` | |
| `RuleItems` | what one instruction does to one item of a rule, for every item type | `deriv.cpp`, the body of the inner loop of `try_apply` |
| `RuleMatch` | `try_apply` over `statefull_graph`, with the calls of itself as a stack | `deriv.cpp` 1078-1799, `cf_graph.h` |
| `RuleMatch_proofs` | theorems about `RuleMatch` | |
| `RuleApply` | `apply` with its searches, candidates, cache and storage backup, the answers of `check_rule_results`; what `try_apply` does with one function is an input | `deriv.cpp` 695-1076, `scan.cpp` 134-149, `hack.cpp` 386-403 |
| `RuleApply_proofs` | theorems about `RuleApply` | |
| `AfsmSession` | the reader of rule files, the loop of `afsm.cpp`, the choice of the function a rule is applied to, `resolve_rules` | `afsm/fsd_reader.cpp`, `afsm/afsm.cpp`, `deriv.cpp`, `scan.cpp` |
| `AfsmSession_proofs` | theorems about `AfsmSession` | |
| `BmSearch` | the tables of `bm_search` and its search, with what it reads behind the end | `bm_search.cpp` |
| `SectionScan` | a session of scan rules: validation, patterns, the search for a thunk, hit after hit the test of the items, the store | `scan.cpp`, `deriv.cpp` 505-557 |
| `Arm64Word` | words as halves, bits, operands, records; sign extension, the tables of registers | `bits.c`, `utils.c`, `common.h`, `adefs.h` |
| `DataProcImm`, `BranchExcSys`, `DataProcReg`, `LoadsAndStores`, `AdvancedSIMD`, `DataProcFloat`, `SveInteger`, `SvePredicate`, `SveMultiply`, `SveFloat`, `SveMemory` | the decoders of the groups of instructions | the files of `source/` |
| `InsnTests` | the predicates `is_*` and `check_jmps` on a decoded word | `hack.cpp`, `hack.h` |
| `Disassembler` | the choice of the group, `disasm`, and what the architecture says of the words that matter to `ldr/` | `armadillo.c`, `hack.cpp` |
| `Armadillo` | the decoder as a process: choose a word, fill the record | `armadillo.c` |
| `XrefFinder` | `xref_finder` with its five searches, several of one object, on top of `Disassembler` | `hack.h` 89-322, `hack.cpp` 405-549, `krnl_etw.cpp` |

An `MC` module next to a detailed module gives its small instances; `ThreadPool` needs none,
its constants are sets of model values, without symmetry because of its liveness. A name of the
code (`m_psp`, `edge_gen`, `m_processed`, `gCE`) keeps its name as far as TLA+ allows;
the map in `PROJECT.json` gives the lines of every definition.

How they fit together:

    ThreadPool --implements--> TaskService <--uses-- DerivPool --implements--> XrefSearch
                                                     FindXrefs --implements--> XrefSearch
    CodeWalk, RuleMatch --use--> GraphRanges         RuleMatch --uses--> RuleItems
    RuleApply: one try_apply (RuleMatch) per step    AfsmSession: one apply per rule
    SectionScan --uses--> BmSearch                   SectionScan: asks rules RuleApply answers
    Armadillo, XrefFinder --use--> Disassembler --uses--> InsnTests, the decoders --use--> Arm64Word

The refinement mappings are substitutions of the `INSTANCE`. In `ThreadPool` the queue is
`jobs`, a task runs while a worker holds it, and it is dropped when its promise is broken.
In `DerivPool` and `FindXrefs` the scanned functions are the ones a task was made for, and
what is reported is `out_res`. That the parallel search is checked over `TaskService` and
not over threads is what `ImplementsTaskService` pays for.

### What is abstracted

- **Instructions.** An address holds one instruction, four bytes in the code. `CodeWalk`
  keeps of an instruction what the walk branches on; `RuleItems` also the address the
  tracked registers give it, which is an input, `Null` when the registers are not known.
  How `regs_pad` computes it is not modelled.
- **The end of the code.** `disasm` reads an instruction if the address behind it lies in the mapped
  image (`pe_file.h` `is_inside`), so never the last four bytes; in the models that is the last
  address.
- **Sets.** `addr_list` and `m_current` are ordered sets filled and then visited, so the
  order of the visit is fixed: the models take the least element.
- **Names.** Symbols, imports, exports and sections are members of small sets. Tables are
  functions of an address.
- **Words.** Machine words are two halves of 16 bits, since TLC counts in 32. A decoded word
  is the id, the operands with kind, number and width, the condition and the number of
  fields. Numbers relative to the program counter stay relative (`pc`, `page`). Immediates
  that no one in `ldr/` asks for are present but carry no number. The text is left out, but
  for aliases that have the id of another instruction.
- **Cells.** In `SectionScan` the image is a sequence of cells; an item of four bytes has one
  cell, a pointer two, a guid three. Raw and virtual size of a section are one number. `gcall`
  and `call_dimp` share the code of `gload` and `call_exp` and are not told apart. What rules
  that are asked from a scan store is in `RuleApply`.
- **Files.** A line of a rule file is a record of keyword, arguments and prefixes; how it is
  cut into tokens is left out.
- **Memory that is not mapped.** A read behind the mapped image is a state of its own
  (`fault`), which the search can reach when less than a pattern is left.
- **Values nobody initialises** are chosen from constants that hold several values (`StrayItems`,
  `StrayOrds`, `StrayTypes` of `AfsmSession`): the item before a line fills it, the export number of
  `m_symbol`, the type of every fresh path. What they spoil is in the premises of
  `RuleAppliesToItsOwnFunction`: an export number nobody set diverts `sfunc`, `fpoi` and `fsection`
  (`IsUndisturbed`), a path that is an entry edge by chance all selectors but `yfunc` (`IsOwnType`).
- **Exceptions.** A task of the parallel search does not throw, and allocation succeeds.

## What is checked

`tlc -config <cfg> <module>`; every run is listed in `PROJECT.json`. Passing runs:

| run | instance | properties | what it shows |
|---|---|---|---|
| `thread_pool` | 3 workers, 3 tasks, any number of spurious wakeups | `PopIsSafe`, `TaskConservation`, `NothingAfterDestruction`, `ImplementsTaskService`, `SubmittedTaskRuns`, `DestructorReturns` | the pool is a task service; `add` loses no wakeup; what the destructor guarantees |
| `deriv_pool` | 2 slots and workers, 3 functions with 6 call lists each, 8 tasks | `SlotsAreSafe`, `NoTaskOutlivesSearch`, `DiscoveredScannedOnce`, `ImplementsXrefSearch`, `SearchTerminates` | slots and futures are used safely, and the result does not depend on the interleaving |
| `find_xrefs` | 3 functions, up to 3 files | `DiscoveredScannedTwiceAtMost`, `ImplementsXrefSearch`, `SessionTerminates` | the sequential search keeps the same promise, at the price of a second scan |
| `code_walk` | every program of 4 addresses, 3 generations | `RangesWereVisited`, `WalkIsSound`, `WalkIsComplete`, `Terminates` | exactly the reachable code is decoded |
| `rule_match` | all functions of 4 instructions that jump and load, each instruction against each item, rules that ask for others, for themselves and for each other, with a stack of 6 calls | `MatchIsInOrder`, `RangesWereSeen`, `MatchIsFound`, `SearchReturns` | a match is one way through the function, when one is missed, and that only rules in a circle exhaust the stack |
| `rule_apply` | 4 functions, rules with every combination of searches and matching functions, sessions of up to 4 requests, also for a number that gets another rule in between | `TriedOnce`, `StorageIsOfTheMatch`, `NoCandidateMissed`, `AnswersAgree` | the searches together miss no function and try none twice, the storage is put back, a number is answered by its first evaluation |
| `afsm_session` | files of up to 3 rules of a pool with every keyword, and every file of 3 rules of 19 that are strange: without items or a selector, with two of them, with offsets missing or misplaced | `ItemsAreAsWritten`, `RuleAppliesToItsOwnFunction`, `NoRuleIsLost`, `SessionEnds` | reusing one item and one symbol for a file does no harm, but for what the premises of the properties name; the first item, the export number and the types of the paths each take two values nobody set |
| `section_scan` | every content of a section of a few cells for patterns that overlap themselves; a dozen pointers for every kind of item; sessions of up to 2 scans; the image at its preferred base and at another | `TablesAreSound`, `NoTableMissed`, `OnlyTableIsStored`, `SessionEnds` | what is found are tables, which of them a scan may miss, and that it ends |
| `decode` | 917,280 words: every combination of the upper half's opcode bits with a few registers, lower halves that vary every field | `RecordHasRoom`, `BranchesAreFollowed`, `AddressPartsAreExact`, `OperandsMatter` | the predicates see branches, returns and traps as the architecture does; addresses and offsets are exact; no operand is dropped but those `Forgets` and `MemoryOperands` name; no decoder fills more than the record holds |
| `xref_finder` | every section of 3 words out of 15, the first two side by side or eight words apart; five searches for two addresses, also two with one object | `ReportsPointAtWhat`, `ReferencesAreFound` | what is reported forms the address, and what forms it within reach is reported |

`SlotsAreSafe`, `TablesAreSound`, `AddressPartsAreExact` and `ReferencesAreFound` are
conjunctions of named parts. `decode` has no deadlock check, as a word is decoded once.

Why the bounds are enough for what they are used for:

- *3 workers and 3 tasks*: a worker that sleeps, one that runs and one that is on its way
  to sleep exist together, while tasks are left in the queue. What does not depend on
  liveness is proved for any number.
- *2 slots, 3 functions*: a harvest in the middle of a phase, a last harvest with one slot
  filled, functions found by two tasks, by themselves and while queued all happen. The
  bound `MaxTasks` is not met: no module of the run makes more tasks than that, and the
  safety of the slots does not count tasks.
- *4 addresses*: two overlapping blocks, a jump into the middle of a block, a loop, a
  jump to undecodable code and a jump out all fit; soundness and completeness are proved
  for any size.
- *Generations* (`MaxGen`, 100 in the code): the completeness properties speak of walks that
  end before the bound. With 3 in `code_walk` some walks are cut short, so both ends occur.
- *4 functions, of which one is the first and one the last of `.pdata`*: two that can be
  found, by several searches, in both orders; references to the first instruction of a
  function, behind the last function, and to nothing.
- *A few cells per section*: patterns of two and three cells that begin with their own end,
  hits one behind the other, at both ends of the section, and in the two cells that a wrapped
  search reads behind the image.
- *Words*: the decoders branch on opcode bits; these are enumerated, while registers and
  numbers are 0, 31, and values that tell their bits apart. Sign bits and the special
  registers 30 and 31 are among them. The definitions were, besides, compared with the
  compiled decoder on fifteen million words.
- *Gaps of 0 and 8 words* in `xref_finder` put the second word of a pair at the tenth
  place and behind it.
- *4 instructions per rule search* hold a branch, a join and two loads. Two different
  states that meet at one address, which is where `statefull_graph` drops one, need no more.
- *A stack of 6 calls* (`MaxDepth`) is more than the pairs of a rule and a function that one
  chain of these calls can go through, so it overflows only when a pair comes back. The
  chains that do are a rule that asks for itself and two that ask for each other.

Runs that find a disagreement (each is a finding in `PROJECT.json`):

| run | property | what the code does |
|---|---|---|
| `decode_condition` | `AliasesInvertCondition` | `cond &= ~1` clears the lowest bit where the comment above it inverts it (`DataProcessingRegister.c:881`): `cset`, `cinc`, `cneg` and the others know only the even one of two opposite conditions |
| `section_scan_import` | `ImportIsFound` | `scan_thunk` takes the pointers of the image for addresses of its mapping (`scan.cpp:174`), so an import is not found unless the image is mapped at its preferred base |

Weaker properties that hold (`RangesWereVisited`, `DestructorReturns`, `MatchIsFound`,
`NoTableMissed`, `ReferencesAreFound`) say what the code does guarantee. `DestructorReturns` in particular is
conditional: the destructor writes `stop` and notifies without the mutex, so a worker that
has found the predicate false and does not sleep yet misses the notification, and `join`
waits for it for ever. No line of the repository promises otherwise, so there is no
finding; the guarantee is stated as far as it holds. For the same reason `MatchIsFound`
has the premise that no two ways reach an address with different items met: the code
names the loss as a problem it leaves open (`cf_graph.h:291`).

Disagreements read in the code, or found by a run that is not kept:

- a file without `.pdata` sets the global `gCE` and nothing resets it (`deriv.cpp:2227`): the
  files after it are searched from their exports, which is what `-ce` is for (`ldr.cpp:30`);
- the left-edge test of `interleaved` accepts an empty range at the end of a stored one and
  replaces it (`cf_graph.h:116`), so a processed block is forgotten, although ranges are to be
  "moved to persistent m_ranges";
- the storage of a rule search is one for all branches (`deriv.cpp:1369`): a match may leave in
  it what another branch has met;
- `m_symbol.exported_ord` survives (`deriv.cpp:752`): an `sfunc` rule after one for `ordN` is
  applied to that ordinal again;
- `_resolve_rules` does not move on at a yara item that is not the first (`scan.cpp:94`), so the
  session is caught there; `SessionEnds` of `afsm_session` excepts it;
- a second search with one `xref_finder` (`krnl_etw.cpp:271`) starts with the registers of the
  first, and `purge` counts places ahead as recent: an `add` may be reported that forms another
  address;
- a table that ends with its section is not looked at, as `end` leaves out its size and the
  search the pattern once more (`scan.cpp:214`); overlapping hits are skipped (`scan.cpp:360`);
- `check_thunk` caches an import under its slot instead of its thunk (`deriv.cpp:550`);
- behind the first item of a scan `ypoi` compares with the pointer at 0, as a variable is
  hidden (`scan.cpp:260`), and `yarares` adds its offset to the other side than a first one
  (`scan.cpp:276`, `493`); an item that only sets `is_ok` passes if the item before it did;
- the decoder: `adr` backwards is wrong by 2^32, `adrp` loses its highest bit
  (`DataProcessingImmediate.c:33`, `42`); `extr` with equal first and third register and `madd`
  record wrong operands (`DataProcessingImmediate.c:820`, `DataProcessingRegister.c:950`); how an
  added register, or one in an offset, is extended and shifted is in the text alone; bit
  masks are replicated with swapped arguments (`utils.c:90`) and `mov` of them chosen by swapped
  ones (`DataProcessingImmediate.c:324`); the test bit of `tbz` is shifted by 6 instead of 5
  (`BranchExcSys.c:1540`); `adc` and `sbc` are looked up by the width bit
  (`DataProcessingRegister.c:610`); and-ed tests let reserved words pass (`BranchExcSys.c:18`,
  `DataProcessingRegister.c:667`, `701`); `cmlt` and `fcmlt` get the ids of `cmgt` and `fcmgt`
  (`DataProcessingFloatingPoint.c:1812`, `1883`); the offsets of indexed loads have no sign and
  those of `ldur` are not recorded (`LoadsAndStores.c:1308`, `1344`); `adc_tab` of SVE is read
  behind its end (`disasm_sve.c:4143`);

- the exports loop of the parallel search puts a task and only then marks the function
  (`deriv.cpp:2460`), against the comment at `deriv.cpp:2376`: an export listed twice is
  scanned twice;
- `section`-selected rules leave `yara_rule` in `m_symbol` (`fsd_reader.cpp:307`), and
  the selector of a numbered rule is not stored with it (`scan.cpp:143`);
- `poi` does not set the type of its item (`fsd_reader.cpp:496`), `yarares` and `poi`
  ignore a `stg` prefix (`fsd_reader.cpp:456`);
- a named `load` and `ldr_off` end the block at a mismatch even with `wait`
  (`deriv.cpp:1363`, `1777`, `lreadme.md:39`); as last items `ldr_cookie` and `const`
  never let a rule succeed, the result of `next()` is ignored (`deriv.cpp:1382`, `1779`);
- `call_icall` and `ldr_cookie` match an unknown register when the image has no load
  configuration, as both sides are null (`deriv.cpp:1249`, `1381`);
- the `ldr_cookie` of `lreadme.md:86` is read under the name `load_cookie` (`fsd_reader.cpp:424`);
- `call_dimp` becomes an item of type `call_imp` (`fsd_reader.cpp:385`), so the name is
  not looked up in the "delayed IAT" of `lreadme.md:105`;
- the search of the constant pool in `apply` neither asks nor fills `cached_funcs`
  (`deriv.cpp:843`), against "only once" in `lreadme.md`; `has_stg` does not look into
  the rules that `apply_rule` names, so their storage is not restored (`deriv.cpp:697`);
- `_resolve_rules` lets a numbered rule ask for itself, or rules for each other in a circle, as it
  takes a rule for resolved before it looks into it (`scan.cpp:122`); on a function that calls itself
  `try_apply` then does so until the stack is exhausted (`deriv.cpp:1177`);
- a number that is given to another rule is answered from the results of the rule it had when it was
  evaluated: `rules_set` is overwritten (`afsm.cpp:285`), `rules_result` is not (`scan.cpp:147`);
- a numbered rule whose function is given (`func`, `sfunc`, ...) is answered with its match
  the first time and with 0 later, as only candidates are kept (`scan.cpp:147`); one with
  constants of `.rdata` is answered 0 when it was counted in another module and this one has
  no `.rdata`, candidates or not (`deriv.cpp:866`);
- `get_best_yarares` takes the yara rule with the most hits (`deriv.cpp:673`), where the
  searches for constants look for the rarest.

### Fairness

- `ThreadPool`: weak fairness of each worker and of the owner inside a call, which is
  what any scheduler of operating-system threads gives. Nothing is assumed of who gets the
  mutex, nor that the owner ever calls `add` or the destructor. Spurious wakeups stop
  eventually, as no implementation produces them without end.
- `DerivPool`: weak fairness of the main thread and of the tasks. The second is what
  `SubmittedTaskRuns` shows of the pool that runs them.
- `FindXrefs`, `CodeWalk`, `RuleMatch`, `RuleApply`, `AfsmSession`, `SectionScan`: one thread that never waits, so
  weak fairness of the step. `Armadillo` decodes a word in one step and `XrefFinder` scans a
  section of fixed length; no liveness is stated of them.

## What is proved

`tlapm` checks the theorems of `ThreadPool_proofs`, `DerivPool_proofs`, `FindXrefs_proofs`,
`CodeWalk_proofs`, `RuleMatch_proofs`, `RuleApply_proofs` and `AfsmSession_proofs`, and the lemmas
of `ProofLemmas`, for all values of the constants. The invariants they go through were checked
with TLC on the instances of the runs before they were proved.

| property | theorem | | property | theorem |
|---|---|---|---|---|
| `PopIsSafe` | `SafePop` | | `RangesWereVisited` | `CodeWalk_proofs!RangesSound` |
| `TaskConservation` | `NoTaskLost` | | `WalkIsSound` | `WalkSound` |
| `NothingAfterDestruction` | `CleanDestruction` | | `WalkIsComplete` | `WalkComplete` |
| `ImplementsTaskService` | `ServiceRefinement` | | `MatchIsInOrder` | `MatchOnOneWay` |
| `SlotsAreSafe` | `SafeSlots` | | `RangesWereSeen` | `RuleMatch_proofs!RangesSound` |
| `NoTaskOutlivesSearch` | `NoTaskLeft` | | `TriedOnce` | `OnceOnly` |
| `DiscoveredScannedOnce` | `ScannedOnce` | | `StorageIsOfTheMatch` | `StorageRestored` |
| `DiscoveredScannedTwiceAtMost` | `ScannedTwice` | | `NoCandidateMissed` | `NothingMissed` |
| `ImplementsXrefSearch` | `SearchRefinement`, of both searches | | `AnswersAgree` | `SameAnswers` |
| `MatchIsFound` | `FoundIfMet` | | `ItemsAreAsWritten` | `ItemsKept` |
| `RuleAppliesToItsOwnFunction` | `OwnFunction` | | `NoRuleIsLost` | `NothingLost` |

**ThreadPool**, from `ThreadPoolAssumption` (workers and tasks are sets that do not contain
the null values, and there are finitely many workers). The invariant `Inv` is
`TypeOK /\ MutexOK /\ PopIsSafe /\ Hands`. The parts need each other: a worker pops a task and
not `NoTask` because the queue is not empty behind the predicate; it is not empty because the
mutex keeps the others away. `Hands` says which labels go with a task in hand. `TypeCorrect`,
`MutualExclusion` and `SafePop` follow. `NoTaskLost` adds `TaskConservation`, inductive once
`Inv` is known; `CleanDestruction` follows from it and from `join`. `ServiceRefinement` maps
every lock, unlock, wait and notify to a stutter of `TaskService`, the push to a submission, a
pop to a start (there is room for one more, as the worker that pops does not run: `RoomForOneMore`)
and so on.

**DerivPool**, from `DerivPoolAssumption` (what a module lists are functions, the table of calls
is total, there is a slot). `SlotsAreSafe` is about tasks in flight and is not
inductive: that a task in flight is in the future of its slot (`Harvest`) needs that a task is
in one place of the pool (`Places`) and where the loops are (`Control`). A function is scanned
once by the rounds because what they scanned is processed, but for the one between `m_tpool.add`
and `add_processed` (`Marks`), and because what the rounds still hand out is not processed and
listed once. For `SearchRefinement` there are three parts under `Promise`: nothing is handed out
that is not wanted, what is wanted has been scanned or will be handed out, and a hit is reported
or in a future. Putting a task is a scan, getting a future may be a report, and the return is the
end of the search because the last harvest has left every task finished; all else stutters.

**FindXrefs**, from `FindXrefsAssumption` (the same of modules, sessions are not empty). Here a
function may be pushed again while it is scanned. `Rounds` counts what is due to a function: the
scans the rounds made, one if it waits in the set and one if it is in the list that is visited. Once it is
processed nothing adds to the sum, and before that no round has scanned it, so it
is at most two: `ScannedTwice`. The sequential refinement has the same three parts as the parallel one.

**CodeWalk**, from `CodeWalkAssumption` (programs are well formed, `MaxGen` is positive).
Merging ranges comes first: `MergedClaims` and `InsertClaims` say that a merged range, or a
list with a range added, claims no address that its parts did not. The lemma holds although an empty
range may replace a stored one: the merge may forget, it never invents. The invariant has
`BlockVisited`, `ClaimsVisited` (which gives `RangesSound`), `FallsFollowed` and
`JumpsFollowed` (where control flows to from a visited address is visited, is the next
instruction or waits as a node), `EntryFollowed`, `Recorded` and `NodesDone`. At the end
the visited addresses are closed under the flow, so they contain the least such set:
`WalkComplete`. `WalkSound` is an invariant of its own: whatever is visited, next or waiting
lies in every closed set.

**RuleMatch**, from `RuleMatchAssumption` (there is an instruction at each address of the code,
rules are not empty, and the numbers that items hold are those of rules; a rule may reach itself by
them). Frames of the stack are
records whose maps take addresses to states, so the invariant says of each frame on its own that
it is `Sound`: every state it holds, in the block, in the list and in the graph, counts as many
items as it was met at, these form a `Chain` through the code, and the address a state is held
for lies `Behind` the last of them. The running call in a block is `Inside` it up to `m_psp`;
a call that waits for a rule is `Inside` up to the call or load in front of the `m_psp` it saved
(`Awaits`), which is why restoring it keeps both properties. `FlowsTo` quantifies over closed sets, so that
ways can be composed without induction. All verdicts go through `VerdictShape`: only an item
that names a rule is answered with one, and whatever `Verdict` returns either stays in the block
or leaves it. `MatchOnOneWay` reads the chain of the state that has met the last item, `RangesSound` uses
the lemmas about merged ranges again. `MatchIsFound` compares the search with a *numbering*, which
gives each address the item that is waited for there whichever way leads to it. The ways need
not be enumerated then, and the invariant `FoundInv` speaks of one step: in every numbering what
is held for an address, in the list, in the graph and in the block, has the number of the address
(so it does not matter which state a join drops), and from each visited address the search went on, or
has noted to go on, to where the numbering does. When the search ends with nothing, the numbering
cut down to what was visited is one by which no way meets the last item: `FoundIfMet`. An
address whose range is lost may be decoded twice, one that is claimed but not decoded would be missed;
that there is none is `RangesWereSeen` again.

**RuleApply**, from `RuleApplyAssumption` (tables are total, rules well formed, `.pdata`
strictly ascending; a number may stand for any rules in turn). `TriedOnce` is not inductive:
that a function was tried must still be known in
`cached_funcs` while the searches go on (`Remembered`). `StorageIsOfTheMatch` speaks of the
end of `apply`; the invariant behind it is that between two tries the storage is the one
`apply` found and equals its copy (`Unchanged`), and that a match which ends `apply` leaves
no candidates (`Kinds`). Both searches that try a function go through one lemma, `TryInv`.
`TypeCorrect`, `OnceOnly` and `StorageRestored` follow. Pool constants are excepted from
`TriedOnce`, and rules that store only through `apply_rule` from `StorageIsOfTheMatch`,
because the code does not treat them so. `NothingMissed` needs an account of what the searches
have still to go through: `NothingDropped` says of every reference to every thing of the rule that
its function is settled (it does not match, or it is a candidate) or that it is still to come, in this search or in one
behind it. A function that a later search skips was settled by an earlier one
(`SkippedAreSettled`); this is where the storage must be restored, or the second search would have
tried something else. That the binary search of `.pdata` finds the function around a reference is `FoundBetween`,
from the order of `.pdata`. `SameAnswers` tells the first answer for a number, which evaluates the rule,
from the later ones, which only say whether anything is kept (`AsKept`); what is kept is what that
first rule came to (`Fruit`), and stays, because a number is evaluated only while nothing is kept for it.

**AfsmSession**, from `AfsmSessionAssumption` (a file is a sequence of lines, `ordN` stands for a
number, and an uninitialised `path.type` counts as one of two values). Files are of any length, their
lines in any order. None of the three properties is inductive: each compares what the reader holds
now with what lines far behind it spell, and the reader holds it in places that change with
`mState`. `Written` says where: the items of the path are those of the item lines of the rule so
far but for the last, which is pending in `item` (`Pending`) as long as `mState` says that a list
is being read. It needs `HeadsFirst` (`mState` tells whether an item line, and whether a scan line, of
the rule was read) and `Counted` (`nth` is the number of section lines read). Each keyword enters through one lemma about the item it leaves behind, `WithItemIs`, so
that the steps distinguish only kinds of lines (`BeginsRule`, `ReadsHead`, `ReadsItem`,
`EndsRule`, `Stops`, `GoesOn`, `StaysAtRule`). `Unnumbered` tells from the path in hand whether the rule is
plain, so a rule that is stored, skipped or refused is not one that must be applied. `Selected`
says of a rule in hand, and of each stored rule as long as no later rule has selected anything, that what `Target` makes of path and
symbol is a function one of its own lines selects (`StandsFor`); this survives because preparing a rule leaves its target alone
and because of what its premises `IsUndisturbed` and `IsOwnType` exclude. `Logged` collects what was applied: plain rules in
order, each but the one in hand. `ItemsKept`, `OwnFunction` and `NothingLost` are read off these;
the last one at the end of the file, where `Counted` knows that all section lines were met.

Only model-checked:

- liveness (`SubmittedTaskRuns`, `DestructorReturns`, `SearchTerminates`, `SessionTerminates`,
  `Terminates`, `SearchReturns`, `SessionEnds`), which needs `ENABLED`;
- `SectionScan`: `BmSearch` is a recursive function over the section and what a pattern's tables hold
  is a recursion over the pattern; `TablesAreSound` and `NoTableMissed` rest on both. `OnlyTableIsStored`
  does not and could be proved; it has not been;
- the decoders and `XrefFinder`: `CASE` over tables of ids. What they compute for
  each word is a matter of enumeration.

## What is not modelled

- `regs_pad`, which tracks what registers hold through a block: `RuleItems` takes its answer
  as an input. `make_path`, which turns a function into a rule.
- The module hacks, a hand-written automaton per datum of a Windows module.
- Exports, imports and relocations: tables that are filled once are constants of the models.
- Formatting, the command-line front ends and the IDA plug-ins, which hold no state of interest.
- Yara is outside the repository: its hits are a constant. A task that throws.

## Plan

1. Done: the pool, both searches for cross references, the walk, the rule search, the
   rule reader, scan rules, the decoder, the predicates and the finder.
2. Done of the proofs: the table above. Left: `OnlyTableIsStored` and the parts of `TablesAreSound` that do not look into
   `BmSearch`; the window of `XrefFinder`.
3. Left of the code: `RegsPad` against a reference interpreter, with calls that forget, on top
   of `Disassembler`; `MakePath` against `RuleMatch`; the hacks as tables of states; `Tables`
   and `PeImage`.
