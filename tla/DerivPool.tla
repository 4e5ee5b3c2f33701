------------------------------ MODULE DerivPool ------------------------------
(***************************************************************************)
(* deriv_pool::find_xrefs of ldr/deriv.cpp with the thread-safe            *)
(* funcs_holder_ts: the main thread hands one function at a time to the    *)
(* thread pool, a slot (an own deriv_hack and a future) per task, and      *)
(* harvests the futures whenever all slots are taken.  Running tasks push  *)
(* the functions they call into the shared holder.                         *)
(*                                                                         *)
(* The thread pool is the TaskService that ThreadPool implements.          *)
(***************************************************************************)
EXTENDS Naturals, Sequences, FiniteSets

CONSTANTS
  Funcs,     \* the addresses of functions
  Modules,   \* the modules that may be searched, see XrefSearch
  Slots,     \* thread_num: threads, deriv_hacks and futures
  MaxTasks   \* bound on the tasks of one search, for finite checking

ASSUME DerivPoolAssumption ==
  /\ Slots \in Nat \ {0} /\ MaxTasks \in Nat
  /\ Funcs \subseteq Nat
  /\ Modules \subseteq [pdata : Seq(Funcs),
                        exports : Seq([rva : Funcs, code : BOOLEAN]),
                        calls : [Funcs -> Seq(Funcs)], refs : SUBSET Funcs]

VARIABLES
  target, gCE,
  phase,      \* the loop of find_xrefs that runs, see Phases
  source,     \* the elements this loop has not visited
  i,          \* next free slot, DWORD i
  j,          \* next future of the harvest in progress, DWORD j
  mode,       \* put: top of the loop; mark: before add_processed; harvest
  futures,    \* per slot: the task whose result can be got, or NoTask
  task,       \* task number -> [slot, addr, phase]
  queue, running, finished, dropped,   \* the pool
  step,       \* task number -> how many of its calls it has added
  current,    \* m_current of the holder
  processed,  \* m_processed of the holder
  outRes,     \* out_res
  returned    \* find_xrefs has returned

pool == <<queue, running, finished, dropped>>
holder == <<current, processed>>
control == <<phase, source, i, j, mode>>
vars == <<target, gCE, control, futures, task, pool, step, holder, outRes,
          returned>>

Tasks == 1..MaxTasks
NoTask == 0

Service == INSTANCE TaskService WITH Width <- Slots
Search == INSTANCE XrefSearch WITH
  fromExp  <- gCE,
  scanned  <- {task[k].addr : k \in DOMAIN task},
  reported <- {outRes[k] : k \in DOMAIN outRes},
  over     <- returned

SlotIds == 0..(Slots - 1)

(* pdata, exports and the rounds over newly discovered functions           *)
Phases == {"pdata", "exports", "rounds"}

Sorted(S) == CHOOSE s \in [1..Cardinality(S) -> S] :
               \A a, b \in 1..Cardinality(S) : a < b => s[a] < s[b]

InsidePdata(f) == f \in Search!Pdata(target)

-----------------------------------------------------------------------------
(* without .pdata the exports become the starting points: gCE = 1          *)
Init ==
  /\ target \in Modules
  /\ gCE \in {b \in BOOLEAN : target.pdata = <<>> => b}
  /\ phase = "pdata"
  /\ source = target.pdata
  /\ i = 0
  /\ j = 0
  /\ mode = "put"
  /\ futures = [s \in SlotIds |-> NoTask]
  /\ task = <<>>
  /\ Service!Init
  /\ step = <<>>
  /\ current = {}
  /\ processed = {}
  /\ outRes = <<>>
  /\ returned = FALSE

(* The element at the head of the loop; an export may be skipped.          *)
Addr == IF phase = "exports" THEN Head(source).rva ELSE Head(source)

Skipped ==
  phase = "exports" /\ (~Head(source).code \/ Addr \in processed)

SkipExport ==
  /\ ~returned
  /\ mode = "put"
  /\ source # <<>>
  /\ Skipped
  /\ source' = Tail(source)
  /\ UNCHANGED <<target, gCE, phase, i, j, mode, futures, task, pool, step,
                 holder, outRes, returned>>

(* All slots are taken: harvest before the next task is put.               *)
SlotsFull ==
  /\ ~returned
  /\ mode = "put"
  /\ source # <<>>
  /\ ~Skipped
  /\ i >= Slots
  /\ mode' = "harvest"
  /\ j' = 0
  /\ UNCHANGED <<target, gCE, phase, source, i, futures, task, pool, step,
                 holder, outRes, returned>>

(* futures[i++] = m_tpool.add(job)                                         *)
PutTask ==
  LET k == Len(task) + 1 IN
  /\ ~returned
  /\ mode = "put"
  /\ source # <<>>
  /\ ~Skipped
  /\ i < Slots
  /\ k \in Tasks
  /\ Service!Submit(k)
  /\ task' = Append(task, [slot |-> i, addr |-> Addr, phase |-> phase])
  /\ step' = Append(step, 0)
  /\ futures' = [futures EXCEPT ![i] = k]
  /\ i' = i + 1
  /\ IF phase = "rounds"
       THEN mode' = "mark" /\ source' = source
       ELSE mode' = mode /\ source' = Tail(source)
  /\ UNCHANGED <<target, gCE, phase, j, holder, outRes, returned>>

(* f.add_processed(c), after the task was handed over                      *)
MarkProcessed ==
  /\ mode = "mark"
  /\ processed' = processed \cup {Addr}
  /\ source' = Tail(source)
  /\ mode' = "put"
  /\ UNCHANGED <<target, gCE, phase, i, j, futures, task, pool, step, current,
                 outRes, returned>>

(* Mutant: the remaining results are not collected.                        *)
LoopEnds_NoCollect ==
  /\ ~returned
  /\ mode = "put"
  /\ source = <<>>
  /\ mode' = "harvest"
  /\ j' = i
  /\ UNCHANGED <<target, gCE, phase, source, i, futures, task, pool, step,
                 holder, outRes, returned>>

(* The loop has visited everything: collect the remaining results.         *)
LoopEnds ==
  /\ ~returned
  /\ mode = "put"
  /\ source = <<>>
  /\ mode' = "harvest"
  /\ j' = 0
  /\ UNCHANGED <<target, gCE, phase, source, i, futures, task, pool, step,
                 holder, outRes, returned>>

(* Mutant: the result is taken without waiting for the task.               *)
GetFuture_NoWait ==
  /\ mode = "harvest"
  /\ j < i
  /\ futures' = [futures EXCEPT ![j] = NoTask]
  /\ j' = j + 1
  /\ UNCHANGED <<target, gCE, phase, source, i, mode, task, pool, step, holder,
                 outRes, returned>>

(* Mutant: the result is dropped.                                          *)
GetFuture_Dropped ==
  /\ mode = "harvest"
  /\ j < i
  /\ futures[j] \in finished
  /\ futures' = [futures EXCEPT ![j] = NoTask]
  /\ j' = j + 1
  /\ UNCHANGED <<target, gCE, phase, source, i, mode, task, pool, step, holder,
                 outRes, returned>>

(* futures[j].get(): blocks until the task is finished, then consumes it   *)
GetFuture ==
  /\ mode = "harvest"
  /\ j < i
  /\ futures[j] \in finished
  /\ futures' = [futures EXCEPT ![j] = NoTask]
  /\ outRes' = LET f == task[futures[j]].addr IN
               IF f \in target.refs THEN Append(outRes, f) ELSE outRes
  /\ j' = j + 1
  /\ UNCHANGED <<target, gCE, phase, source, i, mode, task, pool, step, holder,
                 returned>>

(* The harvest in the middle of a loop is over: all slots are free again.  *)
HarvestedAll ==
  /\ mode = "harvest"
  /\ j = i
  /\ source # <<>>
  /\ i' = 0
  /\ mode' = "put"
  /\ UNCHANGED <<target, gCE, phase, source, j, futures, task, pool, step,
                 holder, outRes, returned>>

(* Mutant: exchange without the filter, as in funcs_holder.                *)
Exchange_Unfiltered ==
  /\ source' = Sorted(current)
  /\ current' = {}
  /\ phase' = "rounds"

(* Mutant: m_current is not cleared.                                       *)
Exchange_NoClear ==
  /\ source' = Sorted(current \ processed)
  /\ current' = current
  /\ phase' = "rounds"

(* f.exchange(current_set): what was discovered and is not yet processed   *)
Exchange ==
  /\ source' = Sorted(current \ processed)
  /\ current' = {}
  /\ phase' = "rounds"

(* End of a loop: DWORD i starts at 0 in the next one.  The exports loop   *)
(* runs under gCE; then find_xrefs returns if the holder is empty.         *)
NextLoop ==
  /\ mode = "harvest"
  /\ j = i
  /\ source = <<>>
  /\ i' = 0
  /\ mode' = "put"
  /\ \/ /\ phase = "pdata"
        /\ phase' = "exports"
        /\ source' = IF gCE THEN target.exports ELSE <<>>
        /\ UNCHANGED <<current, returned>>
     \/ /\ phase # "pdata"
        /\ current # {}
        /\ Exchange
        /\ UNCHANGED returned
     \/ /\ phase # "pdata"
        /\ current = {}
        /\ returned' = TRUE
        /\ UNCHANGED <<current, phase, source>>
  /\ UNCHANGED <<target, gCE, j, futures, task, pool, step, processed, outRes>>

-----------------------------------------------------------------------------
(* a worker of the pool starts the oldest task                             *)
StartTask ==
  /\ Service!Start
  /\ UNCHANGED <<target, gCE, control, futures, task, step, holder, outRes,
                 returned>>

(* disasm_one_func meets the next `bl' and calls fh.add: .pdata functions  *)
(* and processed functions are not added.  The mutex makes it one step.    *)
AddCallee(k) ==
  /\ k \in running
  /\ step[k] < Len(target.calls[task[k].addr])
  /\ LET f == target.calls[task[k].addr][step[k] + 1] IN
     current' = IF InsidePdata(f) \/ f \in processed THEN current
                ELSE current \cup {f}
  /\ step' = [step EXCEPT ![k] = @ + 1]
  /\ UNCHANGED <<target, gCE, control, futures, task, pool, processed, outRes,
                 returned>>

FinishTask(k) ==
  /\ k \in running
  /\ step[k] = Len(target.calls[task[k].addr])
  /\ Service!Finish(k)
  /\ UNCHANGED <<target, gCE, control, futures, task, step, holder, outRes,
                 returned>>

-----------------------------------------------------------------------------
MainStep ==
  SkipExport \/ SlotsFull \/ PutTask \/ MarkProcessed \/ LoopEnds
  \/ GetFuture \/ HarvestedAll \/ NextLoop

TaskStep == StartTask \/ \E k \in running : AddCallee(k) \/ FinishTask(k)

Done == returned /\ UNCHANGED vars

Next == MainStep \/ TaskStep \/ Done

(* The pool executes every submitted task (ThreadPool, SubmittedTaskRuns). *)
Spec == Init /\ [][Next]_vars /\ WF_vars(MainStep) /\ WF_vars(TaskStep)

-----------------------------------------------------------------------------
Unfinished == DOMAIN task \ finished

(* The arrays of deriv_hacks and futures have one element per slot, and a  *)
(* future is in the array only while its task exists.                      *)
SlotsInBounds ==
  /\ i \in 0..Slots /\ j \in 0..(IF mode = "harvest" THEN i ELSE Slots)
  /\ futures \in [SlotIds -> DOMAIN task \cup {NoTask}]

(* A deriv_hack holds the disassembler state (m_psp, m_dis) of one scan    *)
(* and has no lock: no two unfinished tasks ever use the same one.         *)
OneTaskPerDeriv ==
  \A k, l \in Unfinished : task[k].slot = task[l].slot => k = l

(* future.get() on a future without shared state throws: the harvest only  *)
(* asks futures that were filled since the last harvest.                   *)
HarvestedFutureIsValid ==
  mode = "harvest" => \A s \in SlotIds : s >= j /\ s < i => futures[s] # NoTask

(* The slots are used as the code assumes while the three loops of         *)
(* find_xrefs fill, harvest and fill them again, whatever the tasks do.    *)
SlotsAreSafe == SlotsInBounds /\ OneTaskPerDeriv /\ HarvestedFutureIsValid

(* find_xrefs returns with no task in flight, so the holder f and the rva  *)
(* that the tasks captured by reference outlive every use of them.         *)
NoTaskOutlivesSearch == returned => Unfinished = {}

(* The holder filters what several threads pushed at unpredictable times:  *)
(* a discovered function is scanned once, however often it is called and   *)
(* however its task interleaves with add_processed.                        *)
DiscoveredScannedOnce ==
  \A k, l \in DOMAIN task :
    task[k].phase = "rounds" /\ task[l].phase = "rounds"
      /\ task[k].addr = task[l].addr => k = l

(* The parallel search scans and reports what find_xrefs promises, for     *)
(* every interleaving of the tasks.                                        *)
ImplementsXrefSearch == Search!Spec

(* find_xrefs returns: the rounds over discovered functions come to an end *)
(* even when the functions call each other in a circle.                    *)
SearchTerminates == <>returned
=============================================================================
