-------------------------- MODULE DerivPool_proofs --------------------------
(***************************************************************************)
(* Proofs about DerivPool (deriv_pool::find_xrefs of ldr/deriv.cpp) for    *)
(* modules, call graphs and pools of any size.                             *)
(***************************************************************************)
EXTENDS DerivPool, ProofLemmas

ExportItem == [rva : Funcs, code : BOOLEAN]

Record == [slot : SlotIds, addr : Funcs, phase : Phases]

Typing ==
  /\ target \in Modules /\ gCE \in BOOLEAN /\ returned \in BOOLEAN
  /\ phase \in Phases /\ mode \in {"put", "mark", "harvest"}
  /\ phase = "exports" => source \in Seq(ExportItem)
  /\ phase # "exports" => source \in Seq(Funcs)
  /\ i \in 0..Slots /\ j \in 0..Slots
  /\ task \in Seq(Record)
  /\ step \in Seq(Nat) /\ Len(step) = Len(task)
  /\ futures \in [SlotIds -> (1..Len(task)) \cup {NoTask}]
  /\ current \in SUBSET Funcs /\ IsFiniteSet(current)
  /\ processed \in SUBSET Funcs
  /\ outRes \in Seq(Funcs)

(* A task is in one place of the pool.                                     *)
Places ==
  /\ queue \in Seq(1..Len(task))
  /\ running \in SUBSET (1..Len(task)) /\ finished \in SUBSET (1..Len(task))
  /\ dropped = {}
  /\ \A k \in 1..Len(task) : k \in Service!Queued \cup running \cup finished
  /\ Service!Queued \cap running = {} /\ Service!Queued \cap finished = {}
  /\ running \cap finished = {}
  /\ \A a, b \in 1..Len(queue) : queue[a] = queue[b] => a = b

(* Where the loops are.                                                    *)
Control ==
  /\ mode = "mark" => phase = "rounds" /\ source # <<>>
  /\ mode = "harvest" => j <= i
  /\ returned => mode = "put" /\ i = 0 /\ source = <<>> /\ phase # "pdata"
                   /\ current = {}

(* The slots with a future that has not been harvested.                    *)
Filled == (IF mode = "harvest" THEN j ELSE 0)..(i - 1)

(* They have the tasks that were put there, and all that may still run.    *)
Harvest ==
  /\ \A s \in Filled : futures[s] # NoTask /\ task[futures[s]].slot = s
  /\ \A k \in 1..Len(task) : k \notin finished => \E s \in Filled : futures[s] = k

(* What the rounds have scanned is processed, but for the function between *)
(* m_tpool.add and add_processed, and what they still hand out is not.     *)
Marks ==
  /\ phase # "rounds" =>
       processed = {} /\ \A k \in 1..Len(task) : task[k].phase # "rounds"
  /\ phase = "rounds" =>
       /\ \A k \in 1..Len(source) : source[k] \notin processed
       /\ \A a, b \in 1..Len(source) : source[a] = source[b] => a = b
  /\ \A k \in 1..Len(task) : task[k].phase = "rounds" =>
       task[k].addr \in processed \/ (mode = "mark" /\ task[k].addr = source[1])

IndInv == Typing /\ Places /\ Control /\ Harvest /\ Marks /\ DiscoveredScannedOnce

-----------------------------------------------------------------------------
Scanned == {task[k].addr : k \in 1..Len(task)}

(* Nothing is handed out that the search is not to scan.                   *)
OnlyWanted ==
  /\ phase = "pdata" => Search!Elems(source) \subseteq Search!Pdata(target)
  /\ phase = "exports" =>
       /\ Search!Elems(source) \subseteq Search!Elems(target.exports)
       /\ source # <<>> => gCE
  /\ phase = "rounds" =>
       Search!Elems(source) \subseteq Search!Discovered(target, Scanned)
  /\ current \subseteq Search!Discovered(target, Scanned)
  /\ processed \subseteq Scanned
  /\ mode = "mark" => source[1] \in Scanned
  /\ \A k \in 1..Len(task) : step[k] <= Len(target.calls[task[k].addr])

(* What was to be scanned has been, or is still to be handed out.          *)
NothingForgotten ==
  /\ \A f \in Search!Pdata(target) :
       f \in Scanned \/ (phase = "pdata" /\ f \in Search!Elems(source))
  /\ gCE => \A e \in Search!Elems(target.exports) : e.code =>
       \/ e.rva \in Scanned
       \/ phase = "pdata"
       \/ phase = "exports" /\ e \in Search!Elems(source)
  /\ \A k \in 1..Len(task) : \A c \in 1..step[k] :
       LET f == target.calls[task[k].addr][c] IN
       \/ f \in Search!Pdata(target) \cup Scanned \cup current
       \/ phase = "rounds" /\ f \in Search!Elems(source)
  /\ \A k \in finished : step[k] = Len(target.calls[task[k].addr])

(* A hit is in out_res or in a future.                                     *)
Hits ==
  /\ \A k \in 1..Len(task) : task[k].addr \in target.refs =>
       \/ task[k].addr \in Search!Elems(outRes)
       \/ \E s \in Filled : futures[s] = k
  /\ Search!Elems(outRes) \subseteq Scanned \cap target.refs

Promise == OnlyWanted /\ NothingForgotten /\ Hits

-----------------------------------------------------------------------------
(* exchange hands out each function that is left once.                     *)
LEMMA SortedProperties ==
  ASSUME NEW S \in SUBSET Funcs, IsFiniteSet(S)
  PROVE  /\ Sorted(S) \in Seq(Funcs)
         /\ \A a, b \in 1..Len(Sorted(S)) : Sorted(S)[a] = Sorted(S)[b] => a = b
         /\ Search!Elems(Sorted(S)) = S
<1>1. S \in SUBSET Nat
  BY DerivPoolAssumption DEF DerivPoolAssumption
<1>2. /\ Sorted(S) \in [1..Cardinality(S) -> S]
      /\ \A a, b \in 1..Cardinality(S) : a < b => Sorted(S)[a] < Sorted(S)[b]
  BY <1>1, AscendingExists DEF Sorted
<1>3. /\ Sorted(S) \in Seq(S)
      /\ \A a, b \in 1..Len(Sorted(S)) : Sorted(S)[a] = Sorted(S)[b] => a = b
      /\ {Sorted(S)[k] : k \in 1..Len(Sorted(S))} = S
  <2> HIDE DEF Sorted
  <2> QED BY <1>1, <1>2, AscendingIsComplete
<1> QED BY <1>3 DEF Search!Elems

LEMMA ModuleFacts ==
  ASSUME NEW mod \in Modules
  PROVE  /\ mod.pdata \in Seq(Funcs)
         /\ mod.exports \in Seq(ExportItem)
         /\ mod.calls \in [Funcs -> Seq(Funcs)]
         /\ mod.refs \in SUBSET Funcs
  BY DerivPoolAssumption DEF DerivPoolAssumption, ExportItem

LEMMA TaskFacts ==
  ASSUME Typing, NEW k \in 1..Len(task)
  PROVE  /\ task[k].addr \in Funcs /\ task[k].slot \in SlotIds /\ step[k] \in Nat
         /\ target.calls[task[k].addr] \in Seq(Funcs)
<1>1. task[k] \in Record /\ step[k] \in Nat
  BY DEF Typing
<1>2. task[k].addr \in Funcs /\ task[k].slot \in SlotIds
  BY <1>1 DEF Record
<1>3. target.calls \in [Funcs -> Seq(Funcs)]
  BY ModuleFacts DEF Typing
<1> QED BY <1>1, <1>2, <1>3

(* What the loops hand out are functions.                                  *)
LEMMA SourceFacts ==
  ASSUME Typing, source # <<>>
  PROVE  /\ Addr \in Funcs
         /\ phase = "exports" => Tail(source) \in Seq(ExportItem)
         /\ phase # "exports" => Tail(source) \in Seq(Funcs)
<1>1. CASE phase = "exports"
  <2>1. Head(source) \in ExportItem /\ Tail(source) \in Seq(ExportItem)
    BY <1>1 DEF Typing
  <2>2. Head(source).rva \in Funcs
    BY <2>1 DEF ExportItem
  <2> QED BY <1>1, <2>1, <2>2 DEF Addr
<1>2. CASE phase # "exports"
  BY <1>2 DEF Typing, Addr
<1> QED BY <1>1, <1>2

LEMMA InitIndInv == Init => IndInv
<1> SUFFICES ASSUME Init PROVE IndInv
  OBVIOUS
<1> USE DerivPoolAssumption DEF DerivPoolAssumption, Init
<1>1. Typing
  <2>1. target.pdata \in Seq(Funcs)
    BY ModuleFacts
  <2>2. Len(task) = 0 /\ task \in Seq(Record) /\ step \in Seq(Nat) /\ outRes \in Seq(Funcs)
    OBVIOUS
  <2>3. futures \in [SlotIds -> (1..Len(task)) \cup {NoTask}]
    BY <2>2 DEF SlotIds
  <2>4. target \in Modules /\ gCE \in BOOLEAN /\ returned \in BOOLEAN
    BY Zenon
  <2>5. /\ i \in 0..Slots /\ j \in 0..Slots /\ mode = "put" /\ phase = "pdata"
        /\ source = target.pdata /\ current = {} /\ processed = {}
        /\ Len(step) = Len(task)
    OBVIOUS
  <2> HIDE DEF Init
  <2> QED BY <2>1, <2>2, <2>3, <2>4, <2>5, FS_EmptySet DEF Typing, Phases
<1>2. Places
  BY DEF Places, Service!Init, Service!Queued
<1>3. Control /\ Harvest /\ Marks /\ DiscoveredScannedOnce
  BY DEF Control, Harvest, Filled, Marks, DiscoveredScannedOnce
<1> QED BY <1>1, <1>2, <1>3 DEF IndInv

LEMMA NextTyping == IndInv /\ [Next]_vars => Typing'
<1> SUFFICES ASSUME IndInv, [Next]_vars PROVE Typing'
  OBVIOUS
<1> USE DerivPoolAssumption
    DEF DerivPoolAssumption, IndInv, Typing, SlotIds, Phases, NoTask, pool, holder, control
<1>1. CASE SkipExport
  BY <1>1, SourceFacts DEF SkipExport
<1>2. CASE SlotsFull
  BY <1>2 DEF SlotsFull
<1>3. CASE PutTask
  <2>1. Addr \in Funcs
    BY <1>3, SourceFacts DEF PutTask
  <2>2. [slot |-> i, addr |-> Addr, phase |-> phase] \in Record
    BY <1>3, <2>1 DEF PutTask, Record
  <2>3. /\ task' \in Seq(Record) /\ Len(task') = Len(task) + 1
        /\ step' \in Seq(Nat) /\ Len(step') = Len(task')
    BY <1>3, <2>2 DEF PutTask
  <2>4. futures' \in [SlotIds -> (1..Len(task')) \cup {NoTask}] /\ i' \in 0..Slots
    BY <1>3, <2>3 DEF PutTask
  <2>5. /\ phase = "exports" => source' \in Seq(ExportItem)
        /\ phase # "exports" => source' \in Seq(Funcs)
        /\ mode' \in {"put", "mark", "harvest"}
    BY <1>3, SourceFacts DEF PutTask
  <2> QED BY <1>3, <2>3, <2>4, <2>5 DEF PutTask
<1>4. CASE MarkProcessed
  <2>1. source # <<>> /\ phase = "rounds"
    BY <1>4 DEF MarkProcessed, Control
  <2>2. Addr \in Funcs /\ source' \in Seq(Funcs)
    BY <1>4, <2>1, SourceFacts DEF MarkProcessed
  <2> QED BY <1>4, <2>1, <2>2 DEF MarkProcessed
<1>5. CASE LoopEnds
  BY <1>5 DEF LoopEnds
<1>6. CASE GetFuture
  <2>1. futures[j] \in 1..Len(task)
    BY <1>6 DEF GetFuture, Places
  <2>2. outRes' \in Seq(Funcs)
    BY <1>6, <2>1, TaskFacts DEF GetFuture
  <2> QED BY <1>6, <2>2 DEF GetFuture
<1>7. CASE HarvestedAll
  BY <1>7 DEF HarvestedAll
<1>8. CASE NextLoop
  <2>1. /\ target.exports \in Seq(ExportItem)
        /\ Sorted(current \ processed) \in Seq(Funcs)
    BY ModuleFacts, SortedProperties, FS_Difference
  <2>2. /\ phase' = "exports" => source' \in Seq(ExportItem)
        /\ phase' # "exports" => source' \in Seq(Funcs)
        /\ phase' \in Phases
    <3> HIDE DEF Sorted
    <3>1. <<>> \in Seq(ExportItem)
      OBVIOUS
    <3> QED BY <1>8, <2>1, <3>1 DEF NextLoop, Exchange
  <2>3. current' \in SUBSET Funcs /\ IsFiniteSet(current')
    BY <1>8, FS_EmptySet DEF NextLoop, Exchange
  <2>4. /\ i' \in 0..Slots /\ mode' \in {"put", "mark", "harvest"}
        /\ UNCHANGED <<target, gCE, j, task, step, futures, processed, outRes>>
    BY <1>8 DEF NextLoop
  <2>5. returned' \in BOOLEAN
    BY <1>8, Zenon DEF NextLoop
  <2> QED BY <2>2, <2>3, <2>4, <2>5
<1>9. CASE StartTask
  BY <1>9 DEF StartTask
<1>10. ASSUME NEW k \in running, AddCallee(k) PROVE Typing'
  <2> DEFINE calls == target.calls[task[k].addr]
  <2>1. k \in 1..Len(task) /\ calls \in Seq(Funcs)
    BY TaskFacts DEF Places
  <2>2. calls[step[k] + 1] \in Funcs
    BY <1>10, <2>1 DEF AddCallee
  <2>3. current' \in SUBSET Funcs /\ IsFiniteSet(current')
    BY <1>10, <2>2, FS_AddElement DEF AddCallee
  <2>4. step' \in Seq(Nat) /\ Len(step') = Len(step)
    BY <1>10, <2>1 DEF AddCallee
  <2> QED BY <1>10, <2>3, <2>4 DEF AddCallee
<1>11. ASSUME NEW k \in running, FinishTask(k) PROVE Typing'
  BY <1>11 DEF FinishTask
<1>12. CASE UNCHANGED vars
  BY <1>12 DEF vars
<1> QED
  BY <1>1, <1>2, <1>3, <1>4, <1>5, <1>6, <1>7, <1>8, <1>9, <1>10, <1>11, <1>12
  DEF Next, MainStep, TaskStep, Done

(* The pool takes a new task, starts the oldest or finishes one.           *)
LEMMA NextPlaces == IndInv /\ [Next]_vars => Places'
<1> SUFFICES ASSUME IndInv, [Next]_vars PROVE Places'
  OBVIOUS
<1> USE DEF IndInv, Typing, Places, pool
<1>1. CASE PutTask
  <2> DEFINE k == Len(task) + 1
  <2>1. /\ Len(task') = k /\ Len(task) \in Nat
        /\ queue' = Append(queue, k) /\ UNCHANGED <<running, finished, dropped>>
    BY <1>1 DEF PutTask, Service!Submit
  <2>2. queue \in Seq(1..k) /\ k \in 1..k /\ k \notin Service!Queued
    BY <2>1 DEF Service!Queued
  <2>3. /\ queue' \in Seq(1..k)
        /\ Service!Queued' = Service!Queued \cup {k}
        /\ \A a, b \in 1..Len(queue') : queue'[a] = queue'[b] => a = b
    <3> HIDE DEF k
    <3>1. \A a, b \in 1..Len(queue) : queue[a] = queue[b] => a = b
      OBVIOUS
    <3>2. queue \in Seq(1..k) /\ k \in 1..k /\ queue' = Append(queue, k)
      BY ONLY <2>1, <2>2
    <3>3. k \notin {queue[a] : a \in 1..Len(queue)}
      BY ONLY <2>2, Zenon DEF Service!Queued
    <3>4. Append(queue, k) \in Seq(1..k)
      BY ONLY <3>2, AppendElements
    <3>5. {Append(queue, k)[a] : a \in 1..Len(Append(queue, k))} =
            {queue[a] : a \in 1..Len(queue)} \cup {k}
      BY ONLY <3>2, LastComes
    <3>6. \A a, b \in 1..Len(Append(queue, k)) :
            Append(queue, k)[a] = Append(queue, k)[b] => a = b
      BY ONLY <3>1, <3>2, <3>3, LastComesOnce
    <3> QED BY ONLY <3>2, <3>4, <3>5, <3>6, Zenon DEF Service!Queued
  <2>4. k \notin running /\ k \notin finished /\ \A l \in 1..k : l = k \/ l \in 1..Len(task)
    BY <2>1
  <2>5. /\ queue' \in Seq(1..Len(task')) /\ dropped' = {}
        /\ running' \in SUBSET (1..Len(task')) /\ finished' \in SUBSET (1..Len(task'))
    <3>1. 1..Len(task) \subseteq 1..k
      BY <2>1
    <3> HIDE DEF k
    <3> QED BY <2>1, <2>3, <3>1
  <2>6. \A l \in 1..Len(task') : l \in Service!Queued' \cup running' \cup finished'
    <3> HIDE DEF k
    <3> QED BY <2>1, <2>3, <2>4
  <2>7. /\ Service!Queued' \cap running' = {} /\ Service!Queued' \cap finished' = {}
        /\ running' \cap finished' = {}
    <3> HIDE DEF k
    <3> QED BY <2>1, <2>3, <2>4
  <2> QED BY ONLY <2>3, <2>5, <2>6, <2>7 DEF Places
<1>2. CASE StartTask
  <2>1. /\ queue # <<>> /\ queue' = Tail(queue) /\ running' = running \cup {Head(queue)}
        /\ UNCHANGED <<finished, dropped, task>>
    BY <1>2 DEF StartTask, Service!Start
  <2>2. /\ queue' \in Seq(1..Len(task)) /\ Head(queue) \in 1..Len(task)
        /\ Service!Queued = {Head(queue)} \cup Service!Queued'
        /\ Head(queue) \notin Service!Queued'
        /\ \A a, b \in 1..Len(queue') : queue'[a] = queue'[b] => a = b
    <3>0. queue # <<>> /\ queue \in Seq(1..Len(task))
      BY <2>1
    <3>1. queue \in Seq(1..Len(task)) /\ \A a, b \in 1..Len(queue) : queue[a] = queue[b] => a = b
      OBVIOUS
    <3>2. Tail(queue) \in Seq(1..Len(task)) /\ Head(queue) \in 1..Len(task)
      BY ONLY <2>1, <3>1, TailElements
    <3>3. {queue[k] : k \in 1..Len(queue)} =
            {Head(queue)} \cup {Tail(queue)[k] : k \in 1..Len(Tail(queue))}
      BY ONLY <3>0, HeadLeaves, Zenon
    <3>4. Head(queue) \notin {Tail(queue)[k] : k \in 1..Len(Tail(queue))}
      BY ONLY <3>0, <3>1, HeadLeavesForGood
    <3>5. \A a, b \in 1..Len(Tail(queue)) : Tail(queue)[a] = Tail(queue)[b] => a = b
      BY ONLY <3>0, <3>1, HeadLeavesForGood
    <3> QED BY ONLY <2>1, <3>2, <3>3, <3>4, <3>5, Zenon DEF Service!Queued
  <2>3. Head(queue) \in Service!Queued
    BY <2>2
  <2>4. UNCHANGED <<finished, dropped>> /\ Len(task') = Len(task)
    BY <2>1
  <2>5. /\ queue' \in Seq(1..Len(task')) /\ dropped' = {}
        /\ running' \in SUBSET (1..Len(task')) /\ finished' \in SUBSET (1..Len(task'))
    BY <2>1, <2>2, <2>4
  <2>6. \A k \in 1..Len(task') : k \in Service!Queued' \cup running' \cup finished'
    BY <2>1, <2>2, <2>4
  <2>7. Service!Queued' \cap running' = {} /\ Service!Queued' \cap finished' = {}
    BY <2>1, <2>2, <2>4
  <2>8. running' \cap finished' = {}
    <3>1. Head(queue) \notin finished /\ running \cap finished = {}
      BY <2>3
    <3> QED BY ONLY <2>1, <2>4, <3>1
  <2> QED BY <2>2, <2>5, <2>6, <2>7, <2>8
<1>3. ASSUME NEW k \in running, FinishTask(k) PROVE Places'
  <2>1. /\ running' = running \ {k} /\ finished' = finished \cup {k}
        /\ UNCHANGED <<queue, dropped, task>>
    BY <1>3 DEF FinishTask, Service!Finish
  <2>2. Service!Queued' = Service!Queued
    BY <2>1 DEF Service!Queued
  <2> QED BY <2>1, <2>2
<1>4. CASE UNCHANGED <<pool, task>>
  BY <1>4 DEF Service!Queued
<1> QED
  BY <1>1, <1>2, <1>3, <1>4
  DEF Next, MainStep, TaskStep, Done, vars, SkipExport, SlotsFull, MarkProcessed,
      LoopEnds, GetFuture, HarvestedAll, NextLoop, AddCallee

LEMMA NextControl == IndInv /\ [Next]_vars => Control'
<1> SUFFICES ASSUME IndInv, [Next]_vars PROVE Control'
  OBVIOUS
<1> USE DerivPoolAssumption
    DEF DerivPoolAssumption, IndInv, Typing, Control, control, holder
<1>1. CASE SkipExport \/ SlotsFull \/ LoopEnds \/ MarkProcessed
  BY <1>1 DEF SkipExport, SlotsFull, LoopEnds, MarkProcessed
<1>6. CASE PutTask
  BY <1>6 DEF PutTask
<1>7. CASE GetFuture \/ HarvestedAll
  BY <1>7 DEF GetFuture, HarvestedAll
<1>8. CASE NextLoop
  <2>1. ~returned /\ mode' = "put" /\ i' = 0
    BY <1>8 DEF NextLoop
  <2>2. returned' => phase' # "pdata" /\ source' = <<>> /\ current' = {}
    BY <1>8, <2>1 DEF NextLoop
  <2> QED BY <2>1, <2>2
<1>2. CASE StartTask
  BY <1>2 DEF StartTask
<1>3. ASSUME NEW k \in running, AddCallee(k) PROVE Control'
  <2>1. ~returned
    <3> SUFFICES ASSUME returned PROVE FALSE
      OBVIOUS
    <3>1. Filled = {}
      BY DEF Filled
    <3>2. k \in 1..Len(task) /\ k \notin finished
      BY DEF Places
    <3> QED BY <3>1, <3>2 DEF Harvest
  <2> QED BY <1>3, <2>1 DEF AddCallee
<1>4. ASSUME NEW k \in running, FinishTask(k) PROVE Control'
  BY <1>4 DEF FinishTask
<1>5. CASE UNCHANGED vars
  BY <1>5 DEF vars
<1> QED BY <1>1, <1>2, <1>3, <1>4, <1>5, <1>6, <1>7, <1>8 DEF Next, MainStep, TaskStep, Done

(* The slots below i are filled one by one and harvested all.              *)
LEMMA NextHarvest == IndInv /\ [Next]_vars => Harvest'
<1> SUFFICES ASSUME IndInv, [Next]_vars PROVE Harvest'
  OBVIOUS
<1> USE DerivPoolAssumption
    DEF DerivPoolAssumption, IndInv, Typing, Harvest, Filled, NoTask, SlotIds
<1>1. CASE PutTask
  <2> DEFINE k == Len(task) + 1
  <2>1. /\ i' = i + 1 /\ i < Slots /\ mode = "put" /\ mode' # "harvest"
        /\ futures' = [futures EXCEPT ![i] = k]
        /\ finished' = finished
    BY <1>1 DEF PutTask, Service!Submit
  <2>2. /\ Len(task') = k /\ task'[k].slot = i
        /\ \A l \in 1..Len(task) : task'[l] = task[l]
    BY <1>1 DEF PutTask
  <2>3. Filled' = Filled \cup {i} /\ i \notin Filled /\ i \in SlotIds /\ Filled \subseteq SlotIds
    BY <2>1
  <2>4. futures'[i] = k /\ \A s \in Filled : futures'[s] = futures[s]
    BY <2>1, <2>3
  <2>5. \A s \in Filled : futures[s] \in 1..Len(task)
    BY <2>3
  <2>6. \A l \in 1..k : l = k \/ l \in 1..Len(task)
    OBVIOUS
  <2> HIDE DEF Filled
  <2> QED BY <2>1, <2>2, <2>3, <2>4, <2>5, <2>6
<1>2. CASE GetFuture
  <2>1. /\ mode = "harvest" /\ mode' = "harvest" /\ j < i /\ j' = j + 1 /\ i' = i
        /\ futures[j] \in finished
        /\ futures' = [futures EXCEPT ![j] = NoTask] /\ UNCHANGED <<task, finished>>
    BY <1>2 DEF GetFuture, pool
  <2>2. /\ Filled = Filled' \cup {j} /\ j \notin Filled' /\ Filled \subseteq SlotIds
    <3>1. Filled = j..(i - 1) /\ Filled' = (j + 1)..(i - 1)
      BY <2>1
    <3> QED BY <2>1, <3>1
  <2>3. \A s \in Filled' : futures'[s] = futures[s] /\ s \in Filled
    BY <2>1, <2>2
  <2>4. \A s \in Filled : s # j => s \in Filled'
    BY <2>2
  <2>5. ASSUME NEW k \in 1..Len(task), k \notin finished
        PROVE  \E s \in Filled' : futures'[s] = k
    <3>1. PICK s \in Filled : futures[s] = k
      BY <2>5
    <3>2. s # j
      BY <2>1, <2>5, <3>1
    <3> QED BY <2>3, <2>4, <3>1, <3>2
  <2> HIDE DEF Filled
  <2> QED BY <2>1, <2>3, <2>5
<1>3. CASE SkipExport \/ SlotsFull \/ LoopEnds \/ MarkProcessed
  <2>1. Filled' = Filled /\ UNCHANGED <<task, finished, futures>>
    BY <1>3 DEF SkipExport, SlotsFull, LoopEnds, MarkProcessed, pool
  <2> HIDE DEF Filled
  <2> QED BY <2>1
<1>4. CASE HarvestedAll \/ NextLoop
  <2>1. Filled' = {} /\ Filled = {} /\ UNCHANGED <<task, finished, futures>>
    BY <1>4 DEF HarvestedAll, NextLoop, pool
  <2> HIDE DEF Filled
  <2> QED BY <2>1
<1>5. CASE TaskStep
  <2>1. UNCHANGED <<task, futures, i, j, mode>> /\ finished \subseteq finished'
    BY <1>5
    DEF TaskStep, StartTask, AddCallee, FinishTask, control, pool, Service!Start,
        Service!Finish
  <2>2. Filled' = Filled
    BY <2>1
  <2> HIDE DEF Filled
  <2> QED BY <2>1, <2>2
<1>6. CASE UNCHANGED vars
  BY <1>6 DEF vars, control, pool
<1> QED BY <1>1, <1>2, <1>3, <1>4, <1>5, <1>6 DEF Next, MainStep, Done

(* A round hands out what exchange filtered, and marks it after the task   *)
(* was put: no later round can get it again.                               *)
LEMMA NextMarks == IndInv /\ [Next]_vars => Marks'
<1> SUFFICES ASSUME IndInv, [Next]_vars PROVE Marks'
  OBVIOUS
<1> USE DEF IndInv, Typing, Marks, Phases
<1>1. CASE PutTask
  <2> DEFINE k == Len(task) + 1
  <2>1. /\ Len(task') = k /\ \A l \in 1..k : l = k \/ l \in 1..Len(task)
        /\ task'[k].addr = Addr /\ task'[k].phase = phase
        /\ \A l \in 1..Len(task) : task'[l] = task[l]
    BY <1>1 DEF PutTask
  <2>2. /\ mode = "put" /\ source # <<>> /\ UNCHANGED <<processed, phase>>
        /\ phase = "rounds" => mode' = "mark" /\ source' = source
    BY <1>1 DEF PutTask, holder
  <2>3. phase = "rounds" => Addr = source[1]
    BY <2>2 DEF Addr
  <2>4. CASE phase = "rounds"
    BY <2>1, <2>2, <2>3, <2>4
  <2>5. CASE phase # "rounds"
    BY <2>1, <2>2, <2>5
  <2> QED BY <2>4, <2>5
<1>2. CASE MarkProcessed
  <2>1. phase = "rounds" /\ source # <<>> /\ source \in Seq(Funcs)
    BY <1>2 DEF MarkProcessed, Control
  <2>2. /\ processed' = processed \cup {Head(source)} /\ source' = Tail(source)
        /\ UNCHANGED <<phase, task>>
    BY <1>2, <2>1 DEF MarkProcessed, Addr
  <2>3. /\ Len(source) \in Nat \ {0} /\ Len(source') = Len(source) - 1
        /\ Head(source) = source[1]
        /\ \A l \in 1..Len(source') : source'[l] = source[l + 1]
    BY <2>1, <2>2, TailElements
  <2>4. \A l \in 1..Len(source') : l + 1 \in 1..Len(source) /\ l + 1 # 1 /\ 1 \in 1..Len(source)
    BY <2>3
  <2>5. \A l \in 1..Len(source') : source'[l] \notin processed'
    BY <2>1, <2>2, <2>3, <2>4
  <2>6. \A a, b \in 1..Len(source') : source'[a] = source'[b] => a = b
    <3>1. \A a, b \in 1..Len(source) : source[a] = source[b] => a = b
      BY <2>1
    <3> QED BY ONLY <2>1, <2>2, <3>1, TailElements
  <2>7. \A k \in 1..Len(task) : task[k].phase = "rounds" => task[k].addr \in processed'
    BY <2>2, <2>3
  <2> QED BY <2>1, <2>2, <2>5, <2>6, <2>7
<1>3. CASE NextLoop
  <2>1. mode = "harvest" /\ UNCHANGED <<task, processed>>
    BY <1>3 DEF NextLoop
  <2>2. CASE phase' = "exports" /\ phase = "pdata"
    BY <2>1, <2>2
  <2>3. CASE Exchange /\ phase # "pdata"
    <3>1. phase' = "rounds" /\ source' = Sorted(current \ processed)
      BY <2>3 DEF Exchange
    <3>2. /\ \A a, b \in 1..Len(source') : source'[a] = source'[b] => a = b
          /\ Search!Elems(source') = current \ processed
      <4>1. current \ processed \in SUBSET Funcs /\ IsFiniteSet(current \ processed)
        BY FS_Difference
      <4> QED BY ONLY <3>1, <4>1, SortedProperties
    <3>3. \A a \in 1..Len(source') : source'[a] \notin processed
      BY <3>2 DEF Search!Elems
    <3> QED BY <2>1, <2>3, <3>1, <3>2, <3>3
  <2>4. CASE UNCHANGED <<phase, source>>
    BY <2>1, <2>4
  <2> QED BY <1>3, <2>2, <2>3, <2>4 DEF NextLoop
<1>4. CASE SkipExport
  BY <1>4 DEF SkipExport, Skipped, holder
<1>5. CASE UNCHANGED <<phase, source, task, processed>> /\ mode # "mark"
  BY <1>5
<1>6. CASE UNCHANGED <<phase, source, task, processed, mode>>
  BY <1>6
<1> QED
  BY <1>1, <1>2, <1>3, <1>4, <1>5, <1>6
  DEF Next, MainStep, TaskStep, Done, vars, holder, control, SlotsFull, LoopEnds,
      GetFuture, HarvestedAll, StartTask, AddCallee, FinishTask

LEMMA NextScannedOnce == IndInv /\ [Next]_vars => DiscoveredScannedOnce'
<1> SUFFICES ASSUME IndInv, [Next]_vars PROVE DiscoveredScannedOnce'
  OBVIOUS
<1> USE DEF IndInv, Typing, DiscoveredScannedOnce
<1>1. CASE PutTask
  <2> DEFINE k == Len(task) + 1
  <2>1. /\ DOMAIN task' = 1..k /\ DOMAIN task = 1..Len(task)
        /\ \A l \in 1..k : l = k \/ l \in 1..Len(task)
        /\ task'[k].addr = Addr /\ task'[k].phase = phase
        /\ \A l \in 1..Len(task) : task'[l] = task[l]
    BY <1>1 DEF PutTask
  <2>2. mode = "put" /\ source # <<>>
    BY <1>1 DEF PutTask
  <2>3. phase = "rounds" =>
          \A l \in 1..Len(task) : task[l].phase = "rounds" => task[l].addr # Addr
    <3> SUFFICES ASSUME phase = "rounds" PROVE Addr \notin processed
      BY <2>2 DEF Marks
    <3>1. Addr = source[1] /\ 1 \in 1..Len(source)
      BY <2>2 DEF Addr
    <3> QED BY <3>1 DEF Marks
  <2> QED BY <2>1, <2>3
<1>2. CASE UNCHANGED task
  BY <1>2
<1> QED
  BY <1>1, <1>2
  DEF Next, MainStep, TaskStep, Done, vars, SkipExport, SlotsFull, MarkProcessed,
      LoopEnds, GetFuture, HarvestedAll, NextLoop, StartTask, AddCallee, FinishTask

LEMMA NextIndInv == IndInv /\ [Next]_vars => IndInv'
  BY NextTyping, NextPlaces, NextControl, NextHarvest, NextMarks, NextScannedOnce
  DEF IndInv

THEOREM Invariance == Spec => []IndInv
  BY InitIndInv, NextIndInv, PTL DEF Spec

(* The futures and deriv_hacks are used as the arrays allow, no two tasks  *)
(* in flight share a deriv_hack, and no empty future is waited for.        *)
THEOREM SafeSlots == Spec => []SlotsAreSafe
<1>1. IndInv => SlotsAreSafe
  <2> SUFFICES ASSUME IndInv PROVE SlotsAreSafe
    OBVIOUS
  <2> USE DerivPoolAssumption DEF DerivPoolAssumption, IndInv, Typing, Control, SlotIds
  <2>1. DOMAIN task = 1..Len(task)
    OBVIOUS
  <2>2. SlotsInBounds
    BY <2>1 DEF SlotsInBounds
  <2>3. OneTaskPerDeriv
    <3> SUFFICES ASSUME NEW k \in Unfinished, NEW l \in Unfinished,
                        task[k].slot = task[l].slot
                 PROVE  k = l
      BY DEF OneTaskPerDeriv
    <3>1. PICK s \in Filled : futures[s] = k
      BY <2>1 DEF Harvest, Unfinished
    <3>2. PICK t \in Filled : futures[t] = l
      BY <2>1 DEF Harvest, Unfinished
    <3>3. s = task[k].slot /\ t = task[l].slot
      BY <3>1, <3>2 DEF Harvest
    <3> QED BY <3>1, <3>2, <3>3
  <2>4. HarvestedFutureIsValid
    <3> SUFFICES ASSUME mode = "harvest", NEW s \in SlotIds, s >= j, s < i
                 PROVE  futures[s] # NoTask
      BY DEF HarvestedFutureIsValid
    <3>1. s \in Filled
      BY DEF Filled
    <3> QED BY <3>1 DEF Harvest
  <2> QED BY <2>2, <2>3, <2>4 DEF SlotsAreSafe
<1> QED BY <1>1, Invariance, PTL

(* When find_xrefs returns no task is left that could use its holder.      *)
THEOREM NoTaskLeft == Spec => []NoTaskOutlivesSearch
<1>1. IndInv => NoTaskOutlivesSearch
  <2> SUFFICES ASSUME IndInv, returned PROVE Unfinished = {}
    BY DEF NoTaskOutlivesSearch
  <2>1. Filled = {}
    BY DEF IndInv, Control, Filled
  <2>2. DOMAIN task = 1..Len(task)
    BY DEF IndInv, Typing
  <2> QED BY <2>1, <2>2 DEF IndInv, Harvest, Unfinished
<1> QED BY <1>1, Invariance, PTL

(* Whatever the tasks push while the rounds run, a discovered function is  *)
(* scanned once.                                                           *)
THEOREM ScannedOnce == Spec => []DiscoveredScannedOnce
  BY Invariance, PTL DEF IndInv

-----------------------------------------------------------------------------
LEMMA ElemsOfTail ==
  ASSUME NEW S, NEW q \in Seq(S), q # <<>>
  PROVE  /\ Search!Elems(q) = {Head(q)} \cup Search!Elems(Tail(q))
         /\ Head(q) = q[1]
<1>1. {q[k] : k \in 1..Len(q)} = {Head(q)} \cup {Tail(q)[k] : k \in 1..Len(Tail(q))}
  BY ONLY q \in Seq(S), q # <<>>, TailElements
<1>2. Head(q) = q[1]
  BY ONLY q \in Seq(S), q # <<>>, TailElements
<1> QED BY ONLY <1>1, <1>2, Zenon DEF Search!Elems

LEMMA ElemsOfAppend ==
  ASSUME NEW S, NEW q \in Seq(S), NEW e \in S
  PROVE  Search!Elems(Append(q, e)) = Search!Elems(q) \cup {e}
<1>1. {Append(q, e)[k] : k \in 1..Len(Append(q, e))} = {q[k] : k \in 1..Len(q)} \cup {e}
  BY ONLY q \in Seq(S), e \in S, AppendElements
<1> QED BY ONLY <1>1, Zenon DEF Search!Elems

LEMMA SourceElements ==
  ASSUME Typing, source # <<>>
  PROVE  /\ Search!Elems(source) = {Head(source)} \cup Search!Elems(Tail(source))
         /\ Head(source) = source[1]
<1>1. CASE phase = "exports"
  <2>1. source \in Seq(ExportItem)
    BY <1>1 DEF Typing
  <2> QED BY ONLY <2>1, source # <<>>, ElemsOfTail
<1>2. CASE phase # "exports"
  <2>1. source \in Seq(Funcs)
    BY <1>2 DEF Typing
  <2> QED BY ONLY <2>1, source # <<>>, ElemsOfTail
<1> QED BY <1>1, <1>2

(* A call of what was scanned is discovered unless .pdata lists it.        *)
LEMMA DiscoveredCallee ==
  ASSUME NEW mod, NEW done, NEW g \in done, NEW c \in 1..Len(mod.calls[g])
  PROVE  mod.calls[g][c] \in Search!Pdata(mod) \cup Search!Discovered(mod, done)
<1> DEFINE f == mod.calls[g][c]
<1>1. f \in Search!Elems(mod.calls[g])
  BY DEF Search!Elems
<1>2. f \in UNION {Search!Elems(mod.calls[h]) : h \in done}
  <2> HIDE DEF f
  <2> QED BY <1>1
<1> HIDE DEF f
<1>3. f \in Search!Pdata(mod) \cup Search!Discovered(mod, done)
  BY <1>2 DEF Search!Discovered
<1> QED BY <1>3 DEF f

LEMMA DiscoveredGrows ==
  ASSUME NEW mod, NEW less, NEW more, less \subseteq more
  PROVE  Search!Discovered(mod, less) \subseteq Search!Discovered(mod, more)
  BY DEF Search!Discovered

(* Only m_tpool.add adds to what is scanned.                               *)
LEMMA ScannedGrows ==
  ASSUME IndInv, [Next]_vars
  PROVE  /\ PutTask => /\ Scanned' = Scanned \cup {Addr}
                       /\ Len(task') = Len(task) + 1
                       /\ task'[Len(task) + 1].addr = Addr
                       /\ \A k \in 1..Len(task) : task'[k] = task[k]
         /\ PutTask \/ UNCHANGED task
         /\ Scanned \subseteq Scanned'
<1> USE DEF IndInv, Typing
<1>1. ASSUME PutTask
      PROVE  /\ Scanned' = Scanned \cup {Addr}
             /\ Len(task') = Len(task) + 1
             /\ task'[Len(task) + 1].addr = Addr
             /\ \A k \in 1..Len(task) : task'[k] = task[k]
  <2> DEFINE k == Len(task) + 1
  <2>1. /\ Len(task') = k
        /\ \A l \in 1..k : l = k \/ l \in 1..Len(task)
        /\ task'[k].addr = Addr
        /\ \A l \in 1..Len(task) : task'[l] = task[l]
    BY <1>1 DEF PutTask
  <2>2. 1..k = 1..Len(task) \cup {k}
    BY <2>1
  <2> HIDE DEF k
  <2>3. {task'[l].addr : l \in 1..k} = {task[l].addr : l \in 1..Len(task)} \cup {Addr}
    BY ONLY <2>1, <2>2
  <2>4. Scanned' = Scanned \cup {Addr}
    BY ONLY <2>1, <2>3, Zenon DEF Scanned
  <2> QED BY <2>1, <2>4 DEF k
<1>2. PutTask \/ UNCHANGED task
  BY DEF Next, MainStep, TaskStep, Done, vars, SkipExport, SlotsFull, MarkProcessed,
         LoopEnds, GetFuture, HarvestedAll, NextLoop, StartTask, AddCallee, FinishTask
<1>3. Scanned \subseteq Scanned'
  <2>1. CASE PutTask
    BY <1>1, <2>1
  <2>2. CASE UNCHANGED task
    BY <2>2 DEF Scanned
  <2> QED BY <1>2, <2>1, <2>2
<1> QED BY <1>1, <1>2, <1>3

LEMMA InitPromise == Init => Promise
<1> SUFFICES ASSUME Init PROVE Promise
  OBVIOUS
<1>1. /\ task = <<>> /\ Len(task) = 0 /\ Len(outRes) = 0 /\ phase = "pdata" /\ mode = "put"
      /\ source = target.pdata /\ current = {} /\ processed = {} /\ finished = {}
  BY DEF Init, Service!Init
<1>2. Scanned = {} /\ Search!Elems(source) = Search!Pdata(target) /\ Search!Elems(outRes) = {}
  BY <1>1 DEF Scanned, Search!Elems, Search!Pdata
<1>3. OnlyWanted
  BY <1>1, <1>2 DEF OnlyWanted
<1>4. NothingForgotten
  BY <1>1, <1>2 DEF NothingForgotten
<1>5. Hits
  BY <1>1, <1>2 DEF Hits
<1> QED BY <1>3, <1>4, <1>5 DEF Promise

LEMMA NextOnlyWanted == IndInv /\ OnlyWanted /\ [Next]_vars => OnlyWanted'
<1> SUFFICES ASSUME IndInv, OnlyWanted, [Next]_vars PROVE OnlyWanted'
  OBVIOUS
<1> DEFINE Discovered == Search!Discovered(target, Scanned)
<1>1. /\ UNCHANGED <<target, gCE>>
      /\ Discovered \subseteq Discovered' /\ Scanned \subseteq Scanned'
  <2>1. UNCHANGED <<target, gCE>>
    BY DEF Next, MainStep, TaskStep, Done, vars, SkipExport, SlotsFull, MarkProcessed,
         LoopEnds, GetFuture, HarvestedAll, NextLoop, StartTask, AddCallee, FinishTask, PutTask
  <2> QED BY <2>1, ScannedGrows, DiscoveredGrows
<1>2. ASSUME source # <<>>, source' = source \/ source' = Tail(source)
      PROVE  Search!Elems(source') \subseteq Search!Elems(source)
  <2>1. Search!Elems(source) = {Head(source)} \cup Search!Elems(Tail(source))
    BY <1>2, SourceElements DEF IndInv
  <2> QED BY ONLY <1>2, <2>1
<1> USE DEF OnlyWanted
<1>3. CASE PutTask
  <2> DEFINE k == Len(task) + 1
  <2>1. /\ source # <<>> /\ UNCHANGED <<phase, current, processed>>
        /\ source' = source \/ source' = Tail(source)
        /\ step' = Append(step, 0)
        /\ mode' = "mark" => mode = "mark" \/ (source' = source /\ phase = "rounds")
    BY <1>3 DEF PutTask, holder
  <2>2. /\ Scanned' = Scanned \cup {Addr}
        /\ Len(task') = k /\ task'[k].addr = Addr
        /\ \A l \in 1..Len(task) : task'[l] = task[l]
    BY <1>3, ScannedGrows
  <2>3. mode' = "mark" => source'[1] \in Scanned'
    <3>1. CASE mode = "mark"
      BY <1>3, <3>1 DEF PutTask
    <3>2. CASE mode' = "mark" /\ source' = source /\ phase = "rounds"
      BY <2>1, <2>2, <3>2, SourceElements DEF Addr, IndInv
    <3> QED BY <2>1, <3>1, <3>2
  <2>4. \A l \in 1..Len(task') : step'[l] <= Len(target.calls[task'[l].addr])
    <3>1. step \in Seq(Nat) /\ Len(step) = Len(task) /\ Len(task) \in Nat
      BY DEF IndInv, Typing
    <3>2. step'[k] = 0 /\ \A l \in 1..Len(task) : step'[l] = step[l]
      BY <2>1, <3>1
    <3>3. Len(target.calls[Addr]) \in Nat
      <4>1. Addr \in Funcs /\ target.calls \in [Funcs -> Seq(Funcs)]
        BY <2>1, SourceFacts, ModuleFacts DEF IndInv, Typing
      <4> QED BY <4>1
    <3>4. \A l \in 1..Len(task') : l = k \/ l \in 1..Len(task)
      BY <2>2, <3>1
    <3> HIDE DEF k
    <3>5. SUFFICES ASSUME NEW l \in 1..Len(task')
                   PROVE  step'[l] <= Len(target.calls[task'[l].addr])
      OBVIOUS
    <3>6. CASE l = k
      BY <2>2, <3>2, <3>3, <3>6
    <3>7. CASE l \in 1..Len(task)
      BY <2>2, <3>2, <3>7
    <3> QED BY <3>4, <3>6, <3>7
  <2> HIDE DEF k, Discovered
  <2>5. Search!Elems(source') \subseteq Search!Elems(source)
    BY <1>2, <2>1
  <2>6. current' \subseteq Discovered'
    BY <1>1, <2>1 DEF Discovered
  <2>7. phase' = "rounds" => Search!Elems(source') \subseteq Discovered'
    BY <1>1, <2>1, <2>5 DEF Discovered
  <2>8. /\ phase' = "pdata" => Search!Elems(source') \subseteq Search!Pdata(target')
        /\ phase' = "exports" =>
             /\ Search!Elems(source') \subseteq Search!Elems(target'.exports)
             /\ source' # <<>> => gCE'
    BY <1>1, <2>1, <2>5
  <2>9. processed' \subseteq Scanned'
    BY <1>1, <2>1
  <2>10. \A l \in 1..Len(task') : step'[l] <= Len(target'.calls[task'[l].addr])
    BY <1>1, <2>4
  <2> QED BY <2>3, <2>6, <2>7, <2>8, <2>9, <2>10 DEF Discovered
<1>4. CASE MarkProcessed
  <2>1. /\ source # <<>> /\ phase = "rounds" /\ source' = Tail(source) /\ mode' = "put"
        /\ processed' = processed \cup {Addr}
        /\ UNCHANGED <<phase, current, task, step>>
    BY <1>4 DEF MarkProcessed, IndInv, Control
  <2>2. Addr \in Scanned
    BY <1>4, <2>1, SourceElements DEF MarkProcessed, Addr, IndInv
  <2>3. Search!Elems(source') \subseteq Search!Elems(source)
    BY <1>2, <2>1
  <2>4. Scanned' = Scanned
    BY <2>1 DEF Scanned
  <2> HIDE DEF Scanned
  <2> QED BY <1>1, <2>1, <2>2, <2>3, <2>4
<1>5. CASE SkipExport
  <2>1. /\ source # <<>> /\ source' = Tail(source) /\ mode = "put"
        /\ UNCHANGED <<phase, current, task, step, mode, processed>>
    BY <1>5 DEF SkipExport, holder
  <2>2. Search!Elems(source') \subseteq Search!Elems(source)
    BY <1>2, <2>1
  <2>3. Scanned' = Scanned
    BY <2>1 DEF Scanned
  <2> HIDE DEF Scanned
  <2> QED BY <1>1, <2>1, <2>2, <2>3
<1>6. CASE NextLoop
  <2>1. mode' = "put" /\ UNCHANGED <<task, step, processed>>
    BY <1>6 DEF NextLoop
  <2>2. Scanned' = Scanned
    BY <2>1 DEF Scanned
  <2>3. CASE /\ phase' = "exports" /\ UNCHANGED current
             /\ source' = IF gCE THEN target.exports ELSE <<>>
    <3>1. Search!Elems(<<>>) = {}
      BY DEF Search!Elems
    <3>2. gCE => gCE'
      BY <1>1
    <3>3. Search!Elems(source') \subseteq Search!Elems(target'.exports)
      BY <1>1, <2>3, <3>1
    <3> HIDE DEF Scanned
    <3> QED BY <1>1, <2>1, <2>2, <2>3, <3>2, <3>3
  <2>4. CASE Exchange
    <3>1. current \ processed \in SUBSET Funcs /\ IsFiniteSet(current \ processed)
      BY FS_Difference DEF IndInv, Typing
    <3>2. /\ phase' = "rounds" /\ source' = Sorted(current \ processed) /\ current' = {}
      BY <2>4 DEF Exchange
    <3>3. Search!Elems(source') = current \ processed
      BY <3>1, <3>2, SortedProperties
    <3> HIDE DEF Scanned
    <3> QED BY <1>1, <2>1, <2>2, <3>2, <3>3
  <2>5. CASE UNCHANGED <<phase, source, current>>
    <3> HIDE DEF Scanned
    <3> QED BY <1>1, <2>1, <2>2, <2>5
  <2> QED BY <1>6, <2>3, <2>4, <2>5 DEF NextLoop
<1>7. ASSUME NEW k \in running, AddCallee(k) PROVE OnlyWanted'
  <2> DEFINE calls == target.calls[task[k].addr]
             f == calls[step[k] + 1]
  <2>1. /\ step[k] < Len(calls) /\ step' = [step EXCEPT ![k] = @ + 1]
        /\ current' = IF InsidePdata(f) \/ f \in processed THEN current
                      ELSE current \cup {f}
        /\ UNCHANGED <<phase, source, task, processed, mode>>
    BY <1>7 DEF AddCallee, control
  <2>2. k \in 1..Len(task) /\ step \in Seq(Nat) /\ Len(step) = Len(task)
    BY DEF IndInv, Places, Typing
  <2>3. calls \in Seq(Funcs) /\ step[k] \in Nat
    BY <2>2, TaskFacts DEF IndInv
  <2>4. task[k].addr \in Scanned /\ Scanned' = Scanned
    BY <2>1, <2>2 DEF Scanned
  <2>5. f \in Search!Pdata(target) \cup Discovered
    <3>1. step[k] + 1 \in 1..Len(calls)
      BY <2>1, <2>3
    <3> QED BY <2>4, <3>1, DiscoveredCallee
  <2>6. current' \subseteq Discovered
    <3> HIDE DEF f, Discovered
    <3>1. current \subseteq Discovered
      BY DEF Discovered
    <3> QED BY ONLY <2>1, <2>5, <3>1 DEF InsidePdata
  <2>7. \A l \in 1..Len(task) : step'[l] <= Len(target.calls[task[l].addr])
    <3>1. SUFFICES ASSUME NEW l \in 1..Len(task)
                   PROVE  step'[l] <= Len(target.calls[task[l].addr])
      OBVIOUS
    <3>2. CASE l = k
      <4>1. step'[k] = step[k] + 1
        BY <2>1, <2>2
      <4> QED BY <2>1, <2>3, <3>2, <4>1
    <3>3. CASE l # k
      <4>1. step'[l] = step[l]
        BY <2>1, <2>2, <3>3
      <4> QED BY <4>1
    <3> QED BY <3>2, <3>3
  <2> HIDE DEF Scanned
  <2> QED BY <1>1, <2>1, <2>4, <2>6, <2>7
<1>8. CASE UNCHANGED <<phase, source, current, processed, task, step>> /\ mode' # "mark"
  <2>1. Scanned' = Scanned
    BY <1>8 DEF Scanned
  <2> HIDE DEF Scanned
  <2> QED BY <1>1, <1>8, <2>1
<1>9. CASE UNCHANGED <<phase, source, current, processed, task, step, mode>>
  <2>1. Scanned' = Scanned
    BY <1>9 DEF Scanned
  <2> HIDE DEF Scanned
  <2> QED BY <1>1, <1>9, <2>1
<1> QED
  <2> HIDE DEF OnlyWanted
  <2> QED
    BY <1>3, <1>4, <1>5, <1>6, <1>7, <1>8, <1>9
    DEF Next, MainStep, TaskStep, Done, vars, holder, control, SlotsFull, LoopEnds,
        GetFuture, HarvestedAll, StartTask, FinishTask

LEMMA NextNothingForgotten ==
  IndInv /\ OnlyWanted /\ NothingForgotten /\ [Next]_vars => NothingForgotten'
<1> SUFFICES ASSUME IndInv, OnlyWanted, NothingForgotten, [Next]_vars
             PROVE  NothingForgotten'
  OBVIOUS
<1> DEFINE Callee(k, c) == target.calls[task[k].addr][c]
           Rest == Search!Elems(source)
           Pdata == Search!Pdata(target)
<1>1. UNCHANGED <<target, gCE>> /\ Scanned \subseteq Scanned'
  <2>1. UNCHANGED <<target, gCE>>
    BY DEF Next, MainStep, TaskStep, Done, vars, SkipExport, SlotsFull, MarkProcessed,
         LoopEnds, GetFuture, HarvestedAll, NextLoop, StartTask, AddCallee, FinishTask, PutTask
  <2> QED BY <2>1, ScannedGrows
<1>2. ASSUME source # <<>>
      PROVE  Rest = {Head(source)} \cup Search!Elems(Tail(source)) /\ Head(source) = source[1]
  BY <1>2, SourceElements DEF IndInv
<1>3. processed \subseteq Scanned /\ (mode = "mark" => source[1] \in Scanned)
  BY DEF OnlyWanted
<1>4. /\ step \in Seq(Nat) /\ Len(step) = Len(task) /\ Len(task) \in Nat
      /\ running \subseteq 1..Len(task) /\ finished \subseteq 1..Len(task)
      /\ running \cap finished = {}
  BY DEF IndInv, Typing, Places
<1> USE DEF NothingForgotten
<1>5. ASSUME UNCHANGED <<task, step, finished>>,
             phase' = phase,
             \A f \in Rest : f \in Search!Elems(source') \/ (f \in Scanned /\ phase # "exports")
                 \/ (phase = "exports" /\ (~f.code \/ f.rva \in Scanned)),
             current' = current
      PROVE  NothingForgotten'
  <2>1. Scanned' = Scanned
    BY <1>5 DEF Scanned
  <2> HIDE DEF Scanned
  <2>2. \A f \in Pdata : f \in Scanned' \/ (phase' = "pdata" /\ f \in Search!Elems(source'))
    BY <1>5, <2>1
  <2>3. gCE => \A e \in Search!Elems(target.exports) : e.code =>
           \/ e.rva \in Scanned' \/ phase' = "pdata"
           \/ phase' = "exports" /\ e \in Search!Elems(source')
    BY <1>5, <2>1
  <2>4. \A k \in 1..Len(task) : \A c \in 1..step[k] :
           \/ Callee(k, c) \in Pdata \cup Scanned' \cup current'
           \/ phase' = "rounds" /\ Callee(k, c) \in Search!Elems(source')
    BY <1>5, <2>1
  <2> QED BY <1>1, <1>5, <2>2, <2>3, <2>4
<1>6. CASE PutTask
  <2> DEFINE n == Len(task) + 1
  <2>1. /\ source # <<>> /\ ~Skipped /\ UNCHANGED <<phase, current, finished>>
        /\ step' = Append(step, 0)
        /\ phase = "rounds" => source' = source
        /\ phase # "rounds" => source' = Tail(source)
    BY <1>6 DEF PutTask, holder, Service!Submit
  <2>2. /\ Scanned' = Scanned \cup {Addr}
        /\ Len(task') = n
        /\ \A l \in 1..Len(task) : task'[l] = task[l]
    BY <1>6, ScannedGrows
  <2>3. step'[n] = 0 /\ (\A l \in 1..Len(task) : step'[l] = step[l])
        /\ \A l \in 1..n : l = n \/ l \in 1..Len(task)
    BY <1>4, <2>1
  <2>4. phase # "rounds" => Rest = {Head(source)} \cup Search!Elems(source')
    BY <1>2, <2>1
  <2> HIDE DEF Scanned, n
  <2>5. \A f \in Pdata : f \in Scanned' \/ (phase' = "pdata" /\ f \in Search!Elems(source'))
    <3>1. phase = "pdata" => Addr = Head(source)
      BY DEF Addr
    <3> QED BY <2>1, <2>2, <2>4, <3>1
  <2>6. gCE => \A e \in Search!Elems(target.exports) : e.code =>
           \/ e.rva \in Scanned' \/ phase' = "pdata"
           \/ phase' = "exports" /\ e \in Search!Elems(source')
    <3>1. phase = "exports" => Addr = Head(source).rva
      BY DEF Addr
    <3> QED BY <2>1, <2>2, <2>4, <3>1
  <2>7. \A k \in 1..n : \A c \in 1..step'[k] :
           LET f == target.calls[task'[k].addr][c] IN
           \/ f \in Pdata \cup Scanned' \cup current'
           \/ phase' = "rounds" /\ f \in Search!Elems(source')
    <3> SUFFICES ASSUME NEW k \in 1..n, NEW c \in 1..step'[k]
                 PROVE LET f == target.calls[task'[k].addr][c] IN
                       \/ f \in Pdata \cup Scanned' \cup current'
                       \/ phase' = "rounds" /\ f \in Search!Elems(source')
      OBVIOUS
    <3>1. k \in 1..Len(task)
      BY <2>3
    <3> QED BY <2>1, <2>2, <2>3, <3>1
  <2>8. \A k \in finished' : step'[k] = Len(target.calls[task'[k].addr])
    BY <1>4, <2>1, <2>2, <2>3
  <2> QED BY <1>1, <2>2, <2>5, <2>6, <2>7, <2>8
<1>7. CASE MarkProcessed
  <2>1. phase = "rounds" /\ source # <<>> /\ source' = Tail(source) /\ mode = "mark"
        /\ UNCHANGED <<phase, current, task, step, finished>>
    BY <1>7 DEF MarkProcessed, IndInv, Control, pool
  <2> QED BY <1>2, <1>3, <1>5, <2>1
<1>8. CASE SkipExport
  <2>1. source # <<>> /\ source' = Tail(source) /\ UNCHANGED <<phase, current, task, step, finished>>
        /\ phase = "exports" /\ (~Head(source).code \/ Head(source).rva \in processed)
    BY <1>8 DEF SkipExport, Skipped, Addr, holder, pool
  <2> QED BY <1>2, <1>3, <1>5, <2>1
<1>9. CASE NextLoop
  <2>1. source = <<>> /\ UNCHANGED <<task, step, finished>>
    BY <1>9 DEF NextLoop, pool
  <2>2. Scanned' = Scanned /\ Rest = {}
    BY <2>1 DEF Scanned, Search!Elems
  <2> HIDE DEF Scanned
  <2>3. CASE /\ phase = "pdata" /\ phase' = "exports" /\ UNCHANGED current
             /\ source' = IF gCE THEN target.exports ELSE <<>>
    BY <1>1, <2>1, <2>2, <2>3
  <2>4. CASE phase # "pdata" /\ Exchange
    <3>1. current \ processed \in SUBSET Funcs /\ IsFiniteSet(current \ processed)
      BY FS_Difference DEF IndInv, Typing
    <3>2. phase' = "rounds" /\ source' = Sorted(current \ processed)
      BY <2>4 DEF Exchange
    <3>3. Search!Elems(source') = current \ processed
      BY <3>1, <3>2, SortedProperties
    <3> QED BY <1>1, <1>3, <2>1, <2>2, <2>4, <3>2, <3>3
  <2>5. CASE UNCHANGED <<phase, source, current>>
    BY <1>5, <2>1, <2>5
  <2> QED BY <1>9, <2>3, <2>4, <2>5 DEF NextLoop
<1>10. ASSUME NEW k \in running, AddCallee(k) PROVE NothingForgotten'
  <2> DEFINE f == Callee(k, step[k] + 1)
  <2>1. /\ step' = [step EXCEPT ![k] = @ + 1]
        /\ current' = IF InsidePdata(f) \/ f \in processed THEN current
                      ELSE current \cup {f}
        /\ UNCHANGED <<phase, source, task, finished>>
    BY <1>10 DEF AddCallee, control, pool
  <2>2. step'[k] = step[k] + 1 /\ (\A l \in 1..Len(task) : l # k => step'[l] = step[l])
    BY <1>4, <2>1
  <2>3. Scanned' = Scanned /\ current \subseteq current' /\ f \in Pdata \cup Scanned \cup current'
    <3>1. Scanned' = Scanned
      BY <2>1 DEF Scanned
    <3> HIDE DEF f
    <3> QED BY <1>3, <2>1, <3>1 DEF InsidePdata
  <2> HIDE DEF Scanned
  <2>4. \A l \in 1..Len(task) : \A c \in 1..step'[l] :
           \/ Callee(l, c) \in Pdata \cup Scanned' \cup current'
           \/ phase = "rounds" /\ Callee(l, c) \in Rest
    <3> SUFFICES ASSUME NEW l \in 1..Len(task), NEW c \in 1..step'[l]
                 PROVE  \/ Callee(l, c) \in Pdata \cup Scanned' \cup current'
                        \/ phase = "rounds" /\ Callee(l, c) \in Rest
      OBVIOUS
    <3>1. c \in 1..step[l] \/ (l = k /\ c = step[k] + 1)
      BY <1>4, <2>2
    <3>2. CASE c \in 1..step[l]
      BY <2>3, <3>2
    <3>3. CASE l = k /\ c = step[k] + 1
      BY <2>3, <3>3
    <3> QED BY <3>1, <3>2, <3>3
  <2>5. \A l \in finished : step'[l] = Len(target.calls[task[l].addr])
    BY <1>4, <2>2
  <2> QED BY <1>1, <2>1, <2>3, <2>4, <2>5
<1>11. ASSUME NEW k \in running, FinishTask(k) PROVE NothingForgotten'
  <2>1. /\ step[k] = Len(target.calls[task[k].addr]) /\ finished' = finished \cup {k}
        /\ UNCHANGED <<phase, source, task, step, current>>
    BY <1>11 DEF FinishTask, control, holder, Service!Finish
  <2>2. Scanned' = Scanned
    BY <2>1 DEF Scanned
  <2> HIDE DEF Scanned
  <2> QED BY <1>1, <2>1, <2>2
<1>12. CASE UNCHANGED <<phase, source, current, task, step, finished>>
  BY <1>5, <1>12
<1> QED
  <2> HIDE DEF NothingForgotten
  <2> QED
    BY <1>6, <1>7, <1>8, <1>9, <1>10, <1>11, <1>12
    DEF Next, MainStep, TaskStep, Done, vars, holder, control, pool, SlotsFull, LoopEnds,
        GetFuture, HarvestedAll, StartTask, Service!Start

LEMMA NextHits == IndInv /\ Hits /\ [Next]_vars => Hits'
<1> SUFFICES ASSUME IndInv, Hits, [Next]_vars PROVE Hits'
  OBVIOUS
<1> DEFINE Out == Search!Elems(outRes)
<1>1. target' = target /\ Scanned \subseteq Scanned'
  <2>1. target' = target
    BY DEF Next, MainStep, TaskStep, Done, vars, SkipExport, SlotsFull, MarkProcessed,
         LoopEnds, GetFuture, HarvestedAll, NextLoop, StartTask, AddCallee, FinishTask, PutTask
  <2> QED BY <2>1, ScannedGrows
<1>2. futures \in [SlotIds -> (1..Len(task)) \cup {NoTask}] /\ i \in Nat /\ j \in Nat
      /\ Len(task) \in Nat
  BY DerivPoolAssumption DEF DerivPoolAssumption, IndInv, Typing
<1> USE DEF Hits
<1>3. ASSUME UNCHANGED <<task, futures, outRes>>, Filled' = Filled PROVE Hits'
  <2>1. Scanned' = Scanned
    BY <1>3 DEF Scanned
  <2> HIDE DEF Scanned, Filled
  <2> QED BY <1>1, <1>3, <2>1
<1>4. CASE PutTask
  <2> DEFINE k == Len(task) + 1
  <2>1. /\ i' = i + 1 /\ i < Slots /\ mode = "put" /\ mode' # "harvest"
        /\ futures' = [futures EXCEPT ![i] = k] /\ outRes' = outRes
    BY <1>4 DEF PutTask
  <2>2. Filled' = Filled \cup {i} /\ i \notin Filled /\ i \in SlotIds /\ Filled \subseteq SlotIds
    BY <1>2, <2>1, DerivPoolAssumption DEF Filled, SlotIds, DerivPoolAssumption
  <2>3. futures'[i] = k /\ \A s \in Filled : futures'[s] = futures[s]
    BY <1>2, <2>1, <2>2
  <2>4. /\ Len(task') = k /\ \A l \in 1..Len(task) : task'[l] = task[l]
        /\ \A l \in 1..k : l = k \/ l \in 1..Len(task)
    BY <1>2, <1>4, ScannedGrows
  <2> HIDE DEF Filled, Scanned, k
  <2>5. \A l \in 1..k : task'[l].addr \in target.refs =>
          task'[l].addr \in Out \/ \E s \in Filled' : futures'[s] = l
    BY <2>2, <2>3, <2>4
  <2> QED BY <1>1, <2>1, <2>4, <2>5
<1>5. CASE GetFuture
  <2> DEFINE k == futures[j]
             f == task[k].addr
  <2>1. /\ mode = "harvest" /\ mode' = "harvest" /\ j < i /\ j' = j + 1 /\ i' = i
        /\ k \in finished /\ futures' = [futures EXCEPT ![j] = NoTask] /\ task' = task
        /\ outRes' = IF f \in target.refs THEN Append(outRes, f) ELSE outRes
    BY <1>5 DEF GetFuture
  <2>2. k \in 1..Len(task) /\ f \in Funcs /\ outRes \in Seq(Funcs)
    BY <2>1, TaskFacts DEF IndInv, Typing, Places
  <2>3. f \in Scanned /\ Scanned' = Scanned
    BY <2>1, <2>2 DEF Scanned
  <2>4. Out' = Out \cup ({f} \cap target.refs)
    <3> HIDE DEF f
    <3>1. CASE f \in target.refs
      BY <2>1, <2>2, <3>1, ElemsOfAppend
    <3>2. CASE f \notin target.refs
      BY <2>1, <3>2
    <3> QED BY <3>1, <3>2
  <2>5. Filled = Filled' \cup {j} /\ j \notin Filled'
    <3>1. Filled = j..(i - 1) /\ Filled' = (j + 1)..(i - 1)
      BY <2>1 DEF Filled
    <3> QED BY <1>2, <2>1, <3>1
  <2>6. \A s \in Filled' : futures'[s] = futures[s]
    <3>1. Filled \subseteq SlotIds
      BY DerivPoolAssumption DEF IndInv, Typing, Filled, SlotIds, DerivPoolAssumption
    <3> QED BY <1>2, <2>1, <2>5, <3>1
  <2> HIDE DEF Filled, Scanned
  <2>7. ASSUME NEW l \in 1..Len(task), task[l].addr \in target.refs
        PROVE  task[l].addr \in Out' \/ \E s \in Filled' : futures'[s] = l
    <3>1. CASE task[l].addr \in Out
      BY <2>4, <3>1
    <3>2. CASE \E s \in Filled : futures[s] = l
      <4>1. CASE l = k
        BY <2>4, <2>7, <4>1
      <4>2. CASE l # k
        BY <2>5, <2>6, <3>2, <4>2
      <4> QED BY <4>1, <4>2
    <3> QED BY <2>7, <3>1, <3>2
  <2>8. Out' \subseteq Scanned' \cap target.refs
    BY <2>3, <2>4
  <2> QED BY <1>1, <2>1, <2>7, <2>8
<1>6. CASE SkipExport \/ SlotsFull \/ LoopEnds \/ MarkProcessed
  <2>1. Filled' = Filled /\ UNCHANGED <<task, futures, outRes>>
    BY <1>2, <1>6 DEF SkipExport, SlotsFull, LoopEnds, MarkProcessed, Filled
  <2> QED BY <1>3, <2>1
<1>7. CASE HarvestedAll \/ NextLoop
  <2>1. Filled' = {} /\ Filled = {} /\ UNCHANGED <<task, futures, outRes>>
    BY <1>2, <1>7 DEF HarvestedAll, NextLoop, Filled
  <2> QED BY <1>3, <2>1
<1>8. CASE UNCHANGED <<task, futures, outRes, i, j, mode>>
  <2>1. Filled' = Filled
    BY <1>8 DEF Filled
  <2> QED BY <1>3, <1>8, <2>1
<1> QED
  <2> HIDE DEF Hits
  <2> QED
    BY <1>4, <1>5, <1>6, <1>7, <1>8
    DEF Next, MainStep, TaskStep, Done, vars, control, StartTask, AddCallee, FinishTask

LEMMA NextPromise == IndInv /\ Promise /\ [Next]_vars => Promise'
  BY NextOnlyWanted, NextNothingForgotten, NextHits DEF Promise

(* A task that is handed over is a scan, a future that is consumed may be  *)
(* a report, and find_xrefs returns with everything scanned and reported:  *)
(* every other step is invisible to the caller.                            *)
LEMMA StepRefines ==
  ASSUME IndInv, Promise, [Next]_vars
  PROVE  [Search!Next]_(Search!xvars)
<1> DEFINE scanned == {task[k].addr : k \in DOMAIN task}
           reported == {outRes[k] : k \in DOMAIN outRes}
<1>1. /\ scanned = Scanned /\ scanned' = Scanned'
      /\ reported = Search!Elems(outRes) /\ reported' = Search!Elems(outRes')
  <2>1. DOMAIN task = 1..Len(task) /\ DOMAIN outRes = 1..Len(outRes)
    BY DEF IndInv, Typing
  <2>2. DOMAIN task' = 1..Len(task') /\ DOMAIN outRes' = 1..Len(outRes')
    BY NextTyping DEF Typing
  <2> QED BY ONLY <2>1, <2>2, Zenon DEF Scanned, Search!Elems
<1>2. UNCHANGED <<target, gCE>>
  BY DEF Next, MainStep, TaskStep, Done, vars, SkipExport, SlotsFull, MarkProcessed,
       LoopEnds, GetFuture, HarvestedAll, NextLoop, StartTask, AddCallee, FinishTask, PutTask
<1>3. CASE PutTask
  <2>1. ~returned /\ source # <<>> /\ ~Skipped /\ UNCHANGED <<outRes, returned>>
    BY <1>3 DEF PutTask
  <2>2. Scanned' = Scanned \cup {Addr}
    BY <1>3, ScannedGrows
  <2>3. Addr \in Search!Wanted(target, gCE, Scanned)
    <3>1. Head(source) \in Search!Elems(source)
      BY <2>1, SourceElements DEF IndInv
    <3>2. CASE phase = "pdata"
      BY <3>1, <3>2 DEF Addr, Promise, OnlyWanted, Search!Wanted, Search!Roots
    <3>3. CASE phase = "exports"
      <4>1. gCE /\ Head(source) \in Search!Elems(target.exports) /\ Head(source).code
        BY <2>1, <3>1, <3>3 DEF Skipped, Promise, OnlyWanted
      <4>2. Head(source).rva \in Search!CodeExports(target)
        BY <4>1 DEF Search!CodeExports
      <4> QED BY <3>3, <4>1, <4>2 DEF Addr, Search!Wanted, Search!Roots
    <3>4. CASE phase = "rounds"
      BY <3>1, <3>4 DEF Addr, Promise, OnlyWanted, Search!Wanted
    <3> QED BY <3>2, <3>3, <3>4 DEF IndInv, Typing, Phases
  <2>4. Search!Scan
    BY <1>1, <1>2, <2>1, <2>2, <2>3 DEF Search!Scan
  <2> QED BY <2>4 DEF Search!Next
<1>4. CASE GetFuture
  <2> DEFINE f == task[futures[j]].addr
  <2>1. /\ mode = "harvest" /\ futures[j] \in finished
        /\ outRes' = IF f \in target.refs THEN Append(outRes, f) ELSE outRes
        /\ UNCHANGED <<task, returned>>
    BY <1>4 DEF GetFuture
  <2>2. ~returned /\ f \in Funcs /\ f \in Scanned /\ outRes \in Seq(Funcs)
    BY <2>1, TaskFacts DEF IndInv, Typing, Places, Control, Scanned
  <2>3. Scanned' = Scanned
    BY <2>1 DEF Scanned
  <2> HIDE DEF f, Scanned, scanned, reported
  <2>4. CASE f \in target.refs
    <3>1. reported' = reported \cup {f}
      BY <1>1, <2>1, <2>2, <2>4, ElemsOfAppend
    <3>2. Search!Report
      BY <1>1, <1>2, <2>1, <2>2, <2>3, <2>4, <3>1 DEF Search!Report, scanned, reported
    <3> QED BY <3>2 DEF Search!Next
  <2>5. CASE f \notin target.refs
    BY <1>1, <1>2, <2>1, <2>3, <2>5 DEF Search!xvars, scanned, reported
  <2> QED BY <2>4, <2>5
<1>5. CASE NextLoop /\ returned' # returned
  <2>1. /\ mode = "harvest" /\ j = i /\ source = <<>> /\ phase # "pdata" /\ current = {}
        /\ returned' = TRUE /\ UNCHANGED <<task, outRes>>
    BY <1>5 DEF NextLoop, Exchange
  <2>2. ~returned
    BY <2>1 DEF IndInv, Control
  <2>3. Filled = {} /\ Search!Elems(source) = {}
    BY <2>1 DEF Filled, Search!Elems, IndInv, Typing
  <2>4. Search!Wanted(target, gCE, Scanned) \subseteq Scanned
    <3>1. Search!Pdata(target) \subseteq Scanned
      BY <2>1 DEF Promise, NothingForgotten
    <3>2. gCE => Search!CodeExports(target) \subseteq Scanned
      BY <2>1, <2>3 DEF Promise, NothingForgotten, Search!CodeExports
    <3>3. ASSUME NEW f \in Search!Discovered(target, Scanned) PROVE f \in Scanned
      <4>1. PICK g \in Scanned : f \in Search!Elems(target.calls[g])
        BY <3>3 DEF Search!Discovered
      <4>2. PICK k \in 1..Len(task) : g = task[k].addr
        BY DEF Scanned
      <4>3. k \in finished
        BY <2>3 DEF IndInv, Harvest
      <4>4. step[k] = Len(target.calls[g])
        BY <4>2, <4>3 DEF Promise, NothingForgotten
      <4>5. PICK c \in 1..step[k] : f = target.calls[task[k].addr][c]
        BY <4>1, <4>2, <4>4 DEF Search!Elems
      <4> QED BY <2>1, <2>3, <3>1, <4>5 DEF Promise, NothingForgotten
    <3> QED BY <3>1, <3>2, <3>3 DEF Search!Wanted, Search!Roots
  <2>5. Search!Elems(outRes) = Scanned \cap target.refs
    BY <2>3 DEF Promise, Hits, Scanned
  <2>6. Scanned' = Scanned
    BY <2>1 DEF Scanned
  <2>7. Search!Finish
    BY <1>1, <1>2, <2>1, <2>2, <2>4, <2>5, <2>6 DEF Search!Finish
  <2> QED BY <2>7 DEF Search!Next
<1>6. CASE UNCHANGED <<task, outRes, returned>>
  BY <1>2, <1>6 DEF Search!xvars
<1> QED
  <2>1. NextLoop => UNCHANGED <<task, outRes>>
    BY DEF NextLoop
  <2> QED
    BY <1>3, <1>4, <1>5, <1>6, <2>1
    DEF Next, MainStep, TaskStep, Done, vars, SkipExport, SlotsFull, MarkProcessed,
        LoopEnds, HarvestedAll, StartTask, AddCallee, FinishTask

(* However the tasks interleave, the parallel search scans what find_xrefs *)
(* promises to scan, reports all hits and nothing else, and returns only   *)
(* then.                                                                   *)
THEOREM SearchRefinement == Spec => ImplementsXrefSearch
<1>1. Init => Search!Init
  BY DEF Init, Search!Init
<1>2. Spec => []Promise
  BY InitIndInv, NextIndInv, InitPromise, NextPromise, PTL DEF Spec
<1>3. IndInv /\ Promise /\ [Next]_vars => [Search!Next]_(Search!xvars)
  BY StepRefines
<1> QED BY <1>1, <1>2, <1>3, Invariance, PTL DEF Spec, Search!Spec, ImplementsXrefSearch
=============================================================================
