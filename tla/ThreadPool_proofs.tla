-------------------------- MODULE ThreadPool_proofs --------------------------
(***************************************************************************)
(* Proofs about ThreadPool (thread_pool<R> of ldr/tpool.h) for any number  *)
(* of workers and tasks.                                                   *)
(***************************************************************************)
EXTENDS ThreadPool, ProofLemmas

(* Which labels go with a task in hand: the owner between get_future and   *)
(* push, a worker between pop and the end of the task.                     *)
Hands ==
  /\ adding # NoTask <=> mpc \in {"add1", "add2"}
  /\ \A w \in Workers : held[w] # NoTask <=> wpc[w] \in {"unlock", "run"}

(* The parts need each other: a worker pops a task, not NoTask, because    *)
(* the queue is not empty, and the queue is not empty because the mutex    *)
(* keeps the other workers away between the predicate and the pop.         *)
Inv == TypeOK /\ MutexOK /\ PopIsSafe /\ Hands

-----------------------------------------------------------------------------
LEMMA InitInv == Init => Inv
<1> SUFFICES ASSUME Init PROVE Inv
  OBVIOUS
<1> USE ThreadPoolAssumption DEF Init, ThreadPoolAssumption
<1>1. TypeOK
  <2>1. jobs \in Seq(Tasks)
    OBVIOUS
  <2> QED BY <2>1 DEF TypeOK, WorkerPC, MainPC, Future
<1>2. MutexOK /\ PopIsSafe
  BY DEF MutexOK, PopIsSafe, Owns, MainOwns
<1>3. Hands
  BY DEF Hands
<1> QED BY <1>1, <1>2, <1>3 DEF Inv

LEMMA NextInv == Inv /\ [Next]_vars => Inv'
<1> SUFFICES ASSUME Inv, [Next]_vars PROVE Inv'
  OBVIOUS
<1> USE ThreadPoolAssumption
    DEF Inv, TypeOK, MutexOK, PopIsSafe, Hands, WorkerPC, MainPC, Future,
        Owns, MainOwns, Goto, Asleep, ThreadPoolAssumption
<1>1. ASSUME NEW w \in Workers, SpawnThread(w) PROVE Inv'
  BY <1>1 DEF SpawnThread
<1>2. ASSUME NEW t \in Tasks, AddGetFuture(t) PROVE Inv'
  BY <1>2 DEF AddGetFuture
<1>3. CASE Constructed
  BY <1>3 DEF Constructed
<1>4. CASE AddLock
  BY <1>4 DEF AddLock
<1>5. CASE AddPush
  BY <1>5 DEF AddPush
<1>6. CASE AddNotifyOne
  BY <1>6 DEF AddNotifyOne
<1>7. CASE AddReturn
  BY <1>7 DEF AddReturn
<1>8. CASE BeginDestructor
  BY <1>8 DEF BeginDestructor
<1>9. CASE SetStop
  BY <1>9 DEF SetStop
<1>10. CASE NotifyAll
  BY <1>10 DEF NotifyAll
<1>11. CASE JoinAll
  BY <1>11 DEF JoinAll
<1>12. ASSUME NEW w \in Workers, Lock(w) PROVE Inv'
  BY <1>12 DEF Lock
<1>13. ASSUME NEW w \in Workers, TestPredicate(w) PROVE Inv'
  BY <1>13 DEF TestPredicate
<1>14. ASSUME NEW w \in Workers, Block(w) PROVE Inv'
  BY <1>14 DEF Block
<1>15. ASSUME NEW w \in Workers, SpuriousWakeup(w) PROVE Inv'
  BY <1>15 DEF SpuriousWakeup
<1>16. ASSUME NEW w \in Workers, ReturnOnStop(w) PROVE Inv'
  BY <1>16 DEF ReturnOnStop
<1>17. ASSUME NEW w \in Workers, Pop(w) PROVE Inv'
  BY <1>17 DEF Pop
<1>18. ASSUME NEW w \in Workers, Unlock(w) PROVE Inv'
  BY <1>18 DEF Unlock
<1>19. ASSUME NEW w \in Workers, RunTask(w) PROVE Inv'
  BY <1>19 DEF RunTask
<1>20. CASE UNCHANGED vars
  BY <1>20 DEF vars
<1> QED
  BY <1>1, <1>2, <1>3, <1>4, <1>5, <1>6, <1>7, <1>8, <1>9, <1>10, <1>11, <1>12, <1>13, <1>14, <1>15, <1>16, <1>17, <1>18, <1>19, <1>20
  DEF Next, MainStep, ClientCall, WorkerStep, Finished
THEOREM Invariance == Spec => []Inv
  BY InitInv, NextInv, PTL DEF Spec

(* Every variable keeps its type: the program counters never leave their   *)
(* labels, the queue and the workers only ever hold submitted tasks.       *)
THEOREM TypeCorrect == Spec => []TypeOK
  BY Invariance, PTL DEF Inv

(* No two threads are between lock and unlock of the pool's mutex.         *)
THEOREM MutualExclusion == Spec => []MutexOK
  BY Invariance, PTL DEF Inv

(* No worker pops from an empty queue, whatever the other workers, add()   *)
(* and the destructor's unlocked write of stop do in between.              *)
THEOREM SafePop == Spec => []PopIsSafe
  BY Invariance, PTL DEF Inv

-----------------------------------------------------------------------------
(* What moving the head of a queue without repetitions leaves behind.      *)
LEMMA TailOfDistinct ==
  ASSUME NEW S, NEW q \in Seq(S), q # <<>>,
         \A i, j \in 1..Len(q) : q[i] = q[j] => i = j
  PROVE  /\ \A i, j \in 1..Len(Tail(q)) : Tail(q)[i] = Tail(q)[j] => i = j
         /\ \A t : (\E i \in 1..Len(Tail(q)) : Tail(q)[i] = t)
                     <=> (\E i \in 1..Len(q) : q[i] = t) /\ t # Head(q)
         /\ \E i \in 1..Len(q) : q[i] = Head(q)
<1> DEFINE All == {q[k] : k \in 1..Len(q)}
           Rest == {Tail(q)[k] : k \in 1..Len(Tail(q))}
<1>1. \A i, j \in 1..Len(Tail(q)) : Tail(q)[i] = Tail(q)[j] => i = j
  BY TailElements
<1>2. All = {Head(q)} \cup Rest /\ Head(q) \notin Rest
  BY TailElements
<1>3. \A t : t \in Rest <=> t \in All /\ t # Head(q)
  <2> HIDE DEF All, Rest
  <2> QED BY <1>2
<1>4. Head(q) \in All
  <2> HIDE DEF All, Rest
  <2> QED BY <1>2
<1>5. \A t : /\ t \in All <=> \E i \in 1..Len(q) : q[i] = t
             /\ t \in Rest <=> \E i \in 1..Len(Tail(q)) : Tail(q)[i] = t
  BY Zenon
<1> HIDE DEF All, Rest
<1> QED BY <1>1, <1>3, <1>4, <1>5, Zenon

(* And what a new element adds to it.                                      *)
LEMMA AppendToDistinct ==
  ASSUME NEW S, NEW q \in Seq(S), NEW e \in S,
         \A i, j \in 1..Len(q) : q[i] = q[j] => i = j,
         ~ \E i \in 1..Len(q) : q[i] = e
  PROVE  /\ \A i, j \in 1..Len(Append(q, e)) :
              Append(q, e)[i] = Append(q, e)[j] => i = j
         /\ \A t : (\E i \in 1..Len(Append(q, e)) : Append(q, e)[i] = t)
                     <=> (\E i \in 1..Len(q) : q[i] = t) \/ t = e
<1>1. /\ Len(Append(q, e)) = Len(q) + 1
      /\ Append(q, e)[Len(q) + 1] = e
      /\ \A i \in 1..Len(q) : Append(q, e)[i] = q[i]
      /\ Len(q) \in Nat
  OBVIOUS
<1>2. 1..(Len(q) + 1) = 1..Len(q) \cup {Len(q) + 1}
  BY <1>1
<1> QED BY <1>1, <1>2

(* Tasks are conserved, and a dead pool has finished with all of them.     *)
Conserved == TaskConservation /\ NothingAfterDestruction

LEMMA InitConserved == Init => Conserved
  BY ThreadPoolAssumption
  DEF ThreadPoolAssumption, Init, Conserved, TaskConservation,
      NothingAfterDestruction, InAdd, InQueue, InRun

LEMMA NextConserved == Inv /\ Conserved /\ [Next]_vars => Conserved'
<1> SUFFICES ASSUME Inv, Conserved, [Next]_vars PROVE Conserved'
  OBVIOUS
<1> USE ThreadPoolAssumption
    DEF ThreadPoolAssumption, Conserved, TaskConservation,
        NothingAfterDestruction, InAdd, InQueue, InRun,
        Inv, TypeOK, Hands, WorkerPC, MainPC, Future, Goto, Asleep
<1>1. CASE UNCHANGED <<jobs, held, adding, fut>> /\ mpc' # "dead"
  BY <1>1
<1>2. ASSUME NEW t \in Tasks, AddGetFuture(t) PROVE Conserved'
  BY <1>2 DEF AddGetFuture
<1>3. CASE AddPush
  <2>1. adding \in Tasks /\ ~InQueue(adding) /\ fut[adding] = "pending"
    BY <1>3 DEF AddPush
  <2>2. /\ \A i, j \in 1..Len(jobs') : jobs'[i] = jobs'[j] => i = j
        /\ \A t : InQueue(t)' <=> InQueue(t) \/ t = adding
    BY <1>3, <2>1, AppendToDistinct DEF AddPush
  <2> QED BY <1>3, <2>1, <2>2 DEF AddPush
<1>4. CASE JoinAll
  <2>1. \A t : ~InQueue(t)'
    BY <1>4 DEF JoinAll
  <2>2. adding' = NoTask /\ \A w \in Workers : held'[w] = NoTask
    BY <1>4 DEF JoinAll
  <2>3. \A t \in Tasks : fut'[t] # "pending"
    BY <1>4 DEF JoinAll
  <2>4. \A i, j \in 1..Len(jobs') : jobs'[i] = jobs'[j] => i = j
    BY <1>4 DEF JoinAll
  <2> QED BY <1>4, <2>1, <2>2, <2>3, <2>4 DEF JoinAll
<1>5. ASSUME NEW w \in Workers, Pop(w) PROVE Conserved'
  <2>1. /\ jobs \in Seq(Tasks) /\ jobs # <<>> /\ jobs' = Tail(jobs)
        /\ \A i, j \in 1..Len(jobs) : jobs[i] = jobs[j] => i = j
    BY <1>5 DEF Pop, PopIsSafe
  <2>2. /\ \A i, j \in 1..Len(jobs') : jobs'[i] = jobs'[j] => i = j
        /\ \A t : InQueue(t)' <=> InQueue(t) /\ t # Head(jobs)
        /\ InQueue(Head(jobs))
    <3> HIDE DEF Inv, Conserved
    <3>1. \A i, j \in 1..Len(jobs') : jobs'[i] = jobs'[j] => i = j
      BY ONLY <2>1, TailOfDistinct
    <3>2. \A t : (\E i \in 1..Len(Tail(jobs)) : Tail(jobs)[i] = t)
                  <=> (\E i \in 1..Len(jobs) : jobs[i] = t) /\ t # Head(jobs)
      BY ONLY <2>1, TailOfDistinct
    <3>3. \E i \in 1..Len(jobs) : jobs[i] = Head(jobs)
      BY ONLY <2>1, TailOfDistinct
    <3> QED BY ONLY <2>1, <3>1, <3>2, <3>3, Zenon DEF InQueue
  <2>3. Head(jobs) \in Tasks
    BY <2>1
  <2>4. /\ held' = [held EXCEPT ![w] = Head(jobs)] /\ held[w] = NoTask
        /\ UNCHANGED <<adding, fut, mpc>> /\ mpc # "dead"
    BY <1>5 DEF Pop
  <2>5. ~InRun(Head(jobs)) /\ ~InAdd(Head(jobs))
    BY <2>2, <2>3
  <2>6. \A t \in Tasks : InRun(t)' <=> InRun(t) \/ t = Head(jobs)
    BY <2>3, <2>4
  <2>7. \A u, v \in Workers : held'[u] = held'[v] /\ held'[u] # NoTask => u = v
    BY <2>4, <2>5
  <2> HIDE DEF InQueue, InRun
  <2> QED BY <2>2, <2>3, <2>4, <2>5, <2>6, <2>7
<1>6. ASSUME NEW w \in Workers, RunTask(w) PROVE Conserved'
  <2>1. held[w] \in Tasks /\ InRun(held[w])
    BY <1>6 DEF RunTask
  <2>2. \A t \in Tasks : InRun(t)' <=> InRun(t) /\ t # held[w]
    BY <1>6, <2>1 DEF RunTask
  <2> QED BY <1>6, <2>1, <2>2 DEF RunTask
<1>7. CASE mpc = "dead" /\ UNCHANGED vars
  BY <1>7 DEF vars
<1> QED
  BY <1>1, <1>2, <1>3, <1>4, <1>5, <1>6, <1>7
  DEF Next, MainStep, ClientCall, WorkerStep, Finished, vars, SpawnThread,
      Constructed, AddLock, AddNotifyOne, AddReturn, BeginDestructor, SetStop,
      NotifyAll, Lock, TestPredicate, Block, SpuriousWakeup, ReturnOnStop,
      Unlock

(* A submitted task is in one place, once, until it has run or its promise *)
(* is broken: none is lost and none runs twice.                            *)
THEOREM NoTaskLost == Spec => []TaskConservation
<1>1. Inv /\ Conserved /\ [Next]_vars => (Inv /\ Conserved)'
  BY NextInv, NextConserved
<1> QED BY <1>1, InitInv, InitConserved, PTL DEF Spec, Conserved

(* When the destructor has returned no thread is left that could touch the *)
(* pool and nobody waits for a future that will never be made ready.       *)
THEOREM CleanDestruction == Spec => []NothingAfterDestruction
<1>1. Inv /\ Conserved /\ [Next]_vars => (Inv /\ Conserved)'
  BY NextInv, NextConserved
<1> QED BY <1>1, InitInv, InitConserved, PTL DEF Spec, Conserved

-----------------------------------------------------------------------------
Running == {held[w] : w \in Workers} \ {NoTask}

(* Each worker holds one task, so a worker that holds none leaves room for *)
(* one more task to run.                                                   *)
LEMMA RoomForOneMore ==
  ASSUME TypeOK, TaskConservation, NEW w \in Workers, held[w] = NoTask
  PROVE  Cardinality(Running) < Cardinality(Workers)
<1> DEFINE Busy == {u \in Workers : held[u] # NoTask}
           f == [u \in Busy |-> held[u]]
<1>1. IsFiniteSet(Workers) /\ Cardinality(Workers) \in Nat
  BY ThreadPoolAssumption, FS_CardinalityType DEF ThreadPoolAssumption
<1>2. Busy \in SUBSET (Workers \ {w})
  OBVIOUS
<1>3. /\ IsFiniteSet(Workers \ {w})
      /\ Cardinality(Workers \ {w}) = Cardinality(Workers) - 1
  BY <1>1, FS_RemoveElement
<1>4. IsFiniteSet(Busy) /\ Cardinality(Busy) <= Cardinality(Workers \ {w})
  BY <1>2, <1>3, FS_Subset
<1>5. f \in Surjection(Busy, Running)
  <2>1. f \in [Busy -> Running] /\ \A t \in Running : \E u \in Busy : f[u] = t
    BY DEF Running
  <2> HIDE DEF f, Busy
  <2> QED BY <2>1, Fun_IsSurj
<1>6. IsFiniteSet(Running) /\ Cardinality(Running) <= Cardinality(Busy)
  <2> HIDE DEF f, Busy
  <2> QED BY <1>4, <1>5, FS_Surjection
<1>7. Cardinality(Busy) \in Nat /\ Cardinality(Running) \in Nat
  BY <1>4, <1>6, FS_CardinalityType
<1> QED BY <1>1, <1>3, <1>4, <1>6, <1>7

(* The service counts its running tasks as the rest of the proof does.     *)
LEMMA SameCardinality == \A S : Service!Cardinality(S) = Cardinality(S)
  BY DEF Service!Cardinality, Cardinality

(* The push is the submission, the pop the start, the end of j() the end   *)
(* of a task and the last join the end of the service.  Everything else -  *)
(* locks, predicates, sleep, notifications, the write of stop - is         *)
(* invisible to the user of the pool.                                      *)
LEMMA StepRefines ==
  ASSUME Inv, Conserved, [Next]_vars
  PROVE  [Service!Next]_(Service!svars)
<1> DEFINE ready == {t \in Tasks : fut[t] = "ready"}
           broken == {t \in Tasks : fut[t] = "broken"}
           running == {held[w] : w \in Workers} \ {NoTask}
<1>1. \A t : t \in Service!Queued <=> InQueue(t)
  BY DEF Service!Queued, InQueue
<1>2. TypeOK /\ Hands /\ PopIsSafe /\ TaskConservation
  BY DEF Inv, Conserved
<1> USE ThreadPoolAssumption DEF ThreadPoolAssumption
<1>3. CASE AddPush
  <2>1. /\ mpc = "add2" /\ jobs' = Append(jobs, adding) /\ UNCHANGED <<held, fut>>
    BY <1>3 DEF AddPush
  <2>2. PICK t \in Tasks : t = adding
    BY <1>2, <2>1 DEF TypeOK, Hands
  <2>3. InAdd(t) /\ fut[t] = "pending" /\ ~InQueue(t) /\ ~InRun(t)
    BY <1>2, <2>2 DEF TaskConservation, InAdd
  <2>4. Service!Fresh(t)
    BY <1>1, <2>3 DEF Service!Fresh, InRun
  <2>5. Service!Submit(t)
    BY <2>1, <2>2, <2>4 DEF Service!Submit
  <2> QED BY <2>5 DEF Service!Next
<1>4. ASSUME NEW w \in Workers, Pop(w) PROVE Service!Start
  <2>1. /\ wpc[w] = "awake" /\ ~stop /\ held' = [held EXCEPT ![w] = Head(jobs)]
        /\ jobs' = Tail(jobs) /\ UNCHANGED fut
    BY <1>4 DEF Pop
  <2>2. jobs # <<>> /\ held[w] = NoTask
    BY <1>2, <2>1 DEF PopIsSafe, Hands
  <2>3. Head(jobs) \in Tasks
    BY <1>2, <2>2 DEF TypeOK
  <2>4. Service!Cardinality(running) < Cardinality(Workers)
    <3>1. Cardinality(running) < Cardinality(Workers)
      BY ONLY <1>2, <2>2, RoomForOneMore, w \in Workers DEF Running
    <3> HIDE DEF running
    <3> QED BY <3>1, SameCardinality
  <2>5. held'[w] = Head(jobs) /\ \A u \in Workers : u # w => held'[u] = held[u]
    BY <1>2, <2>1 DEF TypeOK
  <2>6. running' = running \cup {Head(jobs)}
    BY <2>2, <2>3, <2>5
  <2>7. ready' = ready /\ broken' = broken
    BY <2>1
  <2> HIDE DEF running, ready, broken
  <2> QED BY <2>1, <2>2, <2>4, <2>6, <2>7 DEF Service!Start, running, ready, broken
<1>5. ASSUME NEW w \in Workers, RunTask(w)
      PROVE  \E t \in Tasks : Service!Finish(t)
  <2>1. /\ wpc[w] = "run" /\ fut' = [fut EXCEPT ![held[w]] = "ready"]
        /\ held' = [held EXCEPT ![w] = NoTask] /\ jobs' = jobs
    BY <1>5 DEF RunTask
  <2>2. PICK t \in Tasks : held[w] = t /\ t # NoTask
    BY <1>2, <2>1 DEF TypeOK, Hands
  <2>3. held'[w] = NoTask /\ \A u \in Workers : u # w => held'[u] = held[u]
    BY <1>2, <2>1 DEF TypeOK
  <2>4. \A u \in Workers : u # w => held[u] # t
    BY <1>2, <2>2 DEF TaskConservation
  <2>5. running' = running \ {t} /\ t \in running
    BY <2>2, <2>3, <2>4
  <2>6. fut[t] = "pending"
    BY <1>2, <2>2 DEF TaskConservation, InRun
  <2>7. fut'[t] = "ready" /\ \A u \in Tasks : u # t => fut'[u] = fut[u]
    BY <1>2, <2>1, <2>2 DEF TypeOK
  <2>8. ready' = ready \cup {t} /\ broken' = broken
    BY <2>2, <2>6, <2>7
  <2> HIDE DEF running, ready, broken
  <2>9. Service!Finish(t)
    BY <2>1, <2>5, <2>8 DEF Service!Finish, running, ready, broken
  <2> QED BY <2>9
<1>6. CASE JoinAll
  <2>1. /\ mpc = "join" /\ (\A w \in Workers : wpc[w] = "done") /\ jobs' = <<>>
        /\ fut' = [t \in Tasks |-> IF fut[t] = "pending" THEN "broken" ELSE fut[t]]
        /\ held' = held
    BY <1>6 DEF JoinAll
  <2>2. adding = NoTask /\ \A w \in Workers : held[w] = NoTask
    BY <1>2, <2>1 DEF Hands
  <2>3. running = {} /\ running' = running
    BY <2>1, <2>2
  <2>4. \A t \in Tasks : ~InAdd(t) /\ ~InRun(t)
    BY <2>2 DEF InAdd, InRun
  <2>5. \A t \in Tasks : fut[t] = "pending" <=> t \in Service!Queued
    BY <1>1, <1>2, <2>4 DEF TaskConservation
  <2>6. Service!Queued \subseteq Tasks
    BY <1>2 DEF Service!Queued, TypeOK
  <2>7. broken' = broken \cup Service!Queued
    BY <2>1, <2>5, <2>6
  <2>8. ready' = ready
    BY <2>1
  <2> HIDE DEF running, ready, broken
  <2>9. Service!Close
    BY <2>1, <2>3, <2>7, <2>8 DEF Service!Close, running, ready, broken
  <2> QED BY <2>9 DEF Service!Next
<1>7. ASSUME NEW t \in Tasks, AddGetFuture(t) PROVE UNCHANGED Service!svars
  <2>1. fut[t] = "none" /\ fut' = [fut EXCEPT ![t] = "pending"] /\ UNCHANGED <<jobs, held>>
    BY <1>7 DEF AddGetFuture
  <2>2. fut'[t] = "pending" /\ \A u \in Tasks : u # t => fut'[u] = fut[u]
    BY <1>2, <2>1 DEF TypeOK
  <2>3. ready' = ready /\ broken' = broken /\ running' = running
    BY <2>1, <2>2
  <2> QED BY <2>1, <2>3 DEF Service!svars
<1>8. CASE UNCHANGED <<jobs, held, fut>>
  BY <1>8 DEF Service!svars
<1> QED
  <2>1. ASSUME NEW w \in Workers, RunTask(w) PROVE Service!Next
    BY <1>5, <2>1 DEF Service!Next
  <2>2. ASSUME NEW w \in Workers, Pop(w) PROVE Service!Next
    BY <1>4, <2>2 DEF Service!Next
  <2> QED
    BY <1>3, <2>1, <2>2, <1>6, <1>7, <1>8
    DEF Next, MainStep, ClientCall, WorkerStep, Finished, vars, SpawnThread,
        Constructed, AddLock, AddNotifyOne, AddReturn, BeginDestructor, SetStop,
        NotifyAll, Lock, TestPredicate, Block, SpuriousWakeup, ReturnOnStop,
        Unlock

(* For any number of threads the pool is the task service its users see:   *)
(* tasks start in the order of their submission, at most one per thread at *)
(* a time, each runs once, and only queued tasks are dropped at the end.   *)
THEOREM ServiceRefinement == Spec => ImplementsTaskService
<1>1. Init => Service!Init
  BY DEF Init, Service!Init
<1>2. Inv /\ Conserved /\ [Next]_vars => [Service!Next]_(Service!svars)
  BY StepRefines
<1> QED
  BY <1>1, <1>2, InitInv, NextInv, InitConserved, NextConserved, PTL
  DEF Spec, Service!Spec, ImplementsTaskService
=============================================================================
