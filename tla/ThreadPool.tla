----------------------------- MODULE ThreadPool -----------------------------
(***************************************************************************)
(* thread_pool<R> of ldr/tpool.h: a fixed set of worker threads, a queue   *)
(* of packaged tasks, one mutex `m', one condition variable `cv' and the   *)
(* flag `stop'.  One owner thread (Main) builds the pool, submits tasks    *)
(* with add, collects their futures and finally runs the destructor.       *)
(*                                                                         *)
(* Every access to shared state is a step of its own: taking and giving    *)
(* back the mutex, evaluating the predicate of cv.wait, going to sleep,    *)
(* being notified, the two statements of the destructor.  The destructor   *)
(* writes `stop' WITHOUT holding the mutex, as the code does.              *)
(***************************************************************************)
EXTENDS Naturals, Sequences, FiniteSets

CONSTANTS
  Workers,   \* the threads of m_threads
  Tasks,     \* the packaged tasks the owner may submit, each at most once
  Main,      \* the owner thread
  NoThread,  \* the mutex is free
  NoTask     \* a worker holds no task

ASSUME ThreadPoolAssumption ==
  /\ Main \notin Workers
  /\ NoThread \notin Workers \cup {Main}
  /\ NoTask \notin Tasks
  /\ IsFiniteSet(Workers)

VARIABLES
  jobs,    \* std::queue<job> jobs
  m,       \* the thread that holds the mutex, or NoThread
  stop,    \* bool stop
  wpc,     \* program counter of every worker
  held,    \* the task a worker has popped and not finished
  mpc,     \* program counter of the owner
  adding,  \* the task inside add()
  fut      \* shared state of every task's future

vars == <<jobs, m, stop, wpc, held, mpc, adding, fut>>

(* unborn   not yet created by the constructor                             *)
(* lock     at l.lock(), or woken inside wait and re-acquiring the mutex   *)
(* test     holds the mutex, about to evaluate the predicate of wait       *)
(* block    predicate was false: about to release the mutex and sleep      *)
(* asleep   blocked on cv                                                  *)
(* awake    wait has returned: about to read stop and to pop               *)
(* unlock   has popped a task, still holds the mutex                       *)
(* run      executing j()                                                  *)
(* done     thread_func has returned                                       *)
WorkerPC == {"unborn", "lock", "test", "block", "asleep", "awake",
             "unlock", "run", "done"}

(* ctor: starting threads; idle: between calls; add1..add4: inside add();  *)
(* dtor1: stop not yet written; dtor2: notify_all not yet called;          *)
(* join: joining the threads; dead: the destructor has returned            *)
MainPC == {"ctor", "idle", "add1", "add2", "add3", "add4",
           "dtor1", "dtor2", "join", "dead"}

Future == {"none", "pending", "ready", "broken"}

Asleep == {w \in Workers : wpc[w] = "asleep"}

Goto(w, label) == wpc' = [wpc EXCEPT ![w] = label]

-----------------------------------------------------------------------------
Init ==
  /\ jobs = <<>>
  /\ m = NoThread
  /\ stop = FALSE
  /\ wpc = [w \in Workers |-> "unborn"]
  /\ held = [w \in Workers |-> NoTask]
  /\ mpc = "ctor"
  /\ adding = NoTask
  /\ fut = [t \in Tasks |-> "none"]

(* The constructor starts the threads one by one; a started thread runs    *)
(* while the constructor is still starting the others.                     *)
SpawnThread(w) ==
  /\ mpc = "ctor"
  /\ wpc[w] = "unborn"
  /\ Goto(w, "lock")
  /\ UNCHANGED <<jobs, m, stop, held, mpc, adding, fut>>

Constructed ==
  /\ mpc = "ctor"
  /\ \A w \in Workers : wpc[w] # "unborn"
  /\ mpc' = "idle"
  /\ UNCHANGED <<jobs, m, stop, wpc, held, adding, fut>>

-----------------------------------------------------------------------------
(* add(job &j): get_future, lock, push, notify_one, unlock on return.      *)
AddGetFuture(t) ==
  /\ mpc = "idle"
  /\ fut[t] = "none"
  /\ fut' = [fut EXCEPT ![t] = "pending"]
  /\ adding' = t
  /\ mpc' = "add1"
  /\ UNCHANGED <<jobs, m, stop, wpc, held>>

AddLock ==
  /\ mpc = "add1"
  /\ m = NoThread
  /\ m' = Main
  /\ mpc' = "add2"
  /\ UNCHANGED <<jobs, stop, wpc, held, adding, fut>>

AddPush ==
  /\ mpc = "add2"
  /\ jobs' = Append(jobs, adding)
  /\ adding' = NoTask
  /\ mpc' = "add3"
  /\ UNCHANGED <<m, stop, wpc, held, fut>>

(* Mutant: nobody is notified.                                             *)
AddNotifyOne_Silent ==
  /\ mpc = "add3"
  /\ mpc' = "add4"
  /\ UNCHANGED <<jobs, m, stop, wpc, held, adding, fut>>

(* cv.notify_one() under the mutex: wakes one sleeper if there is one.     *)
AddNotifyOne ==
  /\ mpc = "add3"
  /\ \/ Asleep = {} /\ UNCHANGED wpc
     \/ \E w \in Asleep : Goto(w, "lock")
  /\ mpc' = "add4"
  /\ UNCHANGED <<jobs, m, stop, held, adding, fut>>

AddReturn ==
  /\ mpc = "add4"
  /\ m' = NoThread
  /\ mpc' = "idle"
  /\ UNCHANGED <<jobs, stop, wpc, held, adding, fut>>

-----------------------------------------------------------------------------
(* ~thread_pool(): stop = true; cv.notify_all(); join every thread; then   *)
(* the members die, and a task still queued breaks its promise.            *)
BeginDestructor ==
  /\ mpc = "idle"
  /\ mpc' = "dtor1"
  /\ UNCHANGED <<jobs, m, stop, wpc, held, adding, fut>>

SetStop ==
  /\ mpc = "dtor1"
  /\ stop' = TRUE
  /\ mpc' = "dtor2"
  /\ UNCHANGED <<jobs, m, wpc, held, adding, fut>>

NotifyAll ==
  /\ mpc = "dtor2"
  /\ wpc' = [w \in Workers |-> IF wpc[w] = "asleep" THEN "lock" ELSE wpc[w]]
  /\ mpc' = "join"
  /\ UNCHANGED <<jobs, m, stop, held, adding, fut>>

(* Mutant: the threads are detached, not joined.                           *)
JoinAll_Detached ==
  /\ mpc = "join"
  /\ mpc' = "dead"
  /\ jobs' = <<>>
  /\ fut' = [t \in Tasks |-> IF fut[t] = "pending" THEN "broken" ELSE fut[t]]
  /\ UNCHANGED <<m, stop, wpc, held, adding>>

JoinAll ==
  /\ mpc = "join"
  /\ \A w \in Workers : wpc[w] = "done"
  /\ mpc' = "dead"
  /\ jobs' = <<>>
  /\ fut' = [t \in Tasks |-> IF fut[t] = "pending" THEN "broken" ELSE fut[t]]
  /\ UNCHANGED <<m, stop, wpc, held, adding>>

-----------------------------------------------------------------------------
(* thread_func: the loop of every worker.                                  *)
Lock(w) ==
  /\ wpc[w] = "lock"
  /\ m = NoThread
  /\ m' = w
  /\ Goto(w, "test")
  /\ UNCHANGED <<jobs, stop, held, mpc, adding, fut>>

(* Mutant: wait without a predicate.                                       *)
TestPredicate_None(w) ==
  /\ wpc[w] = "test"
  /\ Goto(w, "awake")
  /\ UNCHANGED <<jobs, m, stop, held, mpc, adding, fut>>

(* Mutant: the predicate does not look at stop.                            *)
TestPredicate_IgnoresStop(w) ==
  /\ wpc[w] = "test"
  /\ Goto(w, IF jobs # <<>> THEN "awake" ELSE "block")
  /\ UNCHANGED <<jobs, m, stop, held, mpc, adding, fut>>

(* the predicate of cv.wait: stop || !jobs.empty()                         *)
TestPredicate(w) ==
  /\ wpc[w] = "test"
  /\ Goto(w, IF stop \/ jobs # <<>> THEN "awake" ELSE "block")
  /\ UNCHANGED <<jobs, m, stop, held, mpc, adding, fut>>

(* cv releases the mutex and blocks in one atomic step.                    *)
Block(w) ==
  /\ wpc[w] = "block"
  /\ m' = NoThread
  /\ Goto(w, "asleep")
  /\ UNCHANGED <<jobs, stop, held, mpc, adding, fut>>

(* A condition variable may wake a thread without a notification.          *)
SpuriousWakeup(w) ==
  /\ wpc[w] = "asleep"
  /\ Goto(w, "lock")
  /\ UNCHANGED <<jobs, m, stop, held, mpc, adding, fut>>

(* if ( pData->stop ) return: the destructor of unique_lock unlocks.       *)
ReturnOnStop(w) ==
  /\ wpc[w] = "awake"
  /\ stop
  /\ m' = NoThread
  /\ Goto(w, "done")
  /\ UNCHANGED <<jobs, stop, held, mpc, adding, fut>>

(* Mutant: front() without pop().                                          *)
Pop_FrontOnly(w) ==
  /\ wpc[w] = "awake"
  /\ ~stop
  /\ held' = [held EXCEPT ![w] = Head(jobs)]
  /\ Goto(w, "unlock")
  /\ UNCHANGED <<jobs, m, stop, mpc, adding, fut>>

(* Mutant: back() and pop_back(), the newest task first.                   *)
Pop_Newest(w) ==
  /\ wpc[w] = "awake"
  /\ ~stop
  /\ held' = [held EXCEPT ![w] = jobs[Len(jobs)]]
  /\ jobs' = SubSeq(jobs, 1, Len(jobs) - 1)
  /\ Goto(w, "unlock")
  /\ UNCHANGED <<m, stop, mpc, adding, fut>>

Pop(w) ==
  /\ wpc[w] = "awake"
  /\ ~stop
  /\ held' = [held EXCEPT ![w] = Head(jobs)]
  /\ jobs' = Tail(jobs)
  /\ Goto(w, "unlock")
  /\ UNCHANGED <<m, stop, mpc, adding, fut>>

Unlock(w) ==
  /\ wpc[w] = "unlock"
  /\ m' = NoThread
  /\ Goto(w, "run")
  /\ UNCHANGED <<jobs, stop, held, mpc, adding, fut>>

(* j(): the packaged task runs and makes its future ready.                 *)
RunTask(w) ==
  /\ wpc[w] = "run"
  /\ fut' = [fut EXCEPT ![held[w]] = "ready"]
  /\ held' = [held EXCEPT ![w] = NoTask]
  /\ Goto(w, "lock")
  /\ UNCHANGED <<jobs, m, stop, mpc, adding>>

-----------------------------------------------------------------------------
WorkerStep(w) ==
  \/ Lock(w)
  \/ TestPredicate(w)
  \/ Block(w)
  \/ ReturnOnStop(w)
  \/ Pop(w)
  \/ Unlock(w)
  \/ RunTask(w)

MainStep ==
  \/ \E w \in Workers : SpawnThread(w)
  \/ Constructed
  \/ AddLock
  \/ AddPush
  \/ AddNotifyOne
  \/ AddReturn
  \/ SetStop
  \/ NotifyAll
  \/ JoinAll

(* What the client of the pool decides to do next.                         *)
ClientCall ==
  \/ \E t \in Tasks : AddGetFuture(t)
  \/ BeginDestructor

(* The owner has destroyed the pool: nothing is left to do.                *)
Finished == mpc = "dead" /\ UNCHANGED vars

Next ==
  \/ MainStep
  \/ ClientCall
  \/ \E w \in Workers : WorkerStep(w) \/ SpuriousWakeup(w)
  \/ Finished

(* A thread that can take a step takes one.  Nothing is assumed of which   *)
(* contender gets the mutex, nor of the client's calls; spurious wakeups,  *)
(* which no system produces without end, eventually cease.                 *)
Spec ==
  /\ Init
  /\ [][Next]_vars
  /\ WF_vars(MainStep)
  /\ \A w \in Workers : WF_vars(WorkerStep(w))
  /\ <>[][\A w \in Workers : ~SpuriousWakeup(w)]_vars

-----------------------------------------------------------------------------
TypeOK ==
  /\ jobs \in Seq(Tasks)
  /\ m \in Workers \cup {Main, NoThread}
  /\ stop \in BOOLEAN
  /\ wpc \in [Workers -> WorkerPC]
  /\ held \in [Workers -> Tasks \cup {NoTask}]
  /\ mpc \in MainPC
  /\ adding \in Tasks \cup {NoTask}
  /\ fut \in [Tasks -> Future]

(* The critical section: the labels at which a thread owns the mutex.      *)
Owns(w) == wpc[w] \in {"test", "block", "awake", "unlock"}
MainOwns == mpc \in {"add2", "add3", "add4"}

(* The owner of the mutex and the program counters agree, so two threads   *)
(* are never together between lock and unlock of ldr/tpool.h.              *)
MutexOK ==
  /\ \A w \in Workers : Owns(w) <=> m = w
  /\ MainOwns <=> m = Main

(* A worker that waits for the queue to have work never pops from an empty *)
(* queue: between the predicate and the pop nobody else can take the task  *)
(* (std::queue::front on an empty queue is undefined behaviour).           *)
PopIsSafe ==
  \A w \in Workers : wpc[w] = "awake" /\ ~stop => jobs # <<>>

(* The places a submitted task can be.                                     *)
InAdd(t)   == adding = t
InQueue(t) == \E i \in 1..Len(jobs) : jobs[i] = t
InRun(t)   == \E w \in Workers : held[w] = t

(* No task is lost and none is run twice: a task whose future is pending   *)
(* is in exactly one of add(), the queue, one worker - once - and a task   *)
(* whose future is not pending is in none of them.                         *)
TaskConservation ==
  /\ \A t \in Tasks : fut[t] = "pending" <=> InAdd(t) \/ InQueue(t) \/ InRun(t)
  /\ \A i, j \in 1..Len(jobs) : jobs[i] = jobs[j] => i = j
  /\ \A u, w \in Workers : held[u] = held[w] /\ held[u] # NoTask => u = w
  /\ \A t \in Tasks : InQueue(t) => ~InRun(t) /\ ~InAdd(t)
  /\ \A t \in Tasks : InRun(t) => ~InAdd(t)

(* The destructor returns only when no worker can touch the pool again,    *)
(* and then no future is left waiting: it is ready, broken or never made.  *)
NothingAfterDestruction ==
  mpc = "dead" => /\ \A w \in Workers : wpc[w] = "done" /\ held[w] = NoTask
                  /\ \A t \in Tasks : fut[t] # "pending"

(* The wakeup that add() sends is never lost: it pushes and notifies under *)
(* the mutex, so a submitted task is executed unless the pool is stopped.  *)
SubmittedTaskRuns ==
  \A t \in Tasks : fut[t] = "pending" ~> fut[t] = "ready" \/ stop

(* The destructor writes stop and notifies without the mutex, so a worker  *)
(* that has just found the predicate false goes to sleep after the last    *)
(* notification and join never returns.  What the code does guarantee: if  *)
(* when joining starts no worker is asleep or on its way to sleep, then    *)
(* the destructor returns.                                                 *)
DestructorReturns ==
  (mpc = "join" /\ \A w \in Workers : wpc[w] \notin {"block", "asleep"})
    ~> mpc = "dead"

-----------------------------------------------------------------------------
(* The task that add() has registered but not yet queued is still unknown  *)
(* to the user of the pool; a task is running while a worker holds it.     *)
Service == INSTANCE TaskService WITH
  Width    <- Cardinality(Workers),
  queue    <- jobs,
  running  <- {held[w] : w \in Workers} \ {NoTask},
  finished <- {t \in Tasks : fut[t] = "ready"},
  dropped  <- {t \in Tasks : fut[t] = "broken"}

(* The pool of threads, mutex and condition variable implements the simple *)
(* task service: ordered start, bounded parallelism, each task run once.   *)
ImplementsTaskService == Service!Spec
=============================================================================
