----------------------------- MODULE ThreadPoll -----------------------------
(***************************************************************************)
(* utils/ThreadPoll.{h,cpp}: a fixed set of worker threads, one mutex, one *)
(* condition variable and one bounded queue.                               *)
(*                                                                         *)
(* A critical section whose every access is protected by mutex_ is one     *)
(* action.  The exception is the execution of a task: the worker's         *)
(* unique_lock is still in scope during the call task(), so mutex_ stays   *)
(* taken from Take to Finish.                                              *)
(*                                                                         *)
(* The pool's owner is the main thread: it constructs the pool, is the     *)
(* only caller of enqueueTask (in HylChan::loop) and destroys the pool     *)
(* after the loop has returned.  Tasks are numbered in submission order.   *)
(***************************************************************************)
EXTENDS Naturals, Sequences

CONSTANTS
  Worker,           \* the pool's threads
  Free,             \* value of mutex_ when nobody holds it
  maxTasks_,        \* capacity of taskQueue_
  MaxSubmissions    \* bound: calls of enqueueTask in a behaviour

ASSUME ThreadPollAssumption ==
  /\ Worker # {}
  /\ Free \notin Worker
  /\ maxTasks_ \in Nat \ {0}
  /\ MaxSubmissions \in Nat

VARIABLES
  state_,      \* "kNone", "kStart", "kClose"
  mutex_,      \* the worker executing a task with mutex_ held, or Free
  taskQueue_,  \* accepted tasks, oldest first
  worker,      \* where each worker thread is
  task,        \* each worker's local variable task, 0 when it has none
  owner,       \* where the main thread is
  submitted    \* number of calls of enqueueTask so far

vars == <<state_, mutex_, taskQueue_, worker, task, owner, submitted>>

Task == 1 .. MaxSubmissions
NoTask == 0

WorkerState == {"unborn", "ready", "waiting", "running", "exited"}
OwnerState == {"constructing", "idle", "notify", "notifyAll", "joining", "destroyed"}

TypeOK ==
  /\ state_ \in {"kNone", "kStart", "kClose"}
  /\ mutex_ \in Worker \cup {Free}
  /\ taskQueue_ \in Seq(Task)
  /\ Len(taskQueue_) <= maxTasks_
  /\ worker \in [Worker -> WorkerState]
  /\ task \in [Worker -> Task \cup {NoTask}]
  /\ owner \in OwnerState
  /\ submitted \in 0 .. MaxSubmissions

Init ==
  /\ state_ = "kNone"
  /\ mutex_ = Free
  /\ taskQueue_ = <<>>
  /\ worker = [w \in Worker |-> "unborn"]
  /\ task = [w \in Worker |-> NoTask]
  /\ owner = "constructing"
  /\ submitted = 0

-----------------------------------------------------------------------------
(* The main thread.                                                        *)

(* threads_.emplace_back: the new thread starts to run at once, while      *)
(* state_ is still kNone.                                                  *)
Spawn(w) ==
  /\ owner = "constructing"
  /\ worker[w] = "unborn"
  /\ worker' = [worker EXCEPT ![w] = "ready"]
  /\ UNCHANGED <<state_, mutex_, taskQueue_, task, owner, submitted>>

(* The last statement of the constructor; mutex_ is not taken.             *)
Started ==
  /\ owner = "constructing"
  /\ \A w \in Worker : worker[w] # "unborn"
  /\ state_' = "kStart"
  /\ owner' = "idle"
  /\ UNCHANGED <<mutex_, taskQueue_, worker, task, submitted>>

HasRoomOffByOne == Len(taskQueue_) <= maxTasks_
HasRoom == Len(taskQueue_) < maxTasks_

EnqueueTaskSilently ==
  /\ owner = "idle" /\ mutex_ = Free /\ submitted < MaxSubmissions
  /\ submitted' = submitted + 1
  /\ taskQueue_' = IF HasRoom THEN Append(taskQueue_, submitted + 1) ELSE taskQueue_
  /\ UNCHANGED <<state_, mutex_, worker, task, owner>>

(* enqueueTask up to the end of the block that holds mutex_.  A full queue *)
(* drops the task and returns false, which HylChan::loop ignores.          *)
EnqueueTask ==
  /\ owner = "idle"
  /\ mutex_ = Free
  /\ submitted < MaxSubmissions
  /\ submitted' = submitted + 1
  /\ taskQueue_' = IF HasRoom THEN Append(taskQueue_, submitted + 1) ELSE taskQueue_
  /\ owner' = "notify"
  /\ UNCHANGED <<state_, mutex_, worker, task>>

(* cv.notify_one(), after mutex_ was released.                             *)
NotifyOne ==
  /\ owner = "notify"
  /\ owner' = "idle"
  /\ \/ \E w \in Worker :
          /\ worker[w] = "waiting"
          /\ worker' = [worker EXCEPT ![w] = "ready"]
     \/ /\ \A w \in Worker : worker[w] # "waiting"
        /\ UNCHANGED worker
  /\ UNCHANGED <<state_, mutex_, taskQueue_, task, submitted>>

(* The destructor's block that holds mutex_.                               *)
SetClose ==
  /\ owner = "idle"
  /\ mutex_ = Free
  /\ state_' = "kClose"
  /\ owner' = "notifyAll"
  /\ UNCHANGED <<mutex_, taskQueue_, worker, task, submitted>>

NotifyAllAsOne ==
  /\ owner = "notifyAll"
  /\ \/ (\A w \in Worker : worker[w] # "waiting") /\ UNCHANGED worker
     \/ \E w \in Worker : worker[w] = "waiting" /\ worker' = [worker EXCEPT ![w] = "ready"]
  /\ owner' = "joining"
  /\ UNCHANGED <<state_, mutex_, taskQueue_, task, submitted>>

(* cv.notify_all()                                                         *)
NotifyAll ==
  /\ owner = "notifyAll"
  /\ worker' = [w \in Worker |-> IF worker[w] = "waiting" THEN "ready" ELSE worker[w]]
  /\ owner' = "joining"
  /\ UNCHANGED <<state_, mutex_, taskQueue_, task, submitted>>

(* The last join() has returned and the members are destroyed, the tasks   *)
(* nobody executed among them.                                             *)
Joined ==
  /\ owner = "joining"
  /\ \A w \in Worker : worker[w] = "exited"
  /\ owner' = "destroyed"
  /\ taskQueue_' = <<>>
  /\ UNCHANGED <<state_, mutex_, worker, task, submitted>>

-----------------------------------------------------------------------------
(* A worker: one turn of the loop in the thread's function.  Each of the   *)
(* first three actions locks mutex_ and evaluates the predicate of         *)
(* cv.wait, on the first entry as after a wake-up.                         *)

WaitPredicate == taskQueue_ # <<>> \/ state_ = "kClose"

Sleep(w) ==
  /\ worker[w] = "ready"
  /\ mutex_ = Free
  /\ ~WaitPredicate
  /\ worker' = [worker EXCEPT ![w] = "waiting"]
  /\ UNCHANGED <<state_, mutex_, taskQueue_, task, owner, submitted>>

ExitUnlessStarted(w) ==
  /\ worker[w] = "ready"
  /\ mutex_ = Free
  /\ state_ # "kStart"
  /\ worker' = [worker EXCEPT ![w] = "exited"]
  /\ UNCHANGED <<state_, mutex_, taskQueue_, task, owner, submitted>>

Exit(w) ==
  /\ worker[w] = "ready"
  /\ mutex_ = Free
  /\ WaitPredicate
  /\ state_ # "kStart"
  /\ worker' = [worker EXCEPT ![w] = "exited"]
  /\ UNCHANGED <<state_, mutex_, taskQueue_, task, owner, submitted>>

TakeAndUnlock(w) ==
  /\ worker[w] = "ready" /\ mutex_ = Free /\ WaitPredicate /\ state_ = "kStart"
  /\ task' = [task EXCEPT ![w] = Head(taskQueue_)]
  /\ taskQueue_' = Tail(taskQueue_)
  /\ worker' = [worker EXCEPT ![w] = "running"]
  /\ UNCHANGED <<state_, mutex_, owner, submitted>>

Take(w) ==
  /\ worker[w] = "ready"
  /\ mutex_ = Free
  /\ WaitPredicate
  /\ state_ = "kStart"
  /\ task' = [task EXCEPT ![w] = Head(taskQueue_)]
  /\ taskQueue_' = Tail(taskQueue_)
  /\ mutex_' = w
  /\ worker' = [worker EXCEPT ![w] = "running"]
  /\ UNCHANGED <<state_, owner, submitted>>

(* task() has returned; task and uniqueLock go out of scope.               *)
Finish(w) ==
  /\ worker[w] = "running"
  /\ task' = [task EXCEPT ![w] = NoTask]
  /\ mutex_' = Free
  /\ worker' = [worker EXCEPT ![w] = "ready"]
  /\ UNCHANGED <<state_, taskQueue_, owner, submitted>>

(* A condition variable may wake a thread nobody notified.                 *)
SpuriousWake(w) ==
  /\ worker[w] = "waiting"
  /\ worker' = [worker EXCEPT ![w] = "ready"]
  /\ UNCHANGED <<state_, mutex_, taskQueue_, task, owner, submitted>>

-----------------------------------------------------------------------------

Acquire(w) == Sleep(w) \/ Exit(w) \/ Take(w)

Terminated == owner = "destroyed" /\ UNCHANGED vars

Next ==
  \/ Started \/ EnqueueTask \/ NotifyOne \/ SetClose \/ NotifyAll \/ Joined
  \/ \E w \in Worker :
       \/ Spawn(w) \/ Sleep(w) \/ Exit(w) \/ Take(w) \/ Finish(w) \/ SpuriousWake(w)
  \/ Terminated

(* The main thread keeps running except that it need not call enqueueTask  *)
(* or the destructor; a free mutex is eventually taken by some worker that *)
(* waits for it; a task terminates.                                        *)
Fairness ==
  /\ WF_vars(Started) /\ WF_vars(NotifyOne) /\ WF_vars(NotifyAll) /\ WF_vars(Joined)
  /\ \A w \in Worker : WF_vars(Spawn(w)) /\ WF_vars(Finish(w))
  /\ WF_vars(\E w \in Worker : Acquire(w))

SafetySpec == Init /\ [][Next]_vars

Spec == SafetySpec /\ Fairness

-----------------------------------------------------------------------------
(* The pool seen by its client.                                            *)

Executor == INSTANCE SerialExecutor WITH
              Idle    <- NoTask,
              pending <- taskQueue_,
              active  <- IF mutex_ = Free THEN NoTask ELSE task[mutex_],
              phase   <- state_

(* The pool is a serial first-in first-out executor: no interleaving of    *)
(* lock, wait, notify and close in ThreadPoll.{h,cpp} lets two tasks       *)
(* overlap, run out of order or run twice, and nothing is added to the     *)
(* queue while a task runs.                                                *)
ImplementsSerialExecutor == Executor!SafetySpec

(* Every accepted task is executed, unless the pool is closed first: the   *)
(* notifications of enqueueTask reach enough workers (ThreadPoll.h:40).    *)
AcceptedTasksRun ==
  \A t \in Task :
    (\E i \in DOMAIN taskQueue_ : taskQueue_[i] = t)
      ~> (state_ = "kClose" \/ \E w \in Worker : task[w] = t)

(* No lost wake-up: while the pool is open and a task is queued, some      *)
(* worker is awake or the main thread is about to notify.  enqueueTask     *)
(* notifies after it has released mutex_ (ThreadPoll.h:32-40).             *)
NoLostWakeup ==
  (state_ = "kStart" /\ taskQueue_ # <<>>)
    => (owner = "notify" \/ \E w \in Worker : worker[w] \in {"ready", "running"})

(* No worker goes to sleep for good across the destructor: once notify_all *)
(* has been issued nobody is in cv.wait (ThreadPoll.cpp:8-12, 26).         *)
NoSleeperLeft ==
  (state_ = "kClose" /\ owner # "notifyAll")
    => \A w \in Worker : worker[w] # "waiting"

(* No worker leaves its loop before the destructor asks it to, although    *)
(* the constructor starts the threads while state_ is still kNone and sets *)
(* kStart without the mutex (ThreadPoll.cpp:22-36).                        *)
NoEarlyExit ==
  \A w \in Worker : worker[w] = "exited" => state_ = "kClose"

(* The destructor returns: every join() returns, whatever the workers were *)
(* doing when state_ became kClose.                                        *)
DestructorReturns == (state_ = "kClose") ~> (owner = "destroyed")

=============================================================================
