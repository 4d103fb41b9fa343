-------------------------- MODULE ThreadPollProofs --------------------------
(***************************************************************************)
(* Theorems about ThreadPoll, for every set of workers, capacity and       *)
(* number of submissions.                                                  *)
(***************************************************************************)
EXTENDS ThreadPoll, TLAPS

(* mutex_ is held exactly by the worker that is executing a task, and only *)
(* that worker has a task.                                                 *)
MutexInv ==
  \A w \in Worker :
    /\ worker[w] = "running" <=> mutex_ = w
    /\ task[w] # NoTask <=> worker[w] = "running"

(* How far the main thread has come determines state_, and bounds where    *)
(* the workers can be.                                                     *)
OwnerInv ==
  /\ owner = "constructing" <=> state_ = "kNone"
  /\ owner \in {"notifyAll", "joining", "destroyed"} <=> state_ = "kClose"
  /\ owner = "constructing" => taskQueue_ = <<>>
  /\ owner # "constructing" => \A w \in Worker : worker[w] # "unborn"
  /\ owner = "destroyed" => \A w \in Worker : worker[w] = "exited"

IInv ==
  /\ TypeOK
  /\ MutexInv
  /\ OwnerInv
  /\ NoEarlyExit
  /\ NoLostWakeup
  /\ NoSleeperLeft

-----------------------------------------------------------------------------

(* The queue after a push or a pop is again a queue of tasks.              *)
LEMMA QueueTypes ==
  ASSUME NEW T, NEW q \in Seq(T)
  PROVE  /\ \A t \in T : /\ Append(q, t) \in Seq(T)
                         /\ Len(Append(q, t)) = Len(q) + 1
                         /\ Append(q, t) # <<>>
         /\ q # <<>> => /\ Head(q) \in T
                        /\ Tail(q) \in Seq(T)
                        /\ Len(Tail(q)) = Len(q) - 1
         /\ Len(q) \in Nat
OBVIOUS

LEMMA InitInv == Init => IInv
BY ThreadPollAssumption
   DEF Init, IInv, TypeOK, MutexInv, OwnerInv, NoEarlyExit, NoLostWakeup,
       NoSleeperLeft, WorkerState, OwnerState, Task, NoTask

(* TypeOK is preserved.                                                    *)
LEMMA TypeStep == IInv /\ [Next]_vars => TypeOK'
<1> SUFFICES ASSUME IInv, [Next]_vars
             PROVE  TypeOK'
  OBVIOUS
<1> USE ThreadPollAssumption DEF IInv, TypeOK, WorkerState, OwnerState, NoTask
<1>1. CASE Started
  BY <1>1 DEF Started
<1>2. CASE EnqueueTask
  <2>1. submitted' \in 0 .. MaxSubmissions /\ submitted + 1 \in Task
    BY <1>2 DEF EnqueueTask, HasRoom, Task
  <2>2. taskQueue_' \in Seq(Task) /\ Len(taskQueue_') <= maxTasks_
    BY <1>2, <2>1, QueueTypes DEF EnqueueTask, HasRoom
  <2> QED
    BY <1>2, <2>1, <2>2 DEF EnqueueTask, HasRoom
<1>3. CASE NotifyOne
  BY <1>3 DEF NotifyOne
<1>4. CASE SetClose
  BY <1>4 DEF SetClose
<1>5. CASE NotifyAll
  BY <1>5 DEF NotifyAll
<1>6. CASE Joined
  BY <1>6 DEF Joined
<1>7. ASSUME NEW w \in Worker, Take(w)
      PROVE  TypeOK'
  <2>1. taskQueue_ # <<>>
    BY <1>7 DEF Take, WaitPredicate
  <2>2. /\ Head(taskQueue_) \in Task
        /\ taskQueue_' \in Seq(Task)
        /\ Len(taskQueue_') <= maxTasks_
    BY <1>7, <2>1, QueueTypes DEF Take
  <2> QED
    BY <1>7, <2>2 DEF Take
<1>8. ASSUME NEW w \in Worker,
             Spawn(w) \/ Sleep(w) \/ Exit(w) \/ Finish(w) \/ SpuriousWake(w)
      PROVE  TypeOK'
  BY <1>8 DEF Spawn, Sleep, Exit, Finish, SpuriousWake
<1>9. CASE Terminated \/ UNCHANGED vars
  BY <1>9 DEF Terminated, vars
<1> QED
  BY <1>1, <1>2, <1>3, <1>4, <1>5, <1>6, <1>7, <1>8, <1>9 DEF Next

(* Who holds the mutex and how far the main thread is are preserved.       *)
LEMMA ControlStep == IInv /\ [Next]_vars => MutexInv' /\ OwnerInv' /\ NoEarlyExit'
<1> SUFFICES ASSUME IInv, [Next]_vars
             PROVE  MutexInv' /\ OwnerInv' /\ NoEarlyExit'
  OBVIOUS
<1> USE ThreadPollAssumption
    DEF IInv, TypeOK, MutexInv, OwnerInv, NoEarlyExit, WorkerState, OwnerState, NoTask
<1>1. CASE Started
  BY <1>1 DEF Started
<1>2. CASE EnqueueTask
  BY <1>2 DEF EnqueueTask
<1>3. CASE NotifyOne
  BY <1>3 DEF NotifyOne
<1>4. CASE SetClose
  BY <1>4 DEF SetClose
<1>5. CASE NotifyAll
  BY <1>5 DEF NotifyAll
<1>6. CASE Joined
  BY <1>6 DEF Joined
<1>7. ASSUME NEW w \in Worker, Take(w)
      PROVE  MutexInv' /\ OwnerInv' /\ NoEarlyExit'
  <2>1. Head(taskQueue_) \in Task
    BY <1>7, QueueTypes DEF Take, WaitPredicate
  <2>2. Head(taskQueue_) # NoTask
    BY <2>1 DEF Task
  <2>3. owner # "constructing"
    BY <1>7 DEF Take
  <2> QED
    BY <1>7, <2>1, <2>2, <2>3 DEF Take
<1>8. ASSUME NEW w \in Worker, Spawn(w)
      PROVE  MutexInv' /\ OwnerInv' /\ NoEarlyExit'
  BY <1>8 DEF Spawn
<1>9. ASSUME NEW w \in Worker, Sleep(w)
      PROVE  MutexInv' /\ OwnerInv' /\ NoEarlyExit'
  BY <1>9 DEF Sleep
<1>10. ASSUME NEW w \in Worker, Exit(w)
       PROVE  MutexInv' /\ OwnerInv' /\ NoEarlyExit'
  BY <1>10 DEF Exit, WaitPredicate
<1>11. ASSUME NEW w \in Worker, Finish(w)
       PROVE  MutexInv' /\ OwnerInv' /\ NoEarlyExit'
  BY <1>11 DEF Finish
<1>12. ASSUME NEW w \in Worker, SpuriousWake(w)
       PROVE  MutexInv' /\ OwnerInv' /\ NoEarlyExit'
  BY <1>12 DEF SpuriousWake
<1>13. CASE Terminated \/ UNCHANGED vars
  BY <1>13 DEF Terminated, vars
<1> QED
  BY <1>1, <1>2, <1>3, <1>4, <1>5, <1>6, <1>7, <1>8, <1>9, <1>10, <1>11,
     <1>12, <1>13 DEF Next

(* Waking is preserved: a worker goes to sleep only when WaitPredicate is  *)
(* false, and each step that makes it true owes a notification.            *)
LEMMA WakeStep == IInv /\ [Next]_vars => NoLostWakeup' /\ NoSleeperLeft'
<1> SUFFICES ASSUME IInv, [Next]_vars
             PROVE  NoLostWakeup' /\ NoSleeperLeft'
  OBVIOUS
<1> USE ThreadPollAssumption
    DEF IInv, TypeOK, OwnerInv, NoEarlyExit, NoLostWakeup, NoSleeperLeft,
        WorkerState, OwnerState
<1>1. CASE Started
  BY <1>1 DEF Started
<1>2. CASE EnqueueTask
  BY <1>2 DEF EnqueueTask
<1>3. CASE NotifyOne
  <2>1. state_ = "kStart"
    BY <1>3 DEF NotifyOne
  <2>2. ASSUME NEW w \in Worker, worker[w] = "waiting",
               worker' = [worker EXCEPT ![w] = "ready"]
        PROVE  worker'[w] = "ready"
    BY <2>2
  <2>3. CASE \A w \in Worker : worker[w] # "waiting"
    <3>1. \A w \in Worker : worker[w] \in {"ready", "running"}
      BY <1>3, <2>1, <2>3 DEF NotifyOne
    <3>2. UNCHANGED worker
      BY <1>3, <2>3 DEF NotifyOne
    <3> QED
      BY <1>3, <2>1, <3>1, <3>2 DEF NotifyOne
  <2> QED
    BY <1>3, <2>1, <2>2, <2>3 DEF NotifyOne
<1>4. CASE SetClose
  BY <1>4 DEF SetClose
<1>5. CASE NotifyAll
  BY <1>5 DEF NotifyAll
<1>6. CASE Joined
  BY <1>6 DEF Joined
<1>7. ASSUME NEW w \in Worker, Spawn(w) \/ SpuriousWake(w) \/ Exit(w)
      PROVE  NoLostWakeup' /\ NoSleeperLeft'
  BY <1>7 DEF Spawn, SpuriousWake, Exit
<1>8. ASSUME NEW w \in Worker, Sleep(w)
      PROVE  NoLostWakeup' /\ NoSleeperLeft'
  BY <1>8 DEF Sleep, WaitPredicate
<1>9. ASSUME NEW w \in Worker, Take(w)
      PROVE  NoLostWakeup' /\ NoSleeperLeft'
  BY <1>9 DEF Take
<1>10. ASSUME NEW w \in Worker, Finish(w)
       PROVE  NoLostWakeup' /\ NoSleeperLeft'
  BY <1>10 DEF Finish
<1>11. CASE Terminated \/ UNCHANGED vars
  BY <1>11 DEF Terminated, vars
<1> QED
  BY <1>1, <1>2, <1>3, <1>4, <1>5, <1>6, <1>7, <1>8, <1>9, <1>10, <1>11 DEF Next

-----------------------------------------------------------------------------

(* The inductive invariant holds in every reachable state.                 *)
THEOREM Invariance == SafetySpec => []IInv
<1>1. IInv /\ [Next]_vars => IInv'
  BY TypeStep, ControlStep, WakeStep DEF IInv
<1> QED
  BY InitInv, <1>1, PTL DEF SafetySpec

(* Every variable keeps its type, and the queue its capacity.              *)
THEOREM TypeCorrect == SafetySpec => []TypeOK
<1>1. IInv => TypeOK
  BY DEF IInv
<1> QED
  BY Invariance, <1>1, PTL

(* A queued task of an open pool always has somebody awake to execute it   *)
(* or a notification on its way (ThreadPoll.h:32-40, ThreadPoll.cpp:26).   *)
THEOREM WakeupsAreNotLost == SafetySpec => []NoLostWakeup
<1>1. IInv => NoLostWakeup
  BY DEF IInv
<1> QED
  BY Invariance, <1>1, PTL

(* Nobody sleeps past the destructor's notify_all (ThreadPoll.cpp:8-12).   *)
THEOREM NobodySleepsPastClose == SafetySpec => []NoSleeperLeft
<1>1. IInv => NoSleeperLeft
  BY DEF IInv
<1> QED
  BY Invariance, <1>1, PTL

(* No worker terminates before the pool is closed (ThreadPoll.cpp:27-29).  *)
THEOREM WorkersStayUntilClose == SafetySpec => []NoEarlyExit
<1>1. IInv => NoEarlyExit
  BY DEF IInv
<1> QED
  BY Invariance, <1>1, PTL

-----------------------------------------------------------------------------
(* Refinement.  The abstract active task is the one of the worker that     *)
(* holds mutex_, so Take and Finish map to Begin and End, a push that is   *)
(* accepted to Submit, and everything that only moves threads to a stutter.*)

LEMMA RefinesInit == Init => Executor!Init
BY DEF Init, Executor!Init

LEMMA RefinesStep == IInv /\ [Next]_vars => [Executor!Next]_(Executor!vars)
<1> SUFFICES ASSUME IInv, [Next]_vars
             PROVE  [Executor!Next]_(Executor!vars)
  OBVIOUS
<1> USE ThreadPollAssumption
    DEF IInv, TypeOK, MutexInv, OwnerInv, WorkerState, OwnerState, NoTask,
        Executor!vars, Executor!Next
<1>1. CASE Started
  BY <1>1 DEF Started, Executor!Start
<1>2. CASE EnqueueTask
  <2>1. CASE Len(taskQueue_) < maxTasks_
    <3>1. submitted + 1 \in Task
      BY <1>2 DEF EnqueueTask, HasRoom, Task
    <3>2. Executor!Submit(submitted + 1)
      BY <1>2, <2>1, <3>1 DEF EnqueueTask, HasRoom, Executor!Submit, Executor!HasRoom
    <3> QED
      BY <3>1, <3>2
  <2>2. CASE ~(Len(taskQueue_) < maxTasks_)
    BY <1>2, <2>2 DEF EnqueueTask, HasRoom
  <2> QED
    BY <2>1, <2>2
<1>3. CASE NotifyOne
  BY <1>3 DEF NotifyOne
<1>4. CASE SetClose
  BY <1>4 DEF SetClose, Executor!Close
<1>5. CASE NotifyAll
  BY <1>5 DEF NotifyAll
<1>6. CASE Joined
  <2>1. mutex_ = Free
    BY <1>6 DEF Joined
  <2> QED
    BY <1>6, <2>1 DEF Joined, Executor!Discard
<1>7. ASSUME NEW w \in Worker, Take(w)
      PROVE  Executor!Begin
  <2>1. taskQueue_ # <<>>
    BY <1>7 DEF Take, WaitPredicate
  <2> QED
    BY <1>7, <2>1 DEF Take, Executor!Begin
<1>8. ASSUME NEW w \in Worker, Finish(w)
      PROVE  Executor!End
  BY <1>8 DEF Finish, Executor!End
<1>9. ASSUME NEW w \in Worker, Spawn(w) \/ Sleep(w) \/ Exit(w) \/ SpuriousWake(w)
      PROVE  UNCHANGED Executor!vars
  BY <1>9 DEF Spawn, Sleep, Exit, SpuriousWake
<1>10. CASE Terminated \/ UNCHANGED vars
  BY <1>10 DEF Terminated, vars
<1> QED
  BY <1>1, <1>2, <1>3, <1>4, <1>5, <1>6, <1>7, <1>8, <1>9, <1>10 DEF Next

(* The pool implements the serial executor, whatever the number of workers *)
(* and the capacity (ThreadPoll.cpp:24-33, ThreadPoll.h:29-42).            *)
THEOREM Refinement == SafetySpec => ImplementsSerialExecutor
BY Invariance, RefinesInit, RefinesStep, PTL
   DEF SafetySpec, ImplementsSerialExecutor, Executor!SafetySpec

=============================================================================
