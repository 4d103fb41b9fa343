-------------------------- MODULE ServerLifeProofs --------------------------
(***************************************************************************)
(* Proofs about ServerLife for every number of connections, descriptors    *)
(* and requests, every queue capacity and every limit.                     *)
(***************************************************************************)
EXTENDS ServerLife, HylChanProofs

(* While the main thread is not in the loop it has no task in its hands.   *)
NothingInHand == life # "loop" => local = None

(* The pool is closed before it goes, and the queue goes with it; without  *)
(* a reactor nobody fills it.                                              *)
PoolInv ==
  /\ threadPoll_ = "kClose" <=> life = "join"
  /\ threadPoll_ = "gone" => taskQueue_ = <<>>
  /\ reactor_ \in {"none", "kNone"} => taskQueue_ = <<>>

(* The main thread loops with a reactor that was started.                  *)
ReactorInv ==
  /\ life = "loop" => reactor_ = "kStart"
  /\ life \in {"~ThreadPoll", "join", "~Reactor"} => reactor_ = "kClose"

(* main returns with the listening socket closed.                          *)
ListenInv == life = "exit" => listen_sk_ # "kListen"

IInv == /\ LifeTypeOK
        /\ NothingInHand
        /\ PoolInv
        /\ ReactorInv
        /\ ListenInv
        /\ TasksFindTheServer
        /\ NothingStaysOpen

-----------------------------------------------------------------------------
(* What the server does while the main thread stands still.                *)

(* A worker neither fills the main thread's hands nor the queue, and finds *)
(* no task in an empty one.                                                *)
LEMMA WorkerFrame ==
  ASSUME Worker
  PROVE  /\ local' = local
         /\ taskQueue_ = <<>> => taskQueue_' = <<>>
         /\ taskQueue_ = <<>> /\ running = None => running' = None
BY DEF Worker, Begin, EraseBegins, EraseEnds, Release, Rearm, AssertFails,
       Read, ReadSpins, ReadRequest, ReadNothing,
       Write, WriteHead, WriteHeadStops, WriteNoBody, WriteEmptyBody, WriteFile,
       WriteFileStops, ShutdownWrite, Pool!Begin, Pool!End, reactorVars, poolVars

LEMMA ClientFrame ==
  ASSUME Clients
  PROVE  UNCHANGED <<local, taskQueue_, running>>
BY DEF Clients, serverVars, reactorVars, poolVars

-----------------------------------------------------------------------------
(* The invariant.                                                          *)

LEMMA LifeInitInv == LifeInit => IInv
BY DEF LifeInit, Init, IInv, LifeTypeOK, Life, NothingInHand, PoolInv, ReactorInv,
       ListenInv, TasksFindTheServer, NothingStaysOpen

(* The main thread, outside the loop.                                      *)
LEMMA MainStep == IInv /\ Main => IInv'
<1> SUFFICES ASSUME IInv, Main
             PROVE  IInv'
  OBVIOUS
<1> USE DEF IInv, LifeTypeOK, Life, NothingInHand, PoolInv, ReactorInv, ListenInv,
            TasksFindTheServer, NothingStaysOpen, vars, serverVars, reactorVars, poolVars
<1>1. ASSUME NEW ok \in BOOLEAN, ConstructServer(ok)
      PROVE  IInv'
  BY <1>1 DEF ConstructServer
<1>2. ASSUME NEW ok \in BOOLEAN, ConstructReactor(ok)
      PROVE  IInv'
  BY <1>2 DEF ConstructReactor
<1>3. CASE ConstructPool
  BY <1>3 DEF ConstructPool
<1>4. ASSUME NEW ok \in BOOLEAN, Start(ok)
      PROVE  IInv'
  BY <1>4 DEF Start, CanLoop
<1>5. CASE LoopReturns
  BY <1>5 DEF LoopReturns
<1>6. CASE DestroyHylChan
  BY <1>6 DEF DestroyHylChan
<1>7. CASE ClosePool
  BY <1>7 DEF ClosePool
<1>8. CASE Join
  BY <1>8 DEF Join
<1>9. CASE DestroyReactor
  BY <1>9 DEF DestroyReactor
<1>10. CASE DestroyServer
  <2>1. \A c \in Conn : ~Held(c)'
    BY <1>10, EpollNekoAssumption
       DEF DestroyServer, Held, Registered, Carried, Queued
  <2>2. NothingStaysOpen'
    BY <1>10, <2>1 DEF DestroyServer, Reap, Destroy, CloseDescriptors, Forget, Open
  <2> QED
    BY <1>10, <2>2 DEF DestroyServer
<1> QED
  BY <1>1, <1>2, <1>3, <1>4, <1>5, <1>6, <1>7, <1>8, <1>9, <1>10 DEF Main

(* The loop, the workers and the clients: lifeVars do not change.          *)
LEMMA OthersStep ==
  ASSUME IInv, Serve \/ Work \/ (listen_sk_ = "kListen" /\ Clients), UNCHANGED lifeVars
  PROVE  IInv'
<1> USE DEF IInv, LifeTypeOK, Life, NothingInHand, PoolInv, ReactorInv, ListenInv,
            TasksFindTheServer, lifeVars
<1>1. CASE Serve
  BY <1>1 DEF Serve, NothingStaysOpen
<1>2. CASE Work
  <2>1. threadPoll_ = "kStart"
    BY <1>2 DEF Work
  <2>2. running' # None => reactor_ \in {"kStart", "kClose"}
    BY <1>2, <2>1, WorkerFrame DEF Work
  <2> QED
    BY <1>2, <2>1, <2>2, WorkerFrame DEF Work, NothingStaysOpen
<1>3. CASE listen_sk_ = "kListen" /\ Clients
  BY <1>3, ClientFrame DEF NothingStaysOpen
<1> QED
  BY <1>1, <1>2, <1>3

LEMMA LifeStep == IInv /\ [LifeNext]_allVars => IInv'
<1> SUFFICES ASSUME IInv, [LifeNext]_allVars
             PROVE  IInv'
  OBVIOUS
<1>1. CASE LifeNext
  BY <1>1, MainStep, OthersStep DEF LifeNext
<1>2. CASE UNCHANGED allVars
  BY <1>2 DEF allVars, lifeVars, vars, kernelVars, serverVars, reactorVars, poolVars, IInv, LifeTypeOK,
              NothingInHand, PoolInv, ReactorInv, ListenInv,
              TasksFindTheServer, NothingStaysOpen, Open
<1> QED
  BY <1>1, <1>2

(* Start-up, service and shutdown keep the inductive invariant.            *)
THEOREM LifeInvariance == LifeSpec => []IInv
BY LifeInitInv, LifeStep, PTL DEF LifeSpec

(* Because threadPoll_ is the last member of HylChan (HylChan.h:39-40), no *)
(* task outlives what it uses, however many tasks there are.               *)
THEOREM TasksAlwaysFindTheServer == LifeSpec => []TasksFindTheServer
<1>1. IInv => TasksFindTheServer
  BY DEF IInv
<1> QED
  BY <1>1, LifeInvariance, PTL

(* However the server stops, no accepted connection is left open.          *)
THEOREM NothingIsLeftOpen == LifeSpec => []NothingStaysOpen
<1>1. IInv => NothingStaysOpen
  BY DEF IInv
<1> QED
  BY <1>1, LifeInvariance, PTL

-----------------------------------------------------------------------------
(* What HylChanProofs shows of the running server holds from main to end.  *)

(* The steps of the main thread that the running server does not have.     *)
LEMMA NewSteps ==
  ASSUME [LifeNext]_allVars
  PROVE  [Next]_vars \/ LoopReturns \/ Join \/ DestroyServer
BY DEF LifeNext, Main, ConstructServer, ConstructReactor, ConstructPool, Start, DestroyHylChan,
       ClosePool, DestroyReactor, Serve, Work, Next, Alive, allVars

LEMMA LifeTypes == TypeInv /\ [LifeNext]_allVars => TypeInv'
<1> SUFFICES ASSUME TypeInv, [LifeNext]_allVars
             PROVE  TypeInv'
  OBVIOUS
<1>1. CASE [Next]_vars
  BY <1>1, TypeStep
<1>2. CASE LoopReturns
  BY <1>2 DEF LoopReturns, TypeInv, TypeOK, KernelTypeOK, Busy, kernelVars, poolVars, connVars
<1>3. CASE Join
  <2>1. PICK gone \in SUBSET Conn : Destroy(gone)
    BY <1>3, ReapTypes DEF Join, TypeInv
  <2>2. taskQueue_' \in Seq(Task) /\ Len(taskQueue_') <= maxTasks_
    BY <1>3, HylChanAssumption DEF Join
  <2> QED
    BY <1>3, <2>1, <2>2, DestroyTypes
       DEF Join, TypeInv, TypeOK, KernelTypeOK, Busy, reactorVars
<1>4. CASE DestroyServer
  <2>1. PICK gone \in SUBSET Conn : Destroy(gone)
    BY <1>4, ReapTypes DEF DestroyServer, TypeInv
  <2> QED
    BY <1>4, <2>1, DestroyTypes
       DEF DestroyServer, TypeInv, TypeOK, KernelTypeOK, Busy, poolVars
<1> QED
  BY <1>1, <1>2, <1>3, <1>4, NewSteps

LEMMA LifeUnknown ==
  ASSUME OwnInv, [LifeNext]_allVars
  PROVE  UnknownSilent'
<1>1. UnknownSilent
  BY DEF OwnInv
<1>2. CASE [Next]_vars
  BY <1>2, UnknownStep
<1>3. CASE LoopReturns
  BY <1>1, <1>3, UnknownKept DEF LoopReturns, kernelVars
<1>4. CASE Join \/ DestroyServer
  <2>1. Reap /\ UNCHANGED armed
    BY <1>4 DEF Join, DestroyServer
  <2> QED
    BY <1>1, <2>1, UnknownReap
<1> QED
  BY <1>2, <1>3, <1>4, NewSteps

LEMMA LifeOwn == OwnInv /\ [LifeNext]_allVars => OwnInv'
<1> SUFFICES ASSUME OwnInv, [LifeNext]_allVars
             PROVE  OpenAccepted' /\ DescriptorOwnership'
  BY LifeTypes, LifeUnknown DEF OwnInv
<1>1. CASE [Next]_vars
  BY <1>1, OwnStep DEF OwnInv
<1>2. CASE LoopReturns
  BY <1>2, KeepOwn, HeldSame DEF LoopReturns, kernelVars, poolVars, connVars
<1>3. CASE Join
  <2>1. \A c \in Conn : Held(c)' => Held(c)
    BY <1>3 DEF Join, Held, Registered, Carried, Queued, reactorVars
  <2> QED
    BY <1>3, <2>1, ReapOwn DEF Join, reactorVars
<1>4. CASE DestroyServer
  <2>1. \A c \in Conn : Held(c)' => Held(c)
    BY <1>4, EpollNekoAssumption
       DEF DestroyServer, Held, Registered, Carried, Queued, poolVars
  <2> QED
    BY <1>4, <2>1, ReapOwn DEF DestroyServer
<1> QED
  BY <1>1, <1>2, <1>3, <1>4, NewSteps

(* From main to its end, no descriptor is used that belongs to nobody or   *)
(* to another connection.                                                  *)
THEOREM OwnedToTheEnd == LifeSpec => []DescriptorOwnership
<1>1. LifeInit => OwnInv
  BY OwnInit DEF LifeInit
<1>2. OwnInv => DescriptorOwnership
  BY DEF OwnInv
<1> QED
  BY <1>1, <1>2, LifeOwn, PTL DEF LifeSpec

LEMMA LifeCounted == TypeInv /\ Counted /\ [LifeNext]_allVars => Counted'
<1> SUFFICES ASSUME TypeInv, Counted, [LifeNext]_allVars
             PROVE  Counted'
  OBVIOUS
<1>1. conn_count \in Nat
  BY HylChanAssumption DEF TypeInv, TypeOK
<1>2. CASE [Next]_vars
  BY <1>2, CountedStep
<1>3. CASE LoopReturns
  BY <1>1, <1>3, LifeTypes, CountedKept DEF LoopReturns, kernelVars
<1>4. CASE Join
  BY <1>1, <1>4, LifeTypes, CountedKept, ReapOpensNone DEF Join, reactorVars
<1>5. CASE DestroyServer
  BY <1>1, <1>5, LifeTypes, CountedKept, ReapOpensNone DEF DestroyServer
<1> QED
  BY <1>2, <1>3, <1>4, <1>5, NewSteps

(* From main to its end, at most MaxConnections connections are open.      *)
THEOREM LimitToTheEnd == LifeSpec => []ConnectionLimit
<1>1. LifeInit => TypeInv /\ Counted
  BY TypeInit, CountedInit DEF LifeInit
<1>2. TypeInv /\ Counted /\ [LifeNext]_allVars => (TypeInv /\ Counted)'
  BY LifeTypes, LifeCounted
<1> QED
  BY <1>1, <1>2, CountedBounds, PTL DEF LifeSpec

=============================================================================
