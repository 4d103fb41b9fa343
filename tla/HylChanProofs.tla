--------------------------- MODULE HylChanProofs ----------------------------
(***************************************************************************)
(* Proofs about HylChan for every number of connections, descriptors and   *)
(* requests, every queue capacity and every limit.                         *)
(***************************************************************************)
EXTENDS HylChan, FiniteSetTheorems, TLAPS

(* A worker that is inside a task has one.                                 *)
Busy == step = "idle" <=> running = None

(* Descriptors are open for accepted connections only.                     *)
OpenAccepted == \A f \in Fd : fdTable[f] # None => phase[fdTable[f]] = "accepted"

(* A descriptor that epoll does not know is not armed.                     *)
UnknownSilent == \A f \in Fd : fdTable[f] # None /\ interest[f] = None => ~armed[f]

TypeInv == TypeOK /\ Busy

-----------------------------------------------------------------------------
(* Type correctness.                                                       *)

LEMMA QueueTypes ==
  ASSUME NEW T, NEW q \in Seq(T)
  PROVE  /\ \A t \in T : Append(q, t) \in Seq(T) /\ Len(Append(q, t)) = Len(q) + 1
         /\ q # <<>> => /\ Head(q) \in T
                        /\ Tail(q) \in Seq(T)
                        /\ Len(Tail(q)) = Len(q) - 1
         /\ Len(q) \in Nat
OBVIOUS

(* Destroying connections keeps every type.                                *)
LEMMA DestroyTypes ==
  ASSUME TypeOK, NEW gone \in SUBSET Conn, Destroy(gone)
  PROVE  /\ phase' \in [Conn -> {"new", "backlog", "accepted", "closed"}]
         /\ fdTable' \in [Fd -> Conn \cup {None}]
         /\ interest' \in [Fd -> {"IN", "OUT", None}]
         /\ rx' \in [Conn -> Nat]
         /\ awaits' \in [Conn -> BOOLEAN]
         /\ peer' \in [Conn -> {"up", "fin", "rst"}]
         /\ room' \in [Conn -> BOOLEAN]
         /\ rbuf' \in [Conn -> Nat]
         /\ ctx' \in [Conn -> {"kExpectRequestLine", "kGotAll"}]
         /\ out' \in [Conn -> BOOLEAN]
         /\ filer' \in [Conn -> {"kNone", "file", "empty"}]
         /\ closing' \in [Conn -> BOOLEAN]
BY DEF TypeOK, KernelTypeOK, Destroy, CloseDescriptors, Forget

LEMMA ReapTypes ==
  ASSUME TypeOK, Reap
  PROVE  \E gone \in SUBSET Conn : Destroy(gone)
BY DEF Reap

LEMMA TypeInit == Init => TypeInv
BY EpollNekoAssumption, HylChanAssumption
   DEF Init, KernelInit, TypeInv, TypeOK, KernelTypeOK, Busy, Source, Event, Step

LEMMA ReactorTypes == TypeInv /\ Reactor => TypeInv'
<1> SUFFICES ASSUME TypeInv, Reactor
             PROVE  TypeInv'
  OBVIOUS
<1> USE EpollNekoAssumption, HylChanAssumption
    DEF TypeInv, TypeOK, KernelTypeOK, Busy, Step,
        kernelVars, reactorVars, poolVars, connVars, MapAccess, Handled
<1>1. CASE EpollWait
  <2>1. \A s \in Source : Pending(s) \in SUBSET Event
    BY DEF Pending, Reported, SocketEvents, Event
  <2> QED
    BY <1>1, <2>1 DEF EpollWait, Report
<1>2. CASE AcceptFails
  <2>1. conn_count' \in 0 .. MaxConnections
    BY <1>2 DEF AcceptFails, BelowLimit
  <2> QED
    BY <1>2, <2>1 DEF AcceptFails
<1>3. CASE Refuse
  BY <1>3 DEF Refuse
<1>4. CASE Enqueue
  <2>1. local \in Task
    BY <1>4 DEF Enqueue
  <2>2. taskQueue_' \in Seq(Task) /\ Len(taskQueue_') <= maxTasks_
    BY <1>4, <2>1, QueueTypes DEF Enqueue, Pool!Submit, Pool!HasRoom
  <2> QED
    BY <1>4, <2>2 DEF Enqueue, Pool!Submit
<1>5. CASE EnqueueRejected
  BY <1>5, ReapTypes, DestroyTypes DEF EnqueueRejected
<1>6. ASSUME NEW f \in Fd, HandleHup(f)
      PROVE  TypeInv'
  BY <1>6, ReapTypes, DestroyTypes DEF HandleHup, Erase, Source
<1>7. ASSUME NEW f \in Fd, HandleRdHup(f)
      PROVE  TypeInv'
  <2>1. wshut' \in [Conn -> BOOLEAN] /\ armed' \in [Fd -> BOOLEAN]
    <3>1. \/ UNCHANGED <<wshut, armed>>
          \/ wshut' = [wshut EXCEPT ![fdTable[f]] = TRUE] /\ Edge(fdTable[f])
      BY ONLY <1>7 DEF HandleRdHup
    <3>2. CASE UNCHANGED <<wshut, armed>>
      BY <3>2
    <3>3. CASE wshut' = [wshut EXCEPT ![fdTable[f]] = TRUE] /\ Edge(fdTable[f])
      BY <3>3 DEF Edge
    <3> QED
      BY ONLY <3>1, <3>2, <3>3
  <2>2. /\ conn_manager_' \in [Fd -> Conn \cup {None}]
        /\ batch' \in [Source -> SUBSET Event]
        /\ halted' \in {"no", "assert", "race"}
    BY <1>7 DEF HandleRdHup, Erase, Source
  <2>3. UNCHANGED <<sent, oneshot, conn_count, local, poolVars, step, fd_, state_, dropped>>
    BY <1>7 DEF HandleRdHup
  <2>4. PICK gone \in SUBSET Conn : Destroy(gone)
    BY <1>7, ReapTypes DEF HandleRdHup
  <2> QED
    BY <2>1, <2>2, <2>3, <2>4, DestroyTypes
<1>8. ASSUME NEW f \in Fd, HandleMissing(f)
      PROVE  TypeInv'
  BY <1>8 DEF HandleMissing, Source
<1>9. ASSUME NEW f \in Fd, HandleLookup(f)
      PROVE  TypeInv'
  BY <1>9 DEF HandleLookup, Source, Task
<1>10. ASSUME NEW f \in Fd, NEW c \in Conn, Accept(c, f)
       PROVE  TypeInv'
  <2>1. /\ interest' \in [Fd -> {"IN", "OUT", None}]
        /\ oneshot' \in [Fd -> BOOLEAN]
        /\ armed' \in [Fd -> BOOLEAN]
    <3>1. (\E ok \in BOOLEAN : AddSocket(f, ok)) \/ UNCHANGED <<interest, oneshot, armed>>
      BY ONLY <1>10 DEF Accept, AddListen
    <3>2. ASSUME NEW ok \in BOOLEAN, AddSocket(f, ok)
          PROVE  /\ interest' \in [Fd -> {"IN", "OUT", None}]
                 /\ oneshot' \in [Fd -> BOOLEAN]
                 /\ armed' \in [Fd -> BOOLEAN]
      BY <3>2 DEF AddSocket
    <3>3. CASE UNCHANGED <<interest, oneshot, armed>>
      BY <3>3
    <3> QED
      BY ONLY <3>1, <3>2, <3>3
  <2> QED
    BY <1>10, <2>1, SMTT(30) DEF Accept, BelowLimit, Source
<1> QED
  BY <1>1, <1>2, <1>3, <1>4, <1>5, <1>6, <1>7, <1>8, <1>9, <1>10 DEF Reactor

(* What a call of send leaves in the send queue.                           *)
LEMMA RoomTypes ==
  ASSUME room \in [Conn -> BOOLEAN], NEW c \in Conn,
         Sends(c) \/ SendStops(c) \/ UNCHANGED room
  PROVE  room' \in [Conn -> BOOLEAN]
<1>1. \E b \in BOOLEAN : room' = room \/ room' = [room EXCEPT ![c] = b]
  BY DEF Sends, SendStops
<1> QED
  BY <1>1

LEMMA WorkerTypes == TypeInv /\ Worker => TypeInv'
<1> SUFFICES ASSUME TypeInv, Worker
             PROVE  TypeInv'
  OBVIOUS
<1> USE EpollNekoAssumption, HylChanAssumption
    DEF TypeInv, TypeOK, KernelTypeOK, Busy, Step,
        kernelVars, reactorVars, poolVars, connVars, At
<1>1. CASE Begin
  <2>1. /\ taskQueue_ # <<>>
        /\ Head(taskQueue_) \in Task
        /\ Tail(taskQueue_) \in Seq(Task)
        /\ Len(Tail(taskQueue_)) <= maxTasks_
    BY <1>1, QueueTypes DEF Begin, Pool!Begin
  <2> QED
    BY <1>1, <2>1 DEF Begin, Pool!Begin
<1>2. CASE EraseBegins
  BY <1>2 DEF EraseBegins
<1>3. CASE EraseEnds
  BY <1>3, ReapTypes, DestroyTypes DEF EraseEnds, Erase
<1>4. CASE Release
  BY <1>4, ReapTypes, DestroyTypes DEF Release, Pool!End
<1>5. ASSUME NEW mask \in {"IN", "OUT"}, Rearm(mask)
      PROVE  TypeInv'
  <2>1. /\ interest' \in [Fd -> {"IN", "OUT", None}]
        /\ oneshot' \in [Fd -> BOOLEAN]
        /\ armed' \in [Fd -> BOOLEAN]
    <3>1. ModifySocket(fd_[running.conn], mask)
      BY <1>5 DEF Rearm
    <3>2. CASE interest[fd_[running.conn]] = None
      BY <3>1, <3>2 DEF ModifySocket
    <3>3. CASE interest[fd_[running.conn]] # None
      <4>1. /\ interest' = [interest EXCEPT ![fd_[running.conn]] = mask]
            /\ oneshot' = [oneshot EXCEPT ![fd_[running.conn]] = TRUE]
            /\ armed' = [armed EXCEPT ![fd_[running.conn]] = TRUE]
        BY <3>1, <3>3 DEF ModifySocket
      <4> QED
        BY <4>1
    <3> QED
      BY <3>2, <3>3
  <2>2. /\ dropped' \in [Conn -> BOOLEAN]
        /\ step # "idle"
        /\ step' = "release"
    BY <1>5 DEF Rearm
  <2>3. UNCHANGED <<phase, rx, sent, awaits, peer, room, wshut, fdTable,
                    reactorVars, poolVars, connVars, halted>>
    BY <1>5 DEF Rearm
  <2> QED
    BY <2>1, <2>2, <2>3
<1>6. ASSUME NEW c \in Conn, AssertFails(c)
      PROVE  TypeInv'
  BY <1>6 DEF AssertFails
<1>7. ASSUME NEW c \in Conn, Read(c)
      PROVE  TypeInv'
  <2>1. CASE ReadSpins(c)
    BY <2>1 DEF ReadSpins
  <2>2. ASSUME NEW r \in Request, ReadRequest(c, r.kind, r.close)
        PROVE  TypeInv'
    <3>1. PICK n \in {0, 1} : rbuf' = [rbuf EXCEPT ![c] = rbuf[c] + rx[c] - n]
      BY <2>2 DEF ReadRequest, Taken
    <3>2. rbuf[c] + rx[c] - n \in Nat
      BY <2>2 DEF ReadRequest
    <3>3. rbuf' \in [Conn -> Nat]
      BY <3>1, <3>2
    <3>4. r.kind \in Kind /\ r.close \in BOOLEAN
      OBVIOUS
    <3> QED
      BY <2>2, <3>3, <3>4 DEF ReadRequest, Reset, Kind
  <2>3. ASSUME NEW malformed \in BOOLEAN, ReadNothing(c, malformed)
        PROVE  TypeInv'
    <3>1. CASE rbuf[c] = 0
      BY <2>3, <3>1 DEF ReadNothing
    <3>2. CASE rbuf[c] # 0
      <4>1. rbuf' \in [Conn -> Nat]
        <5>1. PICK n \in {0, 1} : rbuf' = [rbuf EXCEPT ![c] = rbuf[c] - n]
          BY <2>3, <3>2 DEF ReadNothing, Taken
        <5>2. rbuf[c] - n \in Nat
          BY <3>2
        <5> QED
          BY <5>1, <5>2
      <4>2. ctx' \in [Conn -> {"kExpectRequestLine", "kGotAll"}]
        <5>1. CASE malformed
          BY <2>3, <3>2, <5>1 DEF ReadNothing
        <5>2. CASE ~malformed
          <6>1. ctx' = [ctx EXCEPT ![c] = "kGotAll"]
            BY <2>3, <3>2, <5>2, Zenon DEF ReadNothing
          <6> QED
            BY <6>1
        <5> QED
          BY <5>1, <5>2
      <4> QED
        BY <2>3, <4>1, <4>2 DEF ReadNothing
    <3> QED
      BY <3>1, <3>2
  <2> QED
    BY ONLY <1>7, <2>1, <2>2, <2>3 DEF Read
<1>8. ASSUME NEW c \in Conn, Write(c)
      PROVE  TypeInv'
  <2> USE DEF Retry
  <2>1. CASE WriteHead(c)
    <3>1. room' \in [Conn -> BOOLEAN]
      <4>1. Sends(c) \/ UNCHANGED room
        BY ONLY <2>1 DEF WriteHead
      <4> QED
        BY <4>1, RoomTypes
    <3> QED
      BY <2>1, <3>1 DEF WriteHead
  <2>2. CASE WriteHeadStops(c)
    BY <2>2, RoomTypes DEF WriteHeadStops
  <2>3. CASE WriteNoBody(c)
    BY <2>3 DEF WriteNoBody
  <2>4. CASE WriteEmptyBody(c)
    BY <2>4 DEF WriteEmptyBody, AfterResponse
  <2>5. CASE WriteFile(c)
    BY <2>5, RoomTypes DEF WriteFile
  <2>6. CASE WriteFileStops(c)
    BY <2>6, RoomTypes DEF WriteFileStops
  <2>7. CASE ShutdownWrite(c)
    BY <2>7 DEF ShutdownWrite, Edge
  <2> QED
    BY <1>8, <2>1, <2>2, <2>3, <2>4, <2>5, <2>6, <2>7 DEF Write
<1> QED
  BY ONLY Worker, <1>1, <1>2, <1>3, <1>4, <1>5, <1>6, <1>7, <1>8 DEF Worker

LEMMA ClientTypes == TypeInv /\ Clients => TypeInv'
<1> SUFFICES ASSUME TypeInv, NEW c \in Conn, Client(c), Clients
             PROVE  TypeInv'
  BY DEF Clients
<1> USE EpollNekoAssumption
    DEF TypeInv, TypeOK, KernelTypeOK, Busy, Clients, serverVars, reactorVars, poolVars,
        connVars
<1>1. CASE Connect(c)
  BY <1>1 DEF Connect
<1>2. CASE SendRequest(c)
  <2>1. /\ sent' \in [Conn -> Nat]
        /\ rx' \in [Conn -> Nat]
        /\ awaits' \in [Conn -> BOOLEAN]
        /\ armed' \in [Fd -> BOOLEAN]
    BY <1>2, SMTT(30) DEF SendRequest, Edge
  <2> QED
    BY <1>2, <2>1 DEF SendRequest
<1>3. CASE Drain(c)
  BY <1>3 DEF Drain
<1>4. ASSUME NEW how \in Departure, Leave(c, how)
      PROVE  TypeInv'
  BY <1>4 DEF Leave, Edge
<1> QED
  BY <1>1, <1>2, <1>3, <1>4 DEF Client

(* Every step keeps the types.                                             *)
LEMMA TypeStep == TypeInv /\ [Next]_vars => TypeInv'
<1> SUFFICES ASSUME TypeInv, [Next]_vars
             PROVE  TypeInv'
  OBVIOUS
<1>1. CASE Next
  BY <1>1, ReactorTypes, WorkerTypes, ClientTypes DEF Next
<1>2. CASE UNCHANGED vars
  BY <1>2 DEF TypeInv, TypeOK, KernelTypeOK, Busy,
              vars, kernelVars, serverVars, reactorVars, poolVars, connVars
<1> QED
  BY <1>1, <1>2

(* TypeOK holds in every reachable state: in particular the queue never    *)
(* holds more than maxTasks_ tasks (ThreadPoll.h:33), the counter stays  *)
(* within the limit (HttpServer.cpp:19), and the parsers, buffers and      *)
(* connection states only take the values of HttpContext.h and HttpConn.h. *)
THEOREM TypeCorrect == SafetySpec => []TypeOK
<1>1. SafetySpec => []TypeInv
  BY TypeInit, TypeStep, PTL DEF SafetySpec
<1>2. TypeInv => TypeOK
  BY DEF TypeInv
<1> QED
  BY <1>1, <1>2, PTL

-----------------------------------------------------------------------------
(* Ownership of descriptors.                                               *)

OwnInv == TypeInv /\ OpenAccepted /\ UnknownSilent /\ DescriptorOwnership

(* What a step may do that destroys the connections nobody holds any more: *)
(* take entries out of the map and give shared pointers up.                *)
LEMMA ReapOwn ==
  ASSUME OwnInv, Reap,
         UNCHANGED fd_,
         \A f \in Fd : conn_manager_'[f] \in {conn_manager_[f], None},
         \A c \in Conn : Held(c)' => Held(c)
  PROVE  OpenAccepted' /\ DescriptorOwnership'
<1> DEFINE gone == {c \in Conn : phase[c] = "accepted" /\ ~Held(c)'}
<1>1. /\ phase' = Forget(phase, gone, "closed")
      /\ fdTable' = [f \in Fd |-> IF fdTable[f] \in gone THEN None ELSE fdTable[f]]
  BY DEF Reap, Destroy, CloseDescriptors
<1>2. None \notin Conn
  BY EpollNekoAssumption
<1>3. \A f \in Fd : fdTable'[f] # None =>
        /\ fdTable'[f] = fdTable[f]
        /\ fdTable[f] \in Conn \ gone
        /\ phase'[fdTable[f]] = "accepted"
        /\ Held(fdTable[f])'
  BY <1>1, <1>2 DEF OwnInv, TypeInv, TypeOK, KernelTypeOK, OpenAccepted, Forget
<1>4. \A c \in Conn : Held(c)' => fd_[c] \in Fd /\ fdTable'[fd_[c]] = c
  BY <1>1, <1>2 DEF OwnInv, DescriptorOwnership
<1>5. ASSUME NEW f \in Fd, conn_manager_'[f] # None
      PROVE  fdTable'[f] = conn_manager_'[f]
  <2>1. PICK c \in Conn : c = conn_manager_'[f] /\ c = fdTable[f]
    BY <1>5 DEF OwnInv, DescriptorOwnership, TypeInv, TypeOK, KernelTypeOK
  <2>2. Held(c)'
    BY <2>1 DEF Held, Registered
  <2> QED
    BY <1>1, <2>1, <2>2
<1>6. OpenAccepted'
  BY <1>3 DEF OpenAccepted
<1>7. DescriptorOwnership'
  BY <1>3, <1>4, <1>5 DEF OwnInv, DescriptorOwnership
<1> QED
  BY <1>6, <1>7

(* Every other step, except Accept, leaves the descriptors and the shared  *)
(* pointers as they are, or passes a pointer on.                           *)
LEMMA KeepOwn ==
  ASSUME OwnInv,
         UNCHANGED <<fdTable, fd_, conn_manager_>>,
         \A c \in Conn : phase[c] = "accepted" => phase'[c] = "accepted",
         \A c \in Conn : Held(c)' <=> Held(c)
  PROVE  OpenAccepted' /\ DescriptorOwnership'
BY EpollNekoAssumption
   DEF OwnInv, TypeInv, TypeOK, KernelTypeOK, OpenAccepted, DescriptorOwnership

(* A step that touches none of the pointers does not change who has them.  *)
LEMMA HeldSame ==
  ASSUME UNCHANGED <<conn_manager_, local, running, taskQueue_>>
  PROVE  \A c \in Conn : Held(c)' <=> Held(c)
BY DEF Held, Registered, Carried, Queued

(* Erasing an entry of the map.                                            *)
LEMMA EraseOwn ==
  ASSUME OwnInv, NEW f \in Fd, Erase(f), Reap, UNCHANGED <<fd_, local, poolVars>>
  PROVE  OpenAccepted' /\ DescriptorOwnership'
<1>1. \A g \in Fd : conn_manager_'[g] \in {conn_manager_[g], None}
  BY DEF Erase, OwnInv, TypeInv, TypeOK
<1>2. \A c \in Conn : Held(c)' => Held(c)
  BY <1>1, EpollNekoAssumption DEF Held, Registered, Carried, Queued, poolVars
<1> QED
  BY <1>1, <1>2, ReapOwn

LEMMA OwnInit == Init => OwnInv
BY TypeInit, EpollNekoAssumption
   DEF Init, KernelInit, OwnInv, OpenAccepted, UnknownSilent, DescriptorOwnership,
       Held, Registered, Carried, Queued

(* A new connection gets a descriptor that nobody else has.                *)
LEMMA AcceptOwn ==
  ASSUME OwnInv, NEW f \in Fd, NEW c \in Conn, Accept(c, f)
  PROVE  OpenAccepted' /\ DescriptorOwnership'
<1> USE EpollNekoAssumption
<1>1. /\ phase[c] = "backlog"
      /\ fdTable[f] = None
      /\ conn_manager_[f] = None
  BY DEF Accept, OwnInv, TypeInv, TypeOK, DescriptorOwnership
<1>2. /\ conn_manager_' = [conn_manager_ EXCEPT ![f] = c]
      /\ fd_' = [fd_ EXCEPT ![c] = f]
      /\ fdTable' = [fdTable EXCEPT ![f] = c]
      /\ phase' = [phase EXCEPT ![c] = "accepted"]
      /\ UNCHANGED <<local, running, taskQueue_>>
  BY <1>1 DEF Accept, poolVars
<1>3. \A g \in Fd : fdTable[g] # c
  BY <1>1 DEF OwnInv, OpenAccepted
<1>4. \A d \in Conn : d # c => (Held(d)' <=> Held(d))
  BY <1>1, <1>2 DEF Held, Registered, Carried, Queued, OwnInv, TypeInv, TypeOK
<1>5. Held(c)'
  BY <1>2 DEF Held, Registered, OwnInv, TypeInv, TypeOK
<1>6. OpenAccepted'
  BY <1>2, <1>3 DEF OpenAccepted, OwnInv, TypeInv, TypeOK, KernelTypeOK
<1>7. ASSUME NEW g \in Fd, conn_manager_'[g] # None
      PROVE  fdTable'[g] = conn_manager_'[g]
  BY <1>2, <1>7 DEF OwnInv, TypeInv, TypeOK, KernelTypeOK, DescriptorOwnership
<1>8. ASSUME NEW d \in Conn, Held(d)'
      PROVE  fd_'[d] \in Fd /\ fdTable'[fd_'[d]] = d
  BY <1>1, <1>2, <1>4, <1>8
     DEF OwnInv, TypeInv, TypeOK, KernelTypeOK, DescriptorOwnership
<1>9. ASSUME NEW g \in Fd, fdTable'[g] # None
      PROVE  fd_'[fdTable'[g]] = g /\ Held(fdTable[g])'
  <2>1. CASE g = f
    BY <1>2, <1>5, <2>1 DEF OwnInv, TypeInv, TypeOK, KernelTypeOK
  <2>2. CASE g # f
    <3>1. PICK d \in Conn : d = fdTable[g] /\ d = fdTable'[g]
      BY <1>2, <1>9, <2>2 DEF OwnInv, TypeInv, TypeOK, KernelTypeOK
    <3>2. d # c /\ Held(d) /\ fd_[d] = g
      BY <1>3, <1>9, <3>1 DEF OwnInv, DescriptorOwnership
    <3> QED
      BY <1>2, <1>4, <3>1, <3>2 DEF OwnInv, TypeInv, TypeOK, KernelTypeOK
  <2> QED
    BY <2>1, <2>2
<1> QED
  BY <1>6, <1>7, <1>8, <1>9 DEF DescriptorOwnership

LEMMA ReactorOwn == OwnInv /\ Reactor => OpenAccepted' /\ DescriptorOwnership'
<1> SUFFICES ASSUME OwnInv, Reactor
             PROVE  OpenAccepted' /\ DescriptorOwnership'
  OBVIOUS
<1> USE DEF kernelVars, reactorVars, poolVars, connVars
<1>1. CASE EpollWait
  BY <1>1, KeepOwn, HeldSame DEF EpollWait
<1>2. CASE AcceptFails
  BY <1>2, KeepOwn, HeldSame DEF AcceptFails
<1>3. CASE Refuse
  BY <1>3, KeepOwn, HeldSame DEF Refuse
<1>4. CASE Enqueue
  <2>1. \A c \in Conn : Held(c)' <=> Held(c)
    <3>1. local \in Task
      BY <1>4 DEF Enqueue, OwnInv, TypeInv, TypeOK
    <3>2. taskQueue_' = Append(taskQueue_, local) /\ local' = None
          /\ UNCHANGED <<conn_manager_, running>>
      BY <1>4 DEF Enqueue, Pool!Submit
    <3>3. \A c \in Conn : Queued(c)' <=> Queued(c) \/ local.conn = c
      <4>1. taskQueue_ \in Seq(Task)
        BY DEF OwnInv, TypeInv, TypeOK
      <4>2. /\ Len(taskQueue_') = Len(taskQueue_) + 1
            /\ \A i \in 1 .. Len(taskQueue_) : taskQueue_'[i] = taskQueue_[i]
            /\ taskQueue_'[Len(taskQueue_) + 1] = local
            /\ DOMAIN taskQueue_ = 1 .. Len(taskQueue_)
            /\ DOMAIN taskQueue_' = 1 .. Len(taskQueue_) + 1
            /\ Len(taskQueue_) \in Nat
        BY <3>1, <3>2, <4>1
      <4> QED
        BY <4>2 DEF Queued
    <3> QED
      BY <1>4, <3>2, <3>3 DEF Enqueue, Held, Registered, Carried
  <2> QED
    BY <1>4, <2>1, KeepOwn DEF Enqueue
<1>5. CASE EnqueueRejected
  <2>1. \A c \in Conn : Held(c)' => Held(c)
    BY <1>5 DEF EnqueueRejected, Held, Registered, Carried, Queued
  <2> QED
    BY <1>5, <2>1, ReapOwn DEF EnqueueRejected
<1>6. ASSUME NEW f \in Fd, HandleHup(f)
      PROVE  OpenAccepted' /\ DescriptorOwnership'
  BY <1>6, EraseOwn DEF HandleHup
<1>7. ASSUME NEW f \in Fd, HandleRdHup(f)
      PROVE  OpenAccepted' /\ DescriptorOwnership'
  BY <1>7, EraseOwn DEF HandleRdHup
<1>8. ASSUME NEW f \in Fd, HandleMissing(f)
      PROVE  OpenAccepted' /\ DescriptorOwnership'
  BY <1>8, KeepOwn, HeldSame DEF HandleMissing
<1>9. ASSUME NEW f \in Fd, HandleLookup(f)
      PROVE  OpenAccepted' /\ DescriptorOwnership'
  <2>1. /\ local = None
        /\ conn_manager_[f] # None
        /\ UNCHANGED <<kernelVars, conn_manager_, poolVars, connVars>>
        /\ local'.conn = conn_manager_[f]
        /\ local' \in Task
    BY <1>9, EpollNekoAssumption DEF HandleLookup, OwnInv, TypeInv, TypeOK, Task
  <2>2. \A c \in Conn : Held(c)' <=> Held(c)
    BY <2>1, HylChanAssumption DEF Held, Registered, Carried, Queued
  <2> QED
    BY <2>1, <2>2, KeepOwn
<1>10. ASSUME NEW f \in Fd, NEW c \in Conn, Accept(c, f)
       PROVE  OpenAccepted' /\ DescriptorOwnership'
  BY <1>10, AcceptOwn
<1> QED
  BY <1>1, <1>2, <1>3, <1>4, <1>5, <1>6, <1>7, <1>8, <1>9, <1>10 DEF Reactor

LEMMA WorkerOwn == OwnInv /\ Worker => OpenAccepted' /\ DescriptorOwnership'
<1> SUFFICES ASSUME OwnInv, Worker
             PROVE  OpenAccepted' /\ DescriptorOwnership'
  OBVIOUS
<1> USE DEF kernelVars, reactorVars, poolVars, connVars
<1>1. CASE Begin
  <2>1. /\ running = None
        /\ taskQueue_ # <<>>
        /\ running' = Head(taskQueue_)
        /\ taskQueue_' = Tail(taskQueue_)
        /\ UNCHANGED <<kernelVars, conn_manager_, local, connVars>>
    BY <1>1 DEF Begin, Pool!Begin
  <2>2. taskQueue_ \in Seq(Task)
    BY DEF OwnInv, TypeInv, TypeOK
  <2>3. /\ DOMAIN taskQueue_ = 1 .. Len(taskQueue_)
        /\ DOMAIN taskQueue_' = 1 .. Len(taskQueue_) - 1
        /\ \A i \in 1 .. Len(taskQueue_) - 1 : taskQueue_'[i] = taskQueue_[i + 1]
        /\ Head(taskQueue_) = taskQueue_[1]
        /\ Len(taskQueue_) \in Nat \ {0}
        /\ Head(taskQueue_) \in Task
    BY <2>1, <2>2
  <2>4. \A c \in Conn : Queued(c) <=> taskQueue_[1].conn = c \/ Queued(c)'
    <3>1. ASSUME NEW c \in Conn, Queued(c), taskQueue_[1].conn # c
          PROVE  Queued(c)'
      <4>1. PICK i \in 1 .. Len(taskQueue_) : taskQueue_[i].conn = c
        BY <2>3, <3>1 DEF Queued
      <4>2. i - 1 \in 1 .. Len(taskQueue_) - 1 /\ taskQueue_'[i - 1].conn = c
        BY <2>3, <3>1, <4>1
      <4> QED
        BY <2>3, <4>2 DEF Queued
    <3>2. ASSUME NEW c \in Conn, Queued(c)'
          PROVE  Queued(c)
      BY <2>3, <3>2 DEF Queued
    <3>3. ASSUME NEW c \in Conn, taskQueue_[1].conn = c
          PROVE  Queued(c)
      BY <2>3, <3>3 DEF Queued
    <3> QED
      BY <3>1, <3>2, <3>3
  <2>5. running' # None
    BY <2>1, <2>3, HylChanAssumption
  <2>6. \A c \in Conn : Held(c)' <=> Held(c)
    BY <2>1, <2>3, <2>4, <2>5 DEF Held, Registered, Carried
  <2> QED
    BY <2>1, <2>6, KeepOwn
<1>2. CASE EraseBegins
  BY <1>2, KeepOwn, HeldSame DEF EraseBegins
<1>3. CASE EraseEnds
  <2>1. fd_[running.conn] \in Fd
    <3>1. running \in Task
      BY <1>3 DEF EraseEnds, OwnInv, TypeInv, TypeOK, Busy
    <3> QED
      BY <3>1, HylChanAssumption
         DEF OwnInv, DescriptorOwnership, Held, Carried, Task
  <2> QED
    BY <1>3, <2>1, EraseOwn DEF EraseEnds
<1>4. CASE Release
  <2>1. /\ running' = None
        /\ UNCHANGED <<fd_, conn_manager_, local, taskQueue_>>
        /\ Reap
    BY <1>4 DEF Release, Pool!End
  <2>2. \A c \in Conn : Held(c)' => Held(c)
    BY <2>1 DEF Held, Registered, Carried, Queued
  <2> QED
    BY <2>1, <2>2, ReapOwn
<1>5. ASSUME NEW mask \in {"IN", "OUT"}, Rearm(mask)
      PROVE  OpenAccepted' /\ DescriptorOwnership'
  BY <1>5, KeepOwn, HeldSame DEF Rearm
<1>6. ASSUME NEW c \in Conn, AssertFails(c)
      PROVE  OpenAccepted' /\ DescriptorOwnership'
  BY <1>6, KeepOwn, HeldSame DEF AssertFails
<1>7. ASSUME NEW c \in Conn, Read(c)
      PROVE  OpenAccepted' /\ DescriptorOwnership'
  <2>1. UNCHANGED <<phase, fdTable, fd_, reactorVars, poolVars>>
    BY <1>7 DEF Read, ReadSpins, ReadRequest, ReadNothing
  <2> QED
    BY <2>1, KeepOwn, HeldSame
<1>8. ASSUME NEW c \in Conn, Write(c)
      PROVE  OpenAccepted' /\ DescriptorOwnership'
  <2>1. UNCHANGED <<phase, fdTable, fd_, reactorVars, poolVars>>
    BY <1>8 DEF Write, WriteHead, WriteHeadStops, WriteNoBody, WriteEmptyBody,
                WriteFile, WriteFileStops, ShutdownWrite
  <2> QED
    BY <2>1, KeepOwn, HeldSame
<1> QED
  BY <1>1, <1>2, <1>3, <1>4, <1>5, <1>6, <1>7, <1>8 DEF Worker

LEMMA ClientOwn == OwnInv /\ Clients => OpenAccepted' /\ DescriptorOwnership'
<1> SUFFICES ASSUME OwnInv, NEW c \in Conn, Client(c),
                    UNCHANGED <<reactorVars, poolVars, connVars>>
             PROVE  OpenAccepted' /\ DescriptorOwnership'
  BY DEF Clients, serverVars
<1>1. UNCHANGED fdTable
  BY DEF Client, Connect, SendRequest, Drain, Leave
<1>2. \A d \in Conn : phase[d] = "accepted" => phase'[d] = "accepted"
  BY DEF Client, Connect, SendRequest, Drain, Leave, OwnInv, TypeInv, TypeOK, KernelTypeOK
<1> QED
  BY <1>1, <1>2, KeepOwn, HeldSame DEF reactorVars, poolVars, connVars

(* What epoll does not know: only Accept leaves such a descriptor behind,  *)
(* and nothing arms it.                                                    *)
LEMMA UnknownKept ==
  ASSUME UnknownSilent, UNCHANGED <<fdTable, interest>>,
         \A f \in Fd : armed'[f] => armed[f] \/ interest[f] # None
  PROVE  UnknownSilent'
BY DEF UnknownSilent

LEMMA UnknownReap ==
  ASSUME UnknownSilent, Reap,
         \A f \in Fd : armed'[f] => armed[f] \/ interest[f] # None
  PROVE  UnknownSilent'
<1> DEFINE gone == {c \in Conn : phase[c] = "accepted" /\ ~Held(c)'}
<1>1. /\ fdTable' = [f \in Fd |-> IF fdTable[f] \in gone THEN None ELSE fdTable[f]]
      /\ interest' = [f \in Fd |-> IF fdTable[f] \in gone THEN None ELSE interest[f]]
  BY DEF Reap, Destroy, CloseDescriptors
<1> HIDE DEF gone
<1> QED
  BY <1>1 DEF UnknownSilent

(* Only the registration is looked at by what follows.                     *)
LEMMA UnknownStep ==
  ASSUME OwnInv, [Next]_vars
  PROVE  UnknownSilent'
<1> USE DEF kernelVars, serverVars, reactorVars, poolVars, connVars
<1>1. UnknownSilent
  BY DEF OwnInv
<1>2. CASE UNCHANGED <<fdTable, interest, armed>>
  BY <1>1, <1>2, UnknownKept
<1>3. CASE Reactor
  <2>1. CASE EpollWait
    <3>1. UNCHANGED <<fdTable, interest>> /\ Report
      BY <2>1 DEF EpollWait
    <3>2. \A f \in Fd : armed'[f] => armed[f]
      BY <3>1 DEF Report
    <3> QED
      BY <1>1, <3>1, <3>2, UnknownKept
  <2>2. CASE AcceptFails \/ Refuse \/ Enqueue
    BY <1>2, <2>2 DEF AcceptFails, Refuse, Enqueue
  <2>3. CASE EnqueueRejected
    <3>1. Reap /\ UNCHANGED armed
      BY <2>3 DEF EnqueueRejected
    <3> QED
      BY <1>1, <3>1, UnknownReap
  <2>4. ASSUME NEW f \in Fd, HandleHup(f)
        PROVE  UnknownSilent'
    <3>1. Reap /\ UNCHANGED armed
      BY <2>4 DEF HandleHup
    <3> QED
      BY <1>1, <3>1, UnknownReap
  <2>5. ASSUME NEW f \in Fd, HandleRdHup(f)
        PROVE  UnknownSilent'
    <3>1. Reap /\ (UNCHANGED armed \/ Edge(fdTable[f]))
      BY ONLY <2>5 DEF HandleRdHup
    <3>2. \A g \in Fd : armed'[g] => armed[g] \/ interest[g] # None
      BY <3>1 DEF Edge
    <3> QED
      BY <1>1, <3>1, <3>2, UnknownReap
  <2>6. ASSUME NEW f \in Fd, HandleMissing(f) \/ HandleLookup(f)
        PROVE  UnknownSilent'
    BY <1>2, <2>6 DEF HandleMissing, HandleLookup
  <2>7. ASSUME NEW f \in Fd, NEW c \in Conn, Accept(c, f)
        PROVE  UnknownSilent'
    <3>1. CASE conn_manager_[f] = None
      <4>1. fdTable' = [fdTable EXCEPT ![f] = c] /\ AddListen(f)
        BY <2>7, <3>1 DEF Accept
      <4>2. PICK ok \in BOOLEAN :
              /\ interest' = [interest EXCEPT ![f] = IF ok THEN "IN" ELSE None]
              /\ armed' = [armed EXCEPT ![f] = ok]
        BY <4>1 DEF AddListen, AddSocket
      <4>3. \A g \in Fd \ {f} : /\ fdTable'[g] = fdTable[g]
                              /\ interest'[g] = interest[g]
                              /\ armed'[g] = armed[g]
        BY <4>1, <4>2 DEF OwnInv, TypeInv, TypeOK, KernelTypeOK
      <4>4. interest'[f] = None => ~armed'[f]
        BY <4>2, EpollNekoAssumption DEF OwnInv, TypeInv, TypeOK, KernelTypeOK
      <4> QED
        BY <1>1, <4>3, <4>4 DEF UnknownSilent
    <3>2. CASE conn_manager_[f] # None
      <4>1. UNCHANGED <<fdTable, interest, armed>>
        BY <2>7, <3>2 DEF Accept
      <4> QED
        BY <1>2, <4>1
    <3> QED
      BY <3>1, <3>2
  <2> QED
    BY ONLY <1>3, <2>1, <2>2, <2>3, <2>4, <2>5, <2>6, <2>7 DEF Reactor
<1>4. CASE Worker
  <2>1. CASE Begin \/ EraseBegins
    BY <1>2, <2>1 DEF Begin, EraseBegins
  <2>2. CASE EraseEnds \/ Release
    <3>1. Reap /\ UNCHANGED armed
      BY <2>2 DEF EraseEnds, Release
    <3> QED
      BY <1>1, <3>1, UnknownReap
  <2>3. ASSUME NEW mask \in {"IN", "OUT"}, Rearm(mask)
        PROVE  UnknownSilent'
    <3> DEFINE f == fd_[running.conn]
    <3>1. ModifySocket(f, mask) /\ UNCHANGED fdTable
      BY <2>3 DEF Rearm
    <3>2. CASE interest[f] = None
      <4>1. UNCHANGED <<interest, armed>>
        BY <3>1, <3>2 DEF ModifySocket
      <4> QED
        BY <1>2, <3>1, <4>1
    <3>3. CASE interest[f] # None
      <4>1. /\ interest' = [interest EXCEPT ![f] = mask]
            /\ armed' = [armed EXCEPT ![f] = TRUE]
        BY <3>1, <3>3 DEF ModifySocket
      <4>2. interest \in [Fd -> {"IN", "OUT", None}] /\ armed \in [Fd -> BOOLEAN]
        BY DEF OwnInv, TypeInv, TypeOK, KernelTypeOK
      <4> HIDE DEF f
      <4> QED
        BY <1>1, <3>1, <4>1, <4>2, EpollNekoAssumption DEF UnknownSilent
    <3> QED
      BY <3>2, <3>3
  <2>4. ASSUME NEW c \in Conn, AssertFails(c) \/ Read(c)
        PROVE  UnknownSilent'
    BY <1>2, <2>4 DEF AssertFails, Read, ReadSpins, ReadRequest, ReadNothing
  <2>5. ASSUME NEW c \in Conn, Write(c)
        PROVE  UnknownSilent'
    <3>1. CASE ShutdownWrite(c)
      <4>1. UNCHANGED <<fdTable, interest>> /\ Edge(c)
        BY <3>1 DEF ShutdownWrite
      <4> QED
        BY <1>1, <4>1, UnknownKept DEF Edge
    <3>2. CASE ~ShutdownWrite(c)
      <4>1. UNCHANGED <<fdTable, interest, armed>>
        BY <2>5, <3>2 DEF Write, WriteHead, WriteHeadStops, WriteNoBody, WriteEmptyBody,
                          WriteFile, WriteFileStops
      <4> QED
        BY <1>2, <4>1
    <3> QED
      BY <3>1, <3>2
  <2> QED
    BY ONLY <1>4, <2>1, <2>2, <2>3, <2>4, <2>5 DEF Worker
<1>5. CASE Clients
  <2>1. PICK c \in Conn : Client(c)
    BY <1>5 DEF Clients
  <2>2. UNCHANGED <<fdTable, interest>> /\ (UNCHANGED armed \/ Edge(c))
    BY <2>1 DEF Client, Connect, SendRequest, Drain, Leave
  <2> QED
    BY <1>1, <2>2, UnknownKept DEF Edge
<1>6. CASE UNCHANGED vars
  BY <1>2, <1>6 DEF vars
<1> QED
  BY <1>3, <1>4, <1>5, <1>6 DEF Next

(* DescriptorOwnership is inductive together with the types and            *)
(* OpenAccepted, without which a new connection could come by a second     *)
(* descriptor.                                                             *)
LEMMA OwnStep == OwnInv /\ [Next]_vars => OwnInv'
<1> SUFFICES ASSUME OwnInv, [Next]_vars
             PROVE  OpenAccepted' /\ DescriptorOwnership'
  BY TypeStep, UnknownStep DEF OwnInv
<1>1. CASE Next
  BY <1>1, ReactorOwn, WorkerOwn, ClientOwn DEF Next
<1>2. CASE UNCHANGED vars
  BY <1>2, KeepOwn, HeldSame DEF vars, kernelVars, serverVars, reactorVars, poolVars, connVars
<1> QED
  BY <1>1, <1>2

(* Whatever the reactor, the workers and the clients do, in whatever       *)
(* order, no task and no entry of conn_manager_ ever refers to a           *)
(* descriptor that was closed or that belongs to another connection, and   *)
(* no accepted socket stays open that nothing refers to.                   *)
THEOREM DescriptorsAreOwned == SafetySpec => []DescriptorOwnership
<1>1. SafetySpec => []OwnInv
  BY OwnInit, OwnStep, PTL DEF SafetySpec
<1>2. OwnInv => DescriptorOwnership
  BY DEF OwnInv
<1> QED
  BY <1>1, <1>2, PTL

-----------------------------------------------------------------------------
(* The limit.                                                              *)

OpenConns == {c \in Conn : Open(c)}

(* conn_count never counts fewer connections than are open.                *)
Counted == IsFiniteSet(OpenConns) /\ Cardinality(OpenConns) <= conn_count

(* A step that accepts nothing.                                            *)
LEMMA CountedKept ==
  ASSUME TypeInv, TypeInv', Counted,
         \A c \in Conn : phase'[c] = "accepted" => phase[c] = "accepted",
         conn_count' >= conn_count
  PROVE  Counted'
<1>1. OpenConns' \subseteq OpenConns
  BY DEF OpenConns, Open
<1>2. /\ IsFiniteSet(OpenConns')
      /\ Cardinality(OpenConns') <= Cardinality(OpenConns)
      /\ Cardinality(OpenConns') \in Nat
      /\ Cardinality(OpenConns) \in Nat
  BY <1>1, FS_Subset, FS_CardinalityType DEF Counted
<1> QED
  BY <1>2, HylChanAssumption DEF Counted, TypeInv, TypeOK

(* Destroying connections opens none.                                      *)
LEMMA ReapOpensNone ==
  ASSUME Reap
  PROVE  \A c \in Conn : phase'[c] = "accepted" => phase[c] = "accepted"
BY DEF Reap, Destroy, CloseDescriptors, Forget

LEMMA CountedInit == Init => Counted
<1> SUFFICES ASSUME Init
             PROVE  Counted
  OBVIOUS
<1>1. OpenConns = {}
  BY DEF Init, KernelInit, OpenConns, Open
<1> QED
  BY <1>1, FS_EmptySet DEF Counted, Init

LEMMA CountedStep == TypeInv /\ Counted /\ [Next]_vars => Counted'
<1> SUFFICES ASSUME TypeInv, Counted, [Next]_vars
             PROVE  Counted'
  OBVIOUS
<1>1. TypeInv'
  BY TypeStep
<1>2. conn_count \in Nat
  BY HylChanAssumption DEF TypeInv, TypeOK
<1> DEFINE Opens == \E f \in Fd, c \in Conn : Accept(c, f)
<1>3. CASE Opens
  <2>1. PICK f \in Fd, c \in Conn : Accept(c, f)
    BY <1>3
  <2>2. conn_count' = conn_count + 1
    BY <2>1 DEF Accept
  <2>3. OpenConns' \subseteq OpenConns \cup {c}
    BY <2>1 DEF Accept, OpenConns, Open, TypeInv, TypeOK, KernelTypeOK
  <2>4. /\ IsFiniteSet(OpenConns \cup {c})
        /\ Cardinality(OpenConns \cup {c}) <= Cardinality(OpenConns) + 1
    <3>1. IsFiniteSet(OpenConns)
      BY DEF Counted
    <3>2. Cardinality(OpenConns) \in Nat
      BY <3>1, FS_CardinalityType
    <3>3. /\ IsFiniteSet(OpenConns \cup {c})
          /\ Cardinality(OpenConns \cup {c})
               = IF c \in OpenConns THEN Cardinality(OpenConns) ELSE Cardinality(OpenConns) + 1
      BY <3>1, FS_AddElement
    <3> QED
      BY <3>2, <3>3
  <2>5. /\ IsFiniteSet(OpenConns')
        /\ Cardinality(OpenConns') <= Cardinality(OpenConns \cup {c})
    BY <2>3, <2>4, FS_Subset
  <2>6. /\ Cardinality(OpenConns) \in Nat
        /\ Cardinality(OpenConns \cup {c}) \in Nat
        /\ Cardinality(OpenConns') \in Nat
    BY <2>4, <2>5, FS_CardinalityType DEF Counted
  <2> QED
    BY <1>2, <2>2, <2>4, <2>5, <2>6 DEF Counted
<1>4. CASE ~Opens
  <2> USE DEF kernelVars, reactorVars, poolVars, connVars
  <2>1. /\ \A c \in Conn : phase'[c] = "accepted" => phase[c] = "accepted"
        /\ conn_count' >= conn_count
    <3>1. CASE Reactor
      <4>1. CASE AcceptFails
        BY <1>2, <4>1 DEF AcceptFails
      <4>2. CASE EpollWait \/ Refuse \/ Enqueue \/ EnqueueRejected
        BY <1>2, <4>2, ReapOpensNone DEF EpollWait, Refuse, Enqueue, EnqueueRejected
      <4>3. CASE \E f \in Fd : \/ HandleHup(f) \/ HandleRdHup(f)
                               \/ HandleMissing(f) \/ HandleLookup(f)
        BY <1>2, <4>3, ReapOpensNone DEF HandleHup, HandleRdHup, HandleMissing, HandleLookup
      <4> QED
        BY <1>4, <3>1, <4>1, <4>2, <4>3 DEF Reactor
    <3>2. CASE Worker
      <4>1. CASE \E c \in Conn : AssertFails(c) \/ Read(c) \/ Write(c)
        BY <1>2, <4>1
           DEF AssertFails, Read, ReadSpins, ReadRequest, ReadNothing,
               Write, WriteHead, WriteHeadStops, WriteNoBody, WriteEmptyBody,
               WriteFile, WriteFileStops, ShutdownWrite
      <4>2. CASE \/ Begin \/ EraseBegins \/ EraseEnds \/ Release
                 \/ \E mask \in {"IN", "OUT"} : Rearm(mask)
        BY <1>2, <4>2, ReapOpensNone DEF Begin, EraseBegins, EraseEnds, Release, Rearm
      <4> QED
        BY <3>2, <4>1, <4>2 DEF Worker
    <3>3. CASE Clients
      BY <1>2, <3>3
         DEF Clients, serverVars, Client, Connect, SendRequest, Drain, Leave,
             TypeInv, TypeOK, KernelTypeOK
    <3>4. CASE UNCHANGED vars
      BY <1>2, <3>4 DEF vars, serverVars
    <3> QED
      BY <3>1, <3>2, <3>3, <3>4 DEF Next
  <2> QED
    BY <1>1, <2>1, CountedKept
<1> QED
  BY <1>3, <1>4

LEMMA CountedBounds == TypeInv /\ Counted => ConnectionLimit
<1> SUFFICES ASSUME TypeInv, Counted
             PROVE  ConnectionLimit
  OBVIOUS
<1>1. /\ Cardinality(OpenConns) \in Nat
      /\ Cardinality(OpenConns) <= conn_count
      /\ conn_count \in 0 .. MaxConnections
  BY FS_CardinalityType DEF Counted, TypeInv, TypeOK
<1> QED
  BY <1>1, HylChanAssumption DEF ConnectionLimit, OpenConns

(* Because conn_count is at least the number of open connections, the test *)
(* of HttpServer.cpp:19 keeps that number within the limit.                *)
THEOREM LimitIsKept == SafetySpec => []ConnectionLimit
<1>1. Init => TypeInv /\ Counted
  BY TypeInit, CountedInit
<1>2. TypeInv /\ Counted /\ [Next]_vars => (TypeInv /\ Counted)'
  BY TypeStep, CountedStep
<1> QED
  BY <1>1, <1>2, CountedBounds, PTL DEF SafetySpec

=============================================================================
